------------------------------ MODULE Memoizer ------------------------------
(***************************************************************************)
(* ensure (memoizer.py): drive a run until its head holds a target.  Each  *)
(* caller reads the log first, launches a worker or finds one at work,     *)
(* polls, and drives again when its drive has ended below the target.      *)
(*                                                                         *)
(* The workers are the claim protocol of worker.py: those the drives       *)
(* launched, and foreign ones.  They claim from the root or from a         *)
(* checkpoint of one store, iterate, commit and save in two phases, exit   *)
(* or die, and may do so between any two reads of a poll.                  *)
(***************************************************************************)
EXTENDS Checkpoints

CONSTANTS
  Ensurers,
  Foreign,      \* workers that somebody else runs
  Wrapped,      \* the launches that may go through a wrapper
  Target,       \* the commits asked for
  MaxClaims,    \* bound: the claims ever made
  MaxCommits    \* bound: the commits ever made

ASSUME MemoizerAssumption ==
  /\ Wrapped \subseteq RequestIds
  /\ Foreign \cap RequestIds = {} /\ NoId \notin Foreign
  /\ Target \in Nat /\ MaxClaims \in Nat /\ MaxCommits \in Nat

(* The request ids of this module are the launch ids.  One whose worker    *)
(* died without a record is used again; a drive waits for one (a bound).   *)
Launches == RequestIds

VARIABLES
  log,
  worker,   \* the worker of each launch, and the foreign ones
  store,    \* the checkpoints that have been named by a node
  drive     \* each caller's ensure, its handle included

vars == <<log, worker, store, drive>>

W == Len(log)

Newest(S) == CHOOSE i \in S : \A j \in S : j <= i

Ended(c) == Endings(log, c, W) # {}

Held == {c \in Claims(log, W) : IsNewestClaim(log, c, W) /\ ~Ended(c)}

Alive(p) == worker[p].at \notin {"none", "dead"}

(* The handle of a drive's launch is its worker's process, or a wrapper's  *)
(* (sh -c, sbatch), which ends before its worker or after it.              *)
HandleAlive(e) ==
  CASE drive[e].handle = "own"      -> Alive(drive[e].launch)
    [] drive[e].handle = "wrapping" -> TRUE
    [] drive[e].handle = "ended"    -> FALSE

Appended(e) == log' = Append(log, e)

(* The newest claim's head, and the commits on its lineage. *)
HeadNode ==
  IF Claims(log, W) = {} THEN 0
  ELSE CHOOSE n \in 0..W : IsHead(log, Newest(Claims(log, W)), W, n)

Count == Cardinality(CommitsOn(log, HeadNode))

Reached == Count >= Target

Settled == HeadNode # 0 /\ Closed(log[HeadNode])

-----------------------------------------------------------------------------
(* The workers. *)

Booting == [at |-> "boot", claim |-> 0, position |-> 0, work |-> 0]

(* The state of a process goes with it. *)
Gone(p) == [Booting EXCEPT !.at = "dead", !.claim = worker[p].claim]

(* It claims from the root, or loads the checkpoint that a strategy picks. *)
Claim(p) ==
  /\ worker[p].at = "boot" /\ Held = {}
  /\ Cardinality(Claims(log, W)) < MaxClaims
  /\ \E c \in {[node |-> 0, work |-> 0]}
            \cup OnHeadLineage(log, store, W, HeadNode) \cup MostProgress(log, store, W) :
       /\ Appended([Blank EXCEPT !.topic = "started", !.ref = c.node,
                                 !.rid = IF p \in Launches THEN p ELSE NoId])
       /\ worker' = [worker EXCEPT ![p] =
            [at |-> "live", claim |-> W + 1, position |-> c.node, work |-> c.work]]
  /\ UNCHANGED <<store, drive>>

(* The iteration's body, which moves the process's state past its node. *)
Iterate(p) ==
  /\ worker[p].at = "live" /\ ~Ended(worker[p].claim)
  /\ Cardinality({i \in 1..W : log[i].topic = "commit"}) < MaxCommits
  /\ worker' = [worker EXCEPT ![p].at = "inside", ![p].work = @ + 1]
  /\ UNCHANGED <<log, store, drive>>

(* commit(): the checkpoint is prepared, where nobody reads it, and the    *)
(* node is written; then the checkpoint is bound to it.                    *)
Commit(p) ==
  /\ worker[p].at = "inside" /\ ~Ended(worker[p].claim)
  /\ Appended([Blank EXCEPT !.topic = "commit", !.claim = worker[p].claim,
                            !.ref = worker[p].position])
  /\ LET commits == Cardinality(CommitsOn(log, worker[p].position)) + 1
     IN  worker' = [worker EXCEPT ![p].position = W + 1,
                                  ![p].at = IF SavesAtCommit(commits) THEN "bind" ELSE "live"]
  /\ UNCHANGED <<store, drive>>

(* bind: the bytes are named by the node, whoever has ended the claim. *)
Bind(p) ==
  /\ worker[p].at \in {"bind", "bind exit"}
  /\ store' = store \cup {[node |-> worker[p].position, work |-> worker[p].work]}
  /\ worker' = [worker EXCEPT ![p] = IF @.at = "bind" THEN [@ EXCEPT !.at = "live"]
                                     ELSE Gone(p)]
  /\ UNCHANGED <<log, drive>>

(* The exit, prepared before it and bound after it where it saves.  An     *)
(* error is the body's, the prepare's or the bind's, and tears it; a bind  *)
(* that raises after the exit leaves the exit as it is (Ends).             *)
Exit(p, outcome) ==
  /\ worker[p].at \in IF outcome = "errored" THEN {"live", "inside", "bind"} ELSE {"live"}
  /\ ~Ended(worker[p].claim)
  /\ Appended([Blank EXCEPT !.topic = "stopped", !.claim = worker[p].claim,
                            !.ref = worker[p].position, !.body = outcome,
                            !.torn = (outcome = "errored")])
  /\ worker' = IF SavesAtExit(outcome)
               THEN [worker EXCEPT ![p].at = "bind exit", ![p].position = W + 1]
               ELSE [worker EXCEPT ![p] = Gone(p)]
  /\ UNCHANGED <<store, drive>>

(* It dies, or ends without having claimed, or is released. *)
Ends(p) ==
  /\ Alive(p)
  /\ worker' = [worker EXCEPT ![p] = Gone(p)]
  /\ UNCHANGED <<log, store, drive>>

-----------------------------------------------------------------------------
(* The drives. *)

NoDrive ==
  [at |-> "first", launch |-> NoId, handle |-> "own", alive |-> FALSE,
   reaped |-> FALSE, w |-> 0, node |-> 0, commits |-> 0, recordless |-> <<>>,
   result |-> "none"]

At(e, at) == drive[e].at = at /\ drive[e].result = "none"

Goes(e, at) == drive' = [drive EXCEPT ![e].at = at]

(* It goes on at another call, of what it read keeping only here. *)
Moves(e, at, here) ==
  drive' = [drive EXCEPT ![e].at = at, ![e].recordless = here, ![e].alive = FALSE,
                         ![e].w = 0, ![e].node = 0, ![e].commits = 0]

Returns(e, result) ==
  drive' = [drive EXCEPT ![e] = [NoDrive EXCEPT !.at = "done", !.result = result,
                                                !.launch = drive[e].launch,
                                                !.handle = drive[e].handle,
                                                !.w = drive[e].w]]

(* Read first: a reached or an unreachable target produces nothing. *)
ReadFirst(e) ==
  /\ At(e, "first")
  /\ CASE Reached              -> Returns(e, "Reached")
       [] ~Reached /\ Settled  -> Returns(e, "Unreachable")
       [] ~Reached /\ ~Settled -> Goes(e, "extend")
  /\ UNCHANGED <<log, worker, store>>

(* The process of the held claim is gone, which its probe says. *)
DeadLaunched ==               \* mutant: only the claims of launches are probed
  {c \in Held : /\ log[c].rid # NoId
                /\ \A p \in DOMAIN worker : worker[p].claim = c => ~Alive(p)}

DeadHeld ==
  {c \in Held : \A p \in DOMAIN worker : worker[p].claim = c => ~Alive(p)}

DiedLost(c) == [Blank EXCEPT !.topic = "died", !.claim = c, !.body = "lost"]

ClaimsOf(l) == {c \in Claims(log, W) : log[c].rid = l /\ l # NoId}

Fresh(e) == {l \in Launches : /\ ~Alive(l) /\ ClaimsOf(l) = {}
                              /\ \A f \in Ensurers : drive[f].launch = l => f = e}

Handles(l) == IF l \in Wrapped THEN {"own", "wrapping"} ELSE {"own"}

Drives(e, l, handle) ==
  drive' = [drive EXCEPT ![e].at = "alive", ![e].launch = l, ![e].handle = handle,
                           ![e].alive = FALSE, ![e].reaped = FALSE]

(* extend: relaunch_if_needed, or the episode that somebody else drives. *)
Extend(e) ==
  /\ At(e, "extend")
  /\ \/ /\ Held # {} /\ DeadHeld = {}
        /\ Drives(e, NoId, "own") /\ UNCHANGED <<log, worker, store>>
     \/ /\ Held = {} \/ DeadHeld # {}
        /\ Fresh(e) # {}
        /\ LET l == CHOOSE l \in Fresh(e) : TRUE
           IN  /\ \E handle \in Handles(l) : Drives(e, l, handle)
               /\ worker' = [worker EXCEPT ![l] = Booting]
        /\ IF Held = {} THEN UNCHANGED log
           ELSE \E c \in DeadHeld : Appended(DiedLost(c))
        /\ UNCHANGED store

(* The handle's liveness is read; a dead one is reaped once, and the claim *)
(* that its process made reported when it has no exit: with its cause, or  *)
(* lost while it is held.  A wrapper made none.                            *)
ReadAlive(e) ==
  /\ At(e, "alive")
  /\ LET l     == drive[e].launch
         alive == IF l = NoId THEN Held # {} ELSE HandleAlive(e)
         own   == {c \in ClaimsOf(l) : drive[e].handle = "own"}
         reap  == ~alive /\ ~drive[e].reaped
     IN  /\ drive' = [drive EXCEPT ![e].at = "report", ![e].alive = alive,
                                   ![e].reaped = @ \/ ~alive]
         /\ \/ /\ reap /\ own # {}
               /\ \E outcome \in {"cause", "lost"} :
                    LET c == Newest(own)
                    IN  /\ ~HasExit(log, c, W) /\ (outcome = "lost" => ~Ended(c))
                        /\ Appended([DiedLost(c) EXCEPT !.body = outcome])
            \/ /\ \/ ~reap \/ own = {}
                  \/ \E c \in own : c = Newest(own) /\ Ended(c)
               /\ UNCHANGED log
  /\ UNCHANGED <<worker, store>>

ReportIfDead(e) ==
  /\ At(e, "report") /\ Goes(e, "read")
  /\ IF DeadHeld = {} THEN UNCHANGED log
     ELSE \E c \in DeadHeld : Appended(DiedLost(c))
  /\ UNCHANGED <<worker, store>>

(* The outcomes of claim c: its exit's, or its death reports'. *)
Outcomes(c) ==
  LET exits == {i \in Endings(log, c, W) : log[i].topic = "stopped"}
  IN  {log[i].body : i \in IF exits = {} THEN Endings(log, c, W) ELSE exits}

Failures == {"errored", "cause", "lost"}

Committed(c) == \E i \in 1..W : log[i].topic = "commit" /\ log[i].claim = c

NewestOf(S) == IF S = {} THEN {} ELSE {Newest(S)}

(* The claim of a drive: its launch's, and not the run's newest. *)
DriveClaim(e) == NewestOf(ClaimsOf(drive[e].launch))

(* A poll's reads at W: the target, then the end of the drive's claim. *)
Poll(e) ==
  /\ At(e, "read")
  /\ LET claim == DriveClaim(e)
         ended == {c \in claim : Ended(c)}
     IN  CASE Reached -> Returns(e, "Reached")
           [] ~Reached /\ Settled -> Returns(e, "Unreachable")
           [] ~Reached /\ ~Settled /\ claim # {} ->
                IF ended = {} THEN Moves(e, "alive", drive[e].recordless)
                ELSE IF \E c \in ended : Outcomes(c) \cap Failures # {}
                THEN Returns(e, "RunFailed")
                ELSE IF ~\E c \in ended : Committed(c) THEN Returns(e, "NoProgress")
                ELSE Moves(e, "extend", <<>>)
           [] ~Reached /\ ~Settled /\ claim = {} ->
                drive' = [drive EXCEPT ![e].at = "held", ![e].w = W, ![e].node = HeadNode,
                                      ![e].commits = Count]
  /\ UNCHANGED <<log, worker, store>>

WaitsNow(e) ==                \* mutant: the handle is asked again after the read
  (drive[e].launch # NoId /\ HandleAlive(e)) \/ Held # {}

Waits(e) == drive[e].alive \/ Held # {}

(* The drive has no claim: it waits for its process or for whoever holds   *)
(* the run, or is recordless, the second time in a row at one head.        *)
Recordless(e) ==
  LET here == <<drive[e].node, drive[e].commits>>
  IN  /\ At(e, "held") /\ ~Waits(e)
      /\ IF drive[e].recordless = here THEN Returns(e, "Recordless")
         ELSE Moves(e, "extend", here)
      /\ UNCHANGED <<log, worker, store>>

WaitFor(e) ==
  /\ At(e, "held") /\ Waits(e)
  /\ Moves(e, "alive", drive[e].recordless)
  /\ UNCHANGED <<log, worker, store>>

WrapperEnds(e) ==
  /\ drive[e].handle = "wrapping" /\ drive[e].result = "none"
  /\ drive' = [drive EXCEPT ![e].handle = "ended"]
  /\ UNCHANGED <<log, worker, store>>

-----------------------------------------------------------------------------

Init ==
  /\ log = <<>>
  /\ worker = [p \in Launches \cup Foreign |->
       [Booting EXCEPT !.at = IF p \in Foreign THEN "boot" ELSE "none"]]
  /\ store = {}
  /\ drive = [e \in Ensurers |-> NoDrive]

WorkerStep(p) ==
  \/ Claim(p) \/ Iterate(p) \/ Commit(p) \/ Bind(p) \/ Ends(p)
  \/ \E outcome \in {"completed", "preempted", "errored"} : Exit(p, outcome)

DriveStep(e) ==
  \/ ReadFirst(e) \/ Extend(e) \/ ReadAlive(e) \/ ReportIfDead(e) \/ Poll(e)
  \/ Recordless(e) \/ WaitFor(e)

Next ==
  \/ \E p \in Launches \cup Foreign : WorkerStep(p)
  \/ \E e \in Ensurers : DriveStep(e) \/ WrapperEnds(e)

(* A caller of ensure goes on polling, a worker that has started goes on   *)
(* (it claims, commits, exits or dies), and a wrapper ends.                *)
Fairness ==
  /\ \A e \in Ensurers : WF_vars(DriveStep(e)) /\ WF_vars(WrapperEnds(e))
  /\ \A p \in Launches \cup Foreign : WF_vars(WorkerStep(p))

Spec == Init /\ [][Next]_vars /\ Fairness

-----------------------------------------------------------------------------
(* The properties. *)

(* RecordlessExitError, NoProgressError, RunFailedError: what ensure       *)
(* raises of its drive is so.  A recordless drive had made no claim when   *)
(* the log was read, and, when its handle is its worker's own process,     *)
(* made none and never will, although it may have claimed and died between *)
(* any two reads; a wrapper's handle ends before its worker claims, and    *)
(* says nothing of what it writes later.  A failure or a standstill is of  *)
(* a claim that its own launch made.                                       *)
RaisesOfItsDrive ==
  \A e \in Ensurers :
    LET l   == drive[e].launch
        own == ClaimsOf(l)
    IN  /\ drive[e].result = "Recordless" =>
             /\ \A c \in own : c > drive[e].w
             /\ l # NoId /\ drive[e].handle = "own" => own = {}
        /\ drive[e].result \in {"NoProgress", "RunFailed"} =>
             own # {} /\ \A c \in own : Ended(c)

(* SavePolicy, "no lineage lie can be written": every checkpoint holds     *)
(* exactly the state of the node that names it, so that whatever crashes,  *)
(* raises or is resumed elsewhere between a prepare and its bind, a worker *)
(* between iterations has run the commits of its own lineage, no more and  *)
(* no fewer.                                                               *)
NoLineageLie ==
  /\ \A c \in store : /\ c.node \in Extendable(log, W)
                      /\ c.work = Cardinality(CommitsOn(log, c.node))
  /\ \A p \in DOMAIN worker : worker[p].at \in {"live", "bind"} =>
       worker[p].work = Cardinality(CommitsOn(log, worker[p].position))

(* Every call of ensure returns or raises: a lost claim race, a drive that *)
(* leaves no record, a worker that dies under it and somebody else's claim *)
(* are each waited out or driven again, and never for ever.                *)
EnsureEnds == \A e \in Ensurers : <>(drive[e].result # "none")
=============================================================================
