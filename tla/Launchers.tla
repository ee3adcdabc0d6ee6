----------------------------- MODULE Launchers -----------------------------
(***************************************************************************)
(* Supervisors (launcher.py): processes of one host that decide to launch  *)
(* workers into a run, hold a handle for each child they spawned, reap the *)
(* finished ones, kill the orphaned ones, and report the dead.             *)
(*                                                                         *)
(* A launch is named by its launch id, which its claim carries; a launch   *)
(* is a subprocess, a subprocess that wraps the claimant in a grandchild,  *)
(* or a thread of its supervisor.  The worker it runs is the claim         *)
(* protocol of worker.py and no more: it claims, binds the lease it        *)
(* serves, exits or is released, and may die at any time; Worker.tla has   *)
(* the rest.  Every CAS checks what it writes at the W it appends at, so a *)
(* report is one step; what was read before it may be stale.               *)
(***************************************************************************)
EXTENDS RunLog

CONSTANTS
  Supervisors,
  Kinds,        \* the ways to make each launch: "local", "wrapped", "thread"
  Statuses,     \* the ways each launch's process may end
  MaxClaims,    \* bound: the claims ever made
  MaxFaults     \* bound: sends that raise, sessions lost, pids reused,
                \* mistaken reports and supervisor crashes, together

(* The request ids of this module are the launch ids, and one lease. *)
CONSTANT Lease

ASSUME LaunchAssumption ==
  /\ Lease \in RequestIds /\ NoId \notin Supervisors
  /\ Kinds \in [RequestIds \ {Lease} -> SUBSET {"local", "wrapped", "thread"}]
  /\ Statuses \in [RequestIds \ {Lease} -> SUBSET {"exit0", "exit1", "SIGTERM", "SIGKILL"}]
  /\ MaxClaims \in Nat /\ MaxFaults \in Nat

Launches == RequestIds \ {Lease}

VARIABLES
  log,
  proc,     \* each launch's process and the worker it runs
  handle,   \* each launch's handle, as its supervisor holds it
  sup,      \* each supervisor's decider
  faults    \* the faults left

vars == <<log, proc, handle, sup, faults>>

Signals == {"SIGTERM", "SIGKILL"}

(* at: not spawned, running, ended but not waited for (a zombie), or gone. *)
NoProc ==
  [kind |-> "local", at |-> "none", status |-> "exit0", killed |-> FALSE,
   worker |-> "none", claim |-> 0, session |-> TRUE]

(* lock: who is inside the handle's reap, and where; orphan: the W of the  *)
(* read that found the child orphaned and is to kill it, or 0.             *)
NoHandle ==
  [owner |-> NoId, held |-> FALSE, step |-> "PENDING", killSent |-> FALSE,
   lock |-> "free", orphan |-> 0, ends |-> 0, unacked |-> 0]

Rec(topic, r, c, body, h) ==
  [topic |-> topic, rid |-> r, claim |-> c, body |-> body, handle |-> h,
   honored |-> {}]

NoHandleOf == <<"none", NoId>>

(* The handle the claimant of launch l names: its pid's. *)
HandleOf(l) ==
  CASE proc[l].kind = "local"   -> <<"child", l>>
    [] proc[l].kind = "wrapped" -> <<"grandchild", l>>
    [] proc[l].kind = "thread"  -> <<"supervisor", l>>

WorkerAlive(l) == proc[l].worker \in {"idle", "live"}

ExistsLaunch(h) ==            \* mutant: the launch's process answers for the claimant's
  CASE h[1] \in {"child", "grandchild"} -> proc[h[2]].at \in {"running", "ended"}
    [] h[1] = "supervisor" -> handle[h[2]].owner # NoId

(* resolve: the process of a handle exists; an unreaped child still does. *)
Exists(h) ==
  CASE h[1] = "child"      -> proc[h[2]].at \in {"running", "ended"}
    [] h[1] = "grandchild" -> WorkerAlive(h[2])
    [] h[1] = "supervisor" -> handle[h[2]].owner # NoId

Fault == faults > 0 /\ faults' = faults - 1

Appended(e) == log' = Append(log, e)

-----------------------------------------------------------------------------
(* Reads of the log. *)

W == Len(log)

Newest(S) == CHOOSE i \in S : \A j \in S : j <= i

Ended(c) == Endings(log, c, W) # {}

HeldUnlessExit ==             \* mutant: a report does not release the claim
  {c \in Claims(log, W) : IsNewestClaim(log, c, W) /\ ~HasExit(log, c, W)}

HeldClaims == {c \in Claims(log, W) : IsNewestClaim(log, c, W) /\ ~Ended(c)}

ClaimsOf(l) == {c \in Claims(log, W) : log[c].rid = l}

(* launch_claim, and _own_claim: the newest claim that names the launch,   *)
(* when its claimant is the child itself.                                  *)
OwnClaimOfAny(l) ==           \* mutant: the claimant's handle is not compared
  IF ClaimsOf(l) = {} THEN {} ELSE {Newest(ClaimsOf(l))}

OwnClaim(l) ==
  IF ClaimsOf(l) = {} THEN {}
  ELSE {c \in {Newest(ClaimsOf(l))} :
          proc[l].kind = "thread" \/ log[c].handle = <<"child", l>>}

OrphanedAnyEnd(l) ==          \* mutant: a claim its own exit ended counts
  \E c \in OwnClaim(l) : Ended(c)

OrphanedLost(l) ==            \* mutant: only a report of no cause is read
  \E c \in OwnClaim(l) : \E i \in Endings(log, c, W) : log[i].body = "lost"

Orphaned(l) ==
  \E c \in OwnClaim(l) :
    LET topics == {log[i].topic : i \in Endings(log, c, W)}
    IN  "died" \in topics /\ "stopped" \notin topics

(* _report: nothing on a claim with an exit, and no lost on an ended one.  *)
Reports(c, outcome) == ~HasExit(log, c, W) /\ (outcome = "lost" => ~Ended(c))

Died(c, outcome) == Rec("died", NoId, c, outcome, NoHandleOf)

(* The lease or the durable demand of the run, which live_demand says is   *)
(* live: a lease is void once a claim it is bound to has ended.            *)
Demand ==
  \E i \in 1..W : /\ log[i].topic = "subscribe"
                  /\ log[i].body = "lease" => ~Void(log, log[i].rid, W)

-----------------------------------------------------------------------------
(* The workers (worker.py). *)

Claim(l) ==
  /\ proc[l].worker = "idle" /\ proc[l].session
  /\ HeldClaims = {} /\ Cardinality(Claims(log, W)) < MaxClaims
  /\ Appended(Rec("started", l, 0, "", HandleOf(l)))
  /\ proc' = [proc EXCEPT ![l].worker = "live", ![l].claim = W + 1]
  /\ UNCHANGED <<handle, sup, faults>>

(* It binds the lease it comes to serve, unless its claim has ended. *)
BindLease(l) ==
  /\ proc[l].worker = "live" /\ proc[l].session /\ ~Ended(proc[l].claim)
  /\ \E i \in 1..W : log[i].topic = "subscribe" /\ log[i].body = "lease"
  /\ \A i \in 1..W : log[i].topic # "bound"
  /\ Appended(Rec("bound", Lease, proc[l].claim, "", NoHandleOf))
  /\ UNCHANGED <<proc, handle, sup, faults>>

Exit(l) ==
  /\ proc[l].worker = "live" /\ proc[l].session /\ ~Ended(proc[l].claim)
  /\ Appended(Rec("stopped", NoId, proc[l].claim, "preempted", NoHandleOf))
  /\ proc' = [proc EXCEPT ![l].worker = "idle", ![l].claim = 0]
  /\ UNCHANGED <<handle, sup, faults>>

(* A worker whose claim a report has ended is released, and writes nothing. *)
Release(l) ==
  /\ proc[l].worker = "live" /\ Ended(proc[l].claim)
  /\ proc' = [proc EXCEPT ![l].worker = "idle", ![l].claim = 0]
  /\ UNCHANGED <<log, handle, sup, faults>>

(* The launch's own process ends, and with it the worker that it is. *)
ProcessEnds(l, status) ==
  /\ proc[l].at = "running"
  /\ proc[l].kind = "thread" => status \notin Signals
  /\ proc' = [proc EXCEPT
       ![l].at = IF proc[l].kind = "thread" THEN "gone" ELSE "ended",
       ![l].status = status,
       ![l].worker = IF proc[l].kind = "wrapped" THEN @ ELSE "dead"]
  /\ handle' = IF proc[l].kind = "thread"
               THEN [handle EXCEPT ![l].lock = "terminate"] ELSE handle
  /\ UNCHANGED <<log, sup, faults>>

GrandchildEnds(l) ==
  /\ proc[l].kind = "wrapped" /\ WorkerAlive(l)
  /\ proc' = [proc EXCEPT ![l].worker = "dead"]
  /\ UNCHANGED <<log, handle, sup, faults>>

(* A Postgres session ends under a live worker, which can write no more. *)
SessionLost(l) ==
  /\ WorkerAlive(l) /\ proc[l].session /\ Fault
  /\ proc' = [proc EXCEPT ![l].session = FALSE]
  /\ UNCHANGED <<log, handle, sup>>

(* Somebody reports a live worker dead, with force. *)
MistakenReport ==
  /\ \E c \in HeldClaims : Appended(Died(c, "mistaken"))
  /\ Fault
  /\ UNCHANGED <<proc, handle, sup>>

-----------------------------------------------------------------------------
(* The handle of a launch: the Popen's poll, and the reap under its lock.  *)
(* A reap of a subprocess that a write's raise cut short is begun again by *)
(* the next poll or wait of any thread; a thread's end is recorded once.   *)

(* poll, wait or is_alive finds the child ended: the Popen has its status. *)
PollEnded(l) ==
  /\ handle[l].held /\ proc[l].kind # "thread"
  /\ proc[l].at = "ended"
  /\ proc' = [proc EXCEPT ![l].at = "gone"]
  /\ UNCHANGED <<log, handle, sup, faults>>

(* A zombie nobody holds is collected by its parent or by init. *)
Collected(l) ==
  /\ proc[l].at = "ended" /\ ~handle[l].held
  /\ proc' = [proc EXCEPT ![l].at = "gone"]
  /\ UNCHANGED <<log, handle, sup, faults>>

ReapBegins(l) ==
  /\ handle[l].held /\ proc[l].kind # "thread"
  /\ proc[l].at = "gone" /\ handle[l].lock = "free" /\ handle[l].step # "DONE"
  /\ handle' = [handle EXCEPT ![l].lock =
                  IF handle[l].step = "PENDING" THEN "terminate" ELSE "report"]
  /\ UNCHANGED <<log, proc, sup, faults>>

SendTerminatedOnly(l) ==      \* mutant: the step waits for the report
  /\ handle[l].lock = "terminate"
  /\ handle' = [handle EXCEPT ![l].lock = "report", ![l].ends = @ + 1]
  /\ UNCHANGED <<log, proc, sup, faults>>

SendTerminated(l) ==
  /\ handle[l].lock = "terminate"
  /\ handle' = [handle EXCEPT ![l].step = "ENDED", ![l].lock = "report", ![l].ends = @ + 1]
  /\ UNCHANGED <<log, proc, sup, faults>>

(* The orphan kill is no evidence of how the claim ended. *)
ByLauncher(l) == handle[l].killSent /\ proc[l].status = "SIGKILL"

Outcome(status) ==
  CASE status = "exit0"    -> "lost"
    [] status = "exit1"    -> "errored"
    [] status \in Signals  -> "killed"

(* The claim the reap reports, and its death report.  The child is gone,   *)
(* so it makes no newer claim.                                             *)
Blamed(l) ==
  {c \in IF ByLauncher(l) THEN {} ELSE OwnClaim(l) : Reports(c, Outcome(proc[l].status))}

Report(l) ==
  IF Blamed(l) = {} THEN UNCHANGED log
  ELSE \E c \in Blamed(l) : Appended(Died(c, Outcome(proc[l].status)))

ReportDeath(l) ==
  /\ handle[l].lock = "report" /\ Report(l)
  /\ handle' = [handle EXCEPT ![l].step = "DONE", ![l].lock = "free"]
  /\ UNCHANGED <<proc, sup, faults>>

(* A read or a write of the reap raises, a write perhaps after it landed:  *)
(* the step is left where it was, and a thread's end is given up.          *)
ReapRaises(l) ==
  /\ handle[l].lock # "free" /\ Fault
  /\ \E landed \in {0, 1} :
       /\ IF landed = 1 /\ handle[l].lock = "report" THEN Report(l) ELSE UNCHANGED log
       /\ handle' = [handle EXCEPT
            ![l].lock = "free",
            ![l].unacked = IF handle[l].lock = "terminate" THEN @ + landed ELSE @,
            ![l].step = IF proc[l].kind = "thread" THEN "DONE" ELSE @]
  /\ UNCHANGED <<proc, sup>>

(* reap() finds a live child orphaned, and then kills it: the child may    *)
(* end, be reaped by another thread, or claim again and serve, in between. *)
FindOrphan(l) ==
  /\ handle[l].held /\ proc[l].kind # "thread"
  /\ proc[l].at = "running" /\ handle[l].lock = "free" /\ handle[l].orphan = 0
  /\ Orphaned(l)
  /\ handle' = [handle EXCEPT ![l].orphan = W]
  /\ UNCHANGED <<log, proc, sup, faults>>

KillOrphan(l) ==
  /\ handle[l].orphan # 0 /\ handle[l].lock = "free"
  /\ handle' = [handle EXCEPT ![l].orphan = 0,
                              ![l].killSent = @ \/ proc[l].at # "gone"]
  /\ proc' = IF proc[l].at = "running"
             THEN [proc EXCEPT ![l].at = "ended", ![l].status = "SIGKILL",
                               ![l].killed = TRUE,
                               ![l].worker = IF proc[l].kind = "wrapped" THEN @ ELSE "dead"]
             ELSE [proc EXCEPT ![l].at = "gone"]
  /\ UNCHANGED <<log, sup, faults>>

(* reap() drops the handle whose reap is done. *)
DropHandle(l) ==
  /\ handle[l].held /\ handle[l].step = "DONE" /\ handle[l].lock = "free"
  /\ handle' = [handle EXCEPT ![l].held = FALSE, ![l].orphan = 0]
  /\ UNCHANGED <<log, proc, sup, faults>>

-----------------------------------------------------------------------------
(* The deciders, on their supervisor's main thread. *)

At(s, at) == sup[s].at = at

Idle == [at |-> "idle", claim |-> 0, force |-> FALSE, leased |-> FALSE]

Goes(s, at) ==
  sup' = [sup EXCEPT ![s] = IF at = "idle" THEN Idle ELSE [@ EXCEPT !.at = at]]

(* report_if_dead of the newest claim c: its session, which ends with its  *)
(* worker or before and may not tell, or its handle, whose pid another     *)
(* process may have been given, is evidence, with force or without.        *)
SessionEnded(c) == LET l == log[c].rid IN ~WorkerAlive(l) \/ ~proc[l].session

FindDead(s, leased, force) ==
  \E c \in HeldClaims :
    /\ IF force THEN SessionEnded(c) ELSE ~Exists(log[c].handle)
    /\ sup' = [sup EXCEPT ![s] = [at |-> "report", claim |-> c, force |-> force,
                                  leased |-> leased]]

(* The deciders: a free claim is launched into, a held one probed.  A      *)
(* session probe that cannot tell leaves the handle's.                     *)
LaunchOrProbe(s, leased, force) ==
  /\ sup[s] = Idle
  /\ \/ HeldClaims = {} /\ ~force /\ Goes(s, "spawn")
     \/ FindDead(s, leased, force)
  /\ UNCHANGED <<log, proc, handle, faults>>

Relaunch(s, force) == LaunchOrProbe(s, FALSE, force)

EnsureServed(s, force) == Demand /\ LaunchOrProbe(s, TRUE, force)

(* The report, which probes again unless the session is its evidence; when *)
(* it lands, ensure_served reads the demand again, which it may have voided. *)
ReportLost(s) ==
  /\ At(s, "report")
  /\ LET c == sup[s].claim
     IN  \/ /\ Reports(c, "lost")
            /\ sup[s].force \/ ~Exists(log[c].handle)
            /\ Appended(Died(c, "lost"))
            /\ Goes(s, IF sup[s].leased /\ ~Demand' THEN "idle" ELSE "spawn")
            /\ UNCHANGED faults
         \/ /\ ~Reports(c, "lost")
            /\ Goes(s, "idle") /\ UNCHANGED <<log, faults>>
         \/ /\ Reports(c, "lost") /\ ~sup[s].force   \* the pid was reused
            /\ Goes(s, "idle") /\ UNCHANGED log /\ Fault
  /\ UNCHANGED <<proc, handle>>

Fresh == {l \in Launches : proc[l].at = "none"}

(* launch: a subprocess runs before its launched is sent, and a thread     *)
(* after it.  When the send raises, the thread never runs, and nobody      *)
(* holds the subprocess.                                                   *)
Spawn(s) ==
  /\ At(s, "spawn") /\ Goes(s, "idle")
  /\ \E l \in Fresh : \E kind \in Kinds[l] :
       \/ /\ proc' = [proc EXCEPT ![l].kind = kind, ![l].at = "running", ![l].worker = "idle"]
          /\ handle' = [handle EXCEPT ![l].owner = s, ![l].held = kind # "thread"]
          /\ UNCHANGED faults
       \/ /\ Fault
          /\ proc' = [proc EXCEPT ![l].kind = kind,
                        ![l].at = IF kind = "thread" THEN "gone" ELSE "running",
                        ![l].worker = IF kind = "thread" THEN "dead" ELSE "idle"]
          /\ UNCHANGED handle
  /\ UNCHANGED log

(* Bound: no launch id is left. *)
NothingToSpawn(s) ==
  /\ At(s, "spawn") /\ Fresh = {}
  /\ Goes(s, "idle")
  /\ UNCHANGED <<log, proc, handle, faults>>

(* A supervisor dies and is started again: its handles are gone, its       *)
(* threads die with it, and its children run on.                           *)
SupervisorDies(s) ==
  /\ Fault
  /\ LET own == {l \in Launches : handle[l].owner = s}
     IN  /\ handle' = [l \in Launches |->
              IF l \in own THEN [handle[l] EXCEPT !.owner = NoId, !.held = FALSE,
                                   !.lock = "free", !.orphan = 0]
              ELSE handle[l]]
         /\ proc' = [l \in Launches |->
              IF l \in own /\ proc[l].kind = "thread" /\ proc[l].at = "running"
              THEN [proc[l] EXCEPT !.at = "gone", !.worker = "dead"] ELSE proc[l]]
  /\ sup' = [sup EXCEPT ![s] = Idle]
  /\ UNCHANGED log

-----------------------------------------------------------------------------

Init ==
  /\ log = <<Rec("subscribe", Lease, 0, "lease", NoHandleOf)>>
  /\ proc = [l \in Launches |-> NoProc]
  /\ handle = [l \in Launches |-> NoHandle]
  /\ sup = [s \in Supervisors |-> Idle]
  /\ faults = MaxFaults

HandleStep(l) ==
  \/ PollEnded(l) \/ ReapBegins(l) \/ SendTerminated(l) \/ ReportDeath(l)
  \/ FindOrphan(l) \/ KillOrphan(l) \/ DropHandle(l)

DeciderStep(s) ==
  \/ Relaunch(s, FALSE) \/ EnsureServed(s, FALSE) \/ ReportLost(s) \/ Spawn(s)
  \/ NothingToSpawn(s)

WorkerStep(l) == Claim(l) \/ BindLease(l) \/ Exit(l) \/ Release(l)

Environment ==
  \/ \E l \in Launches : \/ \E status \in Statuses[l] : ProcessEnds(l, status)
                         \/ GrandchildEnds(l) \/ SessionLost(l)
                         \/ Collected(l) \/ ReapRaises(l)
  \/ MistakenReport
  \/ \E s \in Supervisors : SupervisorDies(s) \/ Relaunch(s, TRUE) \/ EnsureServed(s, TRUE)

Next ==
  \/ \E l \in Launches : HandleStep(l) \/ WorkerStep(l)
  \/ \E s \in Supervisors : DeciderStep(s)
  \/ Environment

(* A standing loop: every supervisor that is up goes on reaping and        *)
(* deciding, and the system collects the children nobody waits for.        *)
Fairness ==
  /\ \A l \in Launches : WF_vars(HandleStep(l)) /\ WF_vars(Collected(l))
  /\ \A s \in Supervisors : WF_vars(DeciderStep(s))

Spec == Init /\ [][Next]_vars /\ Fairness

-----------------------------------------------------------------------------
(* The properties. *)

(* _reap: a child's end is on the log once its reap is done, and once only *)
(* but for a send that raised after it landed, whatever writes raised and  *)
(* whatever threads polled and waited.                                     *)
EndRecordedOnce ==
  \A l \in Launches :
    /\ handle[l].ends <= 1
    /\ handle[l].step = "DONE" /\ proc[l].kind # "thread" => handle[l].ends = 1

(* _own_claim, report_if_dead, _observed, _kill: no reap and no probe      *)
(* reports a worker that can still write, whosever child it is and         *)
(* whatever pid was reused; once a child's reap is done, the way it failed *)
(* is reported of its claim, unless the launcher killed it; and a          *)
(* launcher's own kill is never the claim's cause of death.                *)
ReportsAreTrue ==
  \A l \in Launches :
    LET c == Newest(ClaimsOf(l))
        said == {log[i].body : i \in Endings(log, c, W)}
        outcome == Outcome(proc[l].status)
    IN  ClaimsOf(l) # {} =>
          /\ proc[l].worker = "live" /\ proc[l].session => said \subseteq {"mistaken"}
          /\ proc[l].kind = "local" =>
               /\ proc[l].killed => "killed" \notin said
               /\ /\ handle[l].step = "DONE" /\ ~HasExit(log, c, W)
                  /\ outcome # "lost"
                  /\ ~(handle[l].killSent /\ proc[l].status = "SIGKILL")
                  => outcome \in said

(* reap(), _orphaned: the launcher kills a child only on a read that found *)
(* the newest claim of its launch, made by the child itself and no         *)
(* grandchild of it, reported and without an exit; and that claim has no   *)
(* exit at the kill either: no child is killed that was finishing after    *)
(* its own exit.  The kill does not read again: a claim that the child     *)
(* made after the read is killed with it.                                  *)
KillsOnlyOrphans ==
  [][\A l \in Launches :
       proc'[l].killed /\ ~proc[l].killed =>
         LET read == handle[l].orphan
             then == {c \in ClaimsOf(l) : c <= read}
         IN  /\ then # {}
             /\ LET c == Newest(then)
                IN  /\ log[c].handle = <<"child", l>>
                    /\ Reported(log, c, read) /\ ~HasExit(log, c, W)]_vars

(* report_if_dead: a claim whose process has died is not held for ever,    *)
(* although its launcher may have died too, and its reap's writes raised.  *)
DeadHeld ==
  \E c \in HeldClaims :
    LET l == log[c].rid IN ~WorkerAlive(l) /\ proc[l].kind # "thread"

DeadClaimsEnd == DeadHeld ~> ~DeadHeld

(* reap(): a live child whose claim a report ended does not run on beside  *)
(* its successor, while its launcher lives.                                *)
Abandoned(l) ==
  /\ handle[l].held /\ proc[l].at = "running" /\ proc[l].kind = "local"
  /\ ClaimsOf(l) # {}
  /\ LET c == Newest(ClaimsOf(l)) IN Reported(log, c, W) /\ ~HasExit(log, c, W)

OrphansKilled == \A l \in Launches : Abandoned(l) ~> ~Abandoned(l)

(* relaunch_if_needed, ensure_served: a run that is demanded and that no   *)
(* claim holds is launched, while a launch id is left.  That two deciders  *)
(* may both launch it is left to the claim, which one of them loses.       *)
Unserved == Demand /\ \A c \in Claims(log, W) : Ended(c)

DemandWakes == Unserved ~> (~Unserved \/ Fresh = {})
=============================================================================
