------------------------- MODULE Launchers_proofs -------------------------
(***************************************************************************)
(* Proofs about module Launchers, for every set of supervisors, launches,  *)
(* kinds and statuses, and every bound: what a reap writes, what it kills, *)
(* and what is said of the workers' deaths.                                *)
(***************************************************************************)
EXTENDS Launchers, TLAPS

-----------------------------------------------------------------------------
(* The types. *)

AllKinds == {"local", "wrapped", "thread"}

AllStatuses == {"exit0", "exit1", "SIGTERM", "SIGKILL"}

HandleName == {"none", "child", "grandchild", "supervisor"} \X (Launches \cup {NoId})

LogRecord ==
  [topic   : {"subscribe", "started", "bound", "stopped", "died"},
   rid     : RequestIds \cup {NoId},
   claim   : Nat,
   body    : {"lease", "", "preempted", "lost", "errored", "killed", "mistaken"},
   handle  : HandleName,
   honored : {{}}]

ProcState ==
  [kind : AllKinds, at : {"none", "running", "ended", "gone"}, status : AllStatuses,
   killed : BOOLEAN, worker : {"none", "idle", "live", "dead"}, claim : Nat,
   session : BOOLEAN]

HandleState ==
  [owner : Supervisors \cup {NoId}, held : BOOLEAN, step : {"PENDING", "ENDED", "DONE"},
   killSent : BOOLEAN, lock : {"free", "terminate", "report"}, orphan : Nat,
   ends : Nat, unacked : Nat]

SupState ==
  [at : {"idle", "spawn", "report"}, claim : Nat, force : BOOLEAN, leased : BOOLEAN]

LaunchTypes ==
  /\ proc \in [Launches -> ProcState]
  /\ handle \in [Launches -> HandleState]

TypeInv ==
  /\ log \in Seq(LogRecord)
  /\ LaunchTypes
  /\ sup \in [Supervisors -> SupState]

-----------------------------------------------------------------------------
(* One launch's process and its handle.  A reap takes the lock only of a   *)
(* child that is gone, and has recorded its end when it reports its death; *)
(* a worker does not outlive the process that it is.                       *)

Sound(P, H) ==
  /\ H.step = "PENDING" => H.ends = 0
  /\ H.step = "ENDED" => H.ends = 1
  /\ H.step = "DONE" => H.ends <= 1 /\ (P.kind # "thread" => H.ends = 1)
  /\ H.lock = "terminate" => H.step = "PENDING"
  /\ H.lock = "report" => H.step = "ENDED"
  /\ H.lock # "free" \/ H.step # "PENDING" => P.at = "gone"
  /\ P.at = "none" => ~H.held /\ H.orphan = 0 /\ P.worker = "none"
  /\ P.worker = "none" => P.at = "none"
  /\ P.kind = "thread" => ~H.held /\ H.orphan = 0 /\ P.at # "ended"
  /\ P.kind = "thread" /\ P.at = "running" => H.owner # NoId
  /\ P.kind # "wrapped" /\ P.at \in {"ended", "gone"} => P.worker = "dead"
  /\ P.killed => P.status = "SIGKILL" /\ H.killSent /\ P.at \in {"ended", "gone"}

LaunchesSound == \A l \in Launches : Sound(proc[l], handle[l])

(* From P and H to Q and J, in one step: what is over stays so. *)
Moves(P, H, Q, J) ==
  /\ P.at # "none" => Q.kind = P.kind /\ Q.at # "none"
  /\ P.at = "gone" => Q.at = "gone" /\ Q.status = P.status /\ J.killSent = H.killSent
  /\ P.worker = "dead" => Q.worker = "dead"
  /\ P.worker = "live" /\ Q.worker = "live" => Q.claim = P.claim
  /\ Q.session => P.session
  /\ Q.killed => P.killed \/ (P.at = "running" /\ H.orphan # 0)

(* ... and no worker claims, no reap of a child ends and no orphan is found. *)
Still(P, H, Q, J) ==
  /\ Moves(P, H, Q, J)
  /\ Q.worker = "live" => P.worker = "live"
  /\ J.step = "DONE" => H.step = "DONE" \/ P.kind = "thread"
  /\ J.orphan # 0 => J.orphan = H.orphan

LaunchesStill ==
  \A l \in Launches : Still(proc[l], handle[l], proc'[l], handle'[l])

LEMMA StillReflexive ==
  ASSUME NEW P, NEW H
  PROVE  Still(P, H, P, H)
BY DEF Still, Moves

LEMMA OneLaunch ==
  ASSUME LaunchTypes, LaunchesSound, NEW l \in Launches,
         NEW Q \in ProcState, NEW J \in HandleState,
         proc' = [proc EXCEPT ![l] = Q], handle' = [handle EXCEPT ![l] = J],
         Sound(Q, J)
  PROVE  /\ LaunchTypes' /\ LaunchesSound'
         /\ proc'[l] = Q /\ handle'[l] = J
         /\ \A k \in Launches : k # l =>
              /\ proc'[k] = proc[k] /\ handle'[k] = handle[k]
              /\ Still(proc[k], handle[k], proc'[k], handle'[k])
<1>1. \A k \in Launches : k # l => proc'[k] = proc[k] /\ handle'[k] = handle[k]
  BY DEF LaunchTypes
<1>2. proc'[l] = Q /\ handle'[l] = J /\ LaunchTypes'
  BY DEF LaunchTypes
<1> QED
  BY <1>1, <1>2, StillReflexive DEF LaunchesSound

LEMMA LaunchOf ==
  ASSUME LaunchTypes, LaunchesSound, NEW l \in Launches
  PROVE  /\ proc[l] \in ProcState /\ handle[l] \in HandleState
         /\ Sound(proc[l], handle[l])
BY DEF LaunchTypes, LaunchesSound

Kept == LaunchTypes' /\ LaunchesSound' /\ LaunchesStill

LEMMA OneKept ==
  ASSUME LaunchTypes, LaunchesSound, NEW l \in Launches,
         NEW Q \in ProcState, NEW J \in HandleState,
         proc' = [proc EXCEPT ![l] = Q], handle' = [handle EXCEPT ![l] = J],
         Sound(Q, J), Still(proc[l], handle[l], Q, J)
  PROVE  Kept
<1>1. /\ LaunchTypes' /\ LaunchesSound'
      /\ proc'[l] = Q /\ handle'[l] = J
      /\ \A k \in Launches : k # l =>
           /\ proc'[k] = proc[k] /\ handle'[k] = handle[k]
           /\ Still(proc[k], handle[k], proc'[k], handle'[k])
  BY OneLaunch, Zenon
<1>2. ASSUME NEW k \in Launches
      PROVE  Still(proc[k], handle[k], proc'[k], handle'[k])
  BY <1>1, k = l \/ k # l, Zenon
<1> QED
  BY <1>1, <1>2, Zenon DEF Kept, LaunchesStill

(* A step that changes the process only, or the handle only. *)
LEMMA ProcKept ==
  ASSUME LaunchTypes, LaunchesSound, NEW l \in Launches, NEW Q \in ProcState,
         proc' = [proc EXCEPT ![l] = Q], UNCHANGED handle,
         Sound(Q, handle[l]), Still(proc[l], handle[l], Q, handle[l])
  PROVE  Kept
<1>1. handle' = [handle EXCEPT ![l] = handle[l]] /\ handle[l] \in HandleState
  BY DEF LaunchTypes
<1> QED
  BY <1>1, OneKept

LEMMA HandleKept ==
  ASSUME LaunchTypes, LaunchesSound, NEW l \in Launches, NEW J \in HandleState,
         handle' = [handle EXCEPT ![l] = J], UNCHANGED proc,
         Sound(proc[l], J), Still(proc[l], handle[l], proc[l], J)
  PROVE  Kept
<1>1. proc' = [proc EXCEPT ![l] = proc[l]] /\ proc[l] \in ProcState
  BY DEF LaunchTypes
<1> QED
  BY <1>1, OneKept

LEMMA NoneKept ==
  ASSUME LaunchTypes, LaunchesSound, UNCHANGED <<proc, handle>>
  PROVE  Kept
BY StillReflexive DEF Kept, LaunchTypes, LaunchesSound, LaunchesStill

-----------------------------------------------------------------------------
(* The workers' and the processes' steps. *)

LEMMA WorkerKept ==
  ASSUME LaunchTypes, LaunchesSound, NEW l \in Launches,
         BindLease(l) \/ Exit(l) \/ Release(l)
  PROVE  Kept
<1> DEFINE P == proc[l]
           Q == [P EXCEPT !.worker = "idle", !.claim = 0]
<1>1. P \in ProcState /\ Sound(P, handle[l])
  BY LaunchOf
<1>2. CASE BindLease(l)
  BY <1>2, NoneKept DEF BindLease
<1>3. CASE Exit(l) \/ Release(l)
  <2>1. P.worker = "live" /\ proc' = [proc EXCEPT ![l] = Q] /\ UNCHANGED handle
    BY <1>3 DEF Exit, Release, LaunchTypes
  <2>2. /\ Q \in ProcState /\ Sound(Q, handle[l])
        /\ Still(P, handle[l], Q, handle[l])
    BY <1>1, <2>1 DEF ProcState, Sound, Still, Moves
  <2> HIDE DEF Q
  <2> QED
    BY <2>1, <2>2, ProcKept
<1> QED
  BY <1>2, <1>3

LEMMA EndKept ==
  ASSUME LaunchTypes, LaunchesSound, NEW l \in Launches, NEW status \in AllStatuses,
         ProcessEnds(l, status)
  PROVE  Kept
<1> DEFINE P == proc[l]
           H == handle[l]
           worker == IF P.kind = "wrapped" THEN P.worker ELSE "dead"
           Q == [P EXCEPT !.at = IF P.kind = "thread" THEN "gone" ELSE "ended",
                          !.status = status, !.worker = worker]
           J == IF P.kind = "thread" THEN [H EXCEPT !.lock = "terminate"] ELSE H
<1>1. P \in ProcState /\ H \in HandleState /\ Sound(P, H)
  BY LaunchOf
<1>2. P.at = "running" /\ proc' = [proc EXCEPT ![l] = Q]
  BY DEF ProcessEnds, LaunchTypes
<1>3. handle' = [handle EXCEPT ![l] = J]
  BY DEF ProcessEnds, LaunchTypes
<1>4. Q \in ProcState /\ J \in HandleState
  <2>1. worker \in {"none", "idle", "live", "dead"}
    BY <1>1 DEF ProcState
  <2>2. Q \in ProcState
    BY <1>1, <2>1 DEF ProcState
  <2>3. J \in HandleState
    BY <1>1 DEF HandleState
  <2> QED
    BY <2>2, <2>3
<1>5. Sound(Q, J) /\ Still(P, H, Q, J)
  BY <1>1, <1>2 DEF ProcState, HandleState, Sound, Still, Moves
<1> HIDE DEF Q, J
<1> QED
  BY <1>2, <1>3, <1>4, <1>5, OneKept

LEMMA GrandchildKept ==
  ASSUME LaunchTypes, LaunchesSound, NEW l \in Launches,
         GrandchildEnds(l) \/ SessionLost(l)
  PROVE  Kept
<1> DEFINE P == proc[l]
           H == handle[l]
           D == [P EXCEPT !.worker = "dead"]
           L == [P EXCEPT !.session = FALSE]
<1>1. P \in ProcState /\ H \in HandleState /\ Sound(P, H)
  BY LaunchOf
<1>2. CASE GrandchildEnds(l)
  <2>1. /\ P.kind = "wrapped" /\ P.worker \in {"idle", "live"}
        /\ proc' = [proc EXCEPT ![l] = D] /\ UNCHANGED handle
    BY <1>2 DEF GrandchildEnds, LaunchTypes, WorkerAlive
  <2>2. D \in ProcState /\ Sound(D, H) /\ Still(P, H, D, H)
    BY <1>1, <2>1 DEF ProcState, HandleState, Sound, Still, Moves
  <2> HIDE DEF D
  <2> QED
    BY <2>1, <2>2, ProcKept
<1>3. CASE SessionLost(l)
  <2>1. proc' = [proc EXCEPT ![l] = L] /\ UNCHANGED handle
    BY <1>3 DEF SessionLost, LaunchTypes
  <2>2. /\ L \in ProcState /\ ~L.session
        /\ \A f \in {"kind", "at", "status", "killed", "worker", "claim"} : L[f] = P[f]
    <3> HIDE DEF P
    <3> QED
      BY <1>1 DEF ProcState
  <2> HIDE DEF L
  <2>3. Sound(L, H)
    BY <1>1, <2>2 DEF Sound
  <2>4. Still(P, H, L, H)
    BY <2>2 DEF Still, Moves
  <2> QED
    BY <2>1, <2>2, <2>3, <2>4, ProcKept
<1> QED
  BY <1>2, <1>3

LEMMA CollectedKept ==
  ASSUME LaunchTypes, LaunchesSound, NEW l \in Launches,
         PollEnded(l) \/ Collected(l)
  PROVE  Kept
<1> DEFINE P == proc[l]
           H == handle[l]
           Q == [P EXCEPT !.at = "gone"]
<1>1. P \in ProcState /\ H \in HandleState /\ Sound(P, H)
  BY LaunchOf
<1>2. P.at = "ended" /\ proc' = [proc EXCEPT ![l] = Q] /\ UNCHANGED handle
  BY DEF PollEnded, Collected, LaunchTypes
<1>3. Q \in ProcState /\ Sound(Q, H) /\ Still(P, H, Q, H)
  BY <1>1, <1>2 DEF ProcState, HandleState, Sound, Still, Moves
<1> HIDE DEF Q
<1> QED
  BY <1>2, <1>3, ProcKept

-----------------------------------------------------------------------------
(* The handles' steps. *)

LEMMA ReapKept ==
  ASSUME LaunchTypes, LaunchesSound, NEW l \in Launches,
         ReapBegins(l) \/ SendTerminated(l) \/ DropHandle(l)
  PROVE  Kept
<1> DEFINE P == proc[l]
           H == handle[l]
           B == [H EXCEPT !.lock = IF H.step = "PENDING" THEN "terminate" ELSE "report"]
           ends == H.ends + 1
           T == [H EXCEPT !.step = "ENDED", !.lock = "report", !.ends = ends]
           D == [H EXCEPT !.held = FALSE, !.orphan = 0]
<1>1. P \in ProcState /\ H \in HandleState /\ Sound(P, H)
  BY LaunchOf
<1>2. CASE ReapBegins(l)
  <2>1. /\ P.at = "gone" /\ H.lock = "free" /\ H.step # "DONE"
        /\ handle' = [handle EXCEPT ![l] = B] /\ UNCHANGED proc
    BY <1>2 DEF ReapBegins, LaunchTypes
  <2>2. B \in HandleState /\ Sound(P, B) /\ Still(P, H, P, B)
    BY <1>1, <2>1 DEF ProcState, HandleState, Sound, Still, Moves
  <2> HIDE DEF B
  <2> QED
    BY <2>1, <2>2, HandleKept
<1>3. CASE SendTerminated(l)
  <2>1. /\ H.lock = "terminate"
        /\ handle' = [handle EXCEPT ![l] = T] /\ UNCHANGED proc
    BY <1>3 DEF SendTerminated, LaunchTypes
  <2>2. H.ends \in Nat /\ H.ends = 0
    BY <1>1, <2>1 DEF HandleState, Sound
  <2>3. T \in HandleState /\ T.ends = 1
    <3>1. ends \in Nat /\ ends = 1
      BY <2>2
    <3> HIDE DEF ends
    <3> QED
      BY <1>1, <3>1 DEF HandleState
  <2>4. Sound(P, T) /\ Still(P, H, P, T)
    BY <1>1, <2>1, <2>3 DEF ProcState, HandleState, Sound, Still, Moves
  <2> HIDE DEF T
  <2> QED
    BY <2>1, <2>3, <2>4, HandleKept
<1>4. CASE DropHandle(l)
  <2>1. handle' = [handle EXCEPT ![l] = D] /\ UNCHANGED proc
    BY <1>4 DEF DropHandle, LaunchTypes
  <2>2. /\ D \in HandleState /\ ~D.held /\ D.orphan = 0
        /\ \A f \in {"owner", "step", "killSent", "lock", "ends", "unacked"} : D[f] = H[f]
    <3> HIDE DEF H
    <3> QED
      BY <1>1 DEF HandleState
  <2> HIDE DEF D
  <2>3. Sound(P, D)
    BY <1>1, <2>2 DEF Sound
  <2>4. Still(P, H, P, D)
    BY <2>2 DEF Still, Moves
  <2> QED
    BY <2>1, <2>2, <2>3, <2>4, HandleKept
<1> QED
  BY <1>2, <1>3, <1>4

LEMMA RaiseKept ==
  ASSUME LaunchTypes, LaunchesSound, NEW l \in Launches, ReapRaises(l)
  PROVE  Kept
<1> DEFINE P == proc[l]
           H == handle[l]
<1>1. P \in ProcState /\ H \in HandleState /\ Sound(P, H)
  BY LaunchOf
<1>2. PICK landed \in {0, 1} :
        handle' = [handle EXCEPT
            ![l].lock = "free",
            ![l].unacked = IF handle[l].lock = "terminate" THEN @ + landed ELSE @,
            ![l].step = IF proc[l].kind = "thread" THEN "DONE" ELSE @]
  BY DEF ReapRaises
<1> DEFINE unacked == IF H.lock = "terminate" THEN H.unacked + landed ELSE H.unacked
           J == [H EXCEPT !.lock = "free", !.unacked = unacked,
                          !.step = IF P.kind = "thread" THEN "DONE" ELSE H.step]
<1>3. H.lock # "free" /\ handle' = [handle EXCEPT ![l] = J] /\ UNCHANGED proc
  BY <1>2 DEF ReapRaises, LaunchTypes
<1>4. H.unacked \in Nat
  BY <1>1 DEF HandleState
<1>5. unacked \in Nat
  BY <1>4
<1> HIDE DEF unacked
<1>6. J \in HandleState
  BY <1>1, <1>5 DEF HandleState
<1>7. Sound(P, J) /\ Still(P, H, P, J)
  BY <1>1, <1>3 DEF ProcState, HandleState, Sound, Still, Moves
<1> HIDE DEF J
<1> QED
  BY <1>3, <1>6, <1>7, HandleKept

LEMMA KillKept ==
  ASSUME LaunchTypes, LaunchesSound, NEW l \in Launches, KillOrphan(l)
  PROVE  Kept
<1> DEFINE P == proc[l]
           H == handle[l]
           Q == IF P.at = "running"
                THEN [P EXCEPT !.at = "ended", !.status = "SIGKILL", !.killed = TRUE,
                               !.worker = IF P.kind = "wrapped" THEN P.worker ELSE "dead"]
                ELSE [P EXCEPT !.at = "gone"]
           J == [H EXCEPT !.orphan = 0, !.killSent = H.killSent \/ P.at # "gone"]
<1>1. P \in ProcState /\ H \in HandleState /\ Sound(P, H)
  BY LaunchOf
<1>2. H.orphan # 0 /\ H.lock = "free"
  BY DEF KillOrphan
<1>3. proc' = [proc EXCEPT ![l] = Q]
  BY DEF KillOrphan, LaunchTypes
<1>4. handle' = [handle EXCEPT ![l] = J]
  BY DEF KillOrphan, LaunchTypes
<1>5. Q \in ProcState
  BY <1>1 DEF ProcState, AllStatuses
<1>6. J \in HandleState
  BY <1>1 DEF HandleState
<1>7. Sound(Q, J)
  BY <1>1, <1>2 DEF ProcState, HandleState, Sound
<1>8. Still(P, H, Q, J)
  BY <1>1, <1>2 DEF ProcState, HandleState, Sound, Still, Moves
<1> HIDE DEF Q, J
<1> QED
  BY <1>3, <1>4, <1>5, <1>6, <1>7, <1>8, OneKept

-----------------------------------------------------------------------------
(* The supervisors' steps. *)

LEMMA SpawnKept ==
  ASSUME LaunchTypes, LaunchesSound, NEW s \in Supervisors, Spawn(s)
  PROVE  Kept
<1>0. PICK l \in Fresh : \E kind \in Kinds[l] :
        \/ /\ proc' = [proc EXCEPT ![l].kind = kind, ![l].at = "running", ![l].worker = "idle"]
           /\ handle' = [handle EXCEPT ![l].owner = s, ![l].held = kind # "thread"]
        \/ /\ proc' = [proc EXCEPT ![l].kind = kind,
                         ![l].at = IF kind = "thread" THEN "gone" ELSE "running",
                         ![l].worker = IF kind = "thread" THEN "dead" ELSE "idle"]
           /\ UNCHANGED handle
  BY DEF Spawn
<1>1. PICK kind \in Kinds[l] :
        \/ /\ proc' = [proc EXCEPT ![l].kind = kind, ![l].at = "running", ![l].worker = "idle"]
           /\ handle' = [handle EXCEPT ![l].owner = s, ![l].held = kind # "thread"]
        \/ /\ proc' = [proc EXCEPT ![l].kind = kind,
                         ![l].at = IF kind = "thread" THEN "gone" ELSE "running",
                         ![l].worker = IF kind = "thread" THEN "dead" ELSE "idle"]
           /\ UNCHANGED handle
  BY <1>0
<1> DEFINE P == proc[l]
           H == handle[l]
           R == [P EXCEPT !.kind = kind, !.at = "running", !.worker = "idle"]
           N == [P EXCEPT !.kind = kind,
                          !.at = IF kind = "thread" THEN "gone" ELSE "running",
                          !.worker = IF kind = "thread" THEN "dead" ELSE "idle"]
           J == [H EXCEPT !.owner = s, !.held = kind # "thread"]
<1>2. l \in Launches /\ P.at = "none"
  BY DEF Fresh
<1>3. kind \in AllKinds
  BY <1>2, LaunchAssumption DEF Launches, AllKinds
<1>4. P \in ProcState /\ H \in HandleState /\ Sound(P, H)
  BY <1>2, LaunchOf
<1>5. R \in ProcState /\ N \in ProcState
  BY <1>3, <1>4 DEF ProcState
<1>6. J \in HandleState
  BY <1>4 DEF HandleState
<1>7. Sound(R, J) /\ Still(P, H, R, J)
  BY <1>2, <1>4, LaunchAssumption DEF ProcState, HandleState, Sound, Still, Moves
<1>8. kind = "thread" => Sound(N, H) /\ Still(P, H, N, H)
  BY <1>2, <1>4 DEF ProcState, HandleState, Sound, Still, Moves
<1>9. kind # "thread" => Sound(N, H) /\ Still(P, H, N, H)
  BY <1>2, <1>4 DEF ProcState, HandleState, Sound, Still, Moves
<1>10. CASE UNCHANGED handle
  <2>1. CASE proc' = [proc EXCEPT ![l] = N]
    <3> HIDE DEF N
    <3> QED
      BY <1>2, <1>5, <1>8, <1>9, <1>10, <2>1, ProcKept
  <2>2. CASE proc' # [proc EXCEPT ![l] = N]
    <3>1. handle' = [handle EXCEPT ![l] = J] /\ proc' = [proc EXCEPT ![l] = R]
      BY <1>1, <1>2, <2>2 DEF LaunchTypes
    <3> HIDE DEF R, J
    <3> QED
      BY <3>1, <1>2, <1>5, <1>6, <1>7, OneKept
  <2> QED
    BY <2>1, <2>2
<1>11. CASE ~(UNCHANGED handle)
  <2>1. handle' = [handle EXCEPT ![l] = J] /\ proc' = [proc EXCEPT ![l] = R]
    BY <1>1, <1>2, <1>11 DEF LaunchTypes
  <2> HIDE DEF R, J
  <2> QED
    BY <2>1, <1>2, <1>5, <1>6, <1>7, OneKept
<1> HIDE DEF P, H, R, N, J
<1> QED
  BY <1>10, <1>11

LEMMA DeathKept ==
  ASSUME LaunchTypes, LaunchesSound, NEW s \in Supervisors, SupervisorDies(s)
  PROVE  Kept
<1>1. ASSUME NEW l \in Launches
      PROVE  /\ proc'[l] \in ProcState /\ handle'[l] \in HandleState
             /\ Sound(proc'[l], handle'[l])
             /\ Still(proc[l], handle[l], proc'[l], handle'[l])
  <2> DEFINE P == proc[l]
             H == handle[l]
             J == [H EXCEPT !.owner = NoId, !.held = FALSE, !.lock = "free",
                            !.orphan = 0]
             Q == [P EXCEPT !.at = "gone", !.worker = "dead"]
  <2>1. P \in ProcState /\ H \in HandleState /\ Sound(P, H)
    BY LaunchOf
  <2>2. Q \in ProcState /\ J \in HandleState
    BY <2>1 DEF ProcState, HandleState
  <2>3. CASE H.owner # s
    <3>1. proc'[l] = P /\ handle'[l] = H
      BY <2>3 DEF SupervisorDies
    <3> QED
      BY <3>1, <2>1, StillReflexive
  <2>4. CASE H.owner = s /\ P.kind = "thread" /\ P.at = "running"
    <3>1. proc'[l] = Q /\ handle'[l] = J
      BY <2>4 DEF SupervisorDies
    <3>2. Sound(Q, J) /\ Still(P, H, Q, J)
      BY <2>1, <2>4 DEF ProcState, HandleState, Sound, Still, Moves
    <3> HIDE DEF Q, J
    <3> QED
      BY <3>1, <3>2, <2>2
  <2>5. CASE H.owner = s /\ ~(P.kind = "thread" /\ P.at = "running")
    <3>1. proc'[l] = P /\ handle'[l] = J
      BY <2>5 DEF SupervisorDies
    <3>2. Sound(P, J) /\ Still(P, H, P, J)
      BY <2>1, <2>5, SMTT(60) DEF ProcState, HandleState, Sound, Still, Moves
    <3> HIDE DEF Q, J
    <3> QED
      BY <3>1, <3>2, <2>1, <2>2
  <2> QED
    BY <2>3, <2>4, <2>5
<1>2. LaunchTypes'
  BY <1>1 DEF LaunchTypes, SupervisorDies
<1> QED
  BY <1>1, <1>2 DEF Kept, LaunchesSound, LaunchesStill

-----------------------------------------------------------------------------
(* The three steps that are not Still: a claim, the end of a reap, and an  *)
(* orphan that is found.                                                   *)

(* No worker claims. *)
Unclaimed ==
  \A l \in Launches :
    /\ Moves(proc[l], handle[l], proc'[l], handle'[l])
    /\ proc'[l].worker = "live" => proc[l].worker = "live"

LEMMA KeptUnclaimed ==
  ASSUME Kept
  PROVE  Unclaimed
BY DEF Kept, LaunchesStill, Still, Unclaimed

LEMMA ClaimChanges ==
  ASSUME LaunchTypes, LaunchesSound, NEW l \in Launches, Claim(l), W \in Nat
  PROVE  /\ LaunchTypes' /\ LaunchesSound'
         /\ proc'[l] = [proc[l] EXCEPT !.worker = "live", !.claim = W + 1]
         /\ handle'[l] = handle[l]
         /\ Moves(proc[l], handle[l], proc'[l], handle'[l])
         /\ proc[l].at # "none"
         /\ \A k \in Launches : k # l =>
              Still(proc[k], handle[k], proc'[k], handle'[k])
<1> DEFINE P == proc[l]
           H == handle[l]
           seq == W + 1
           Q == [P EXCEPT !.worker = "live", !.claim = seq]
<1>1. P \in ProcState /\ H \in HandleState /\ Sound(P, H)
  BY LaunchOf
<1>2. /\ P.worker = "idle" /\ proc' = [proc EXCEPT ![l] = Q]
      /\ handle' = [handle EXCEPT ![l] = H]
  BY DEF Claim, LaunchTypes
<1>3. seq \in Nat
  OBVIOUS
<1> HIDE DEF seq
<1>4. Q \in ProcState
  BY <1>1, <1>3 DEF ProcState
<1>5. Sound(Q, H) /\ Moves(P, H, Q, H) /\ P.at # "none"
  BY <1>1, <1>2 DEF ProcState, HandleState, Sound, Moves
<1> HIDE DEF Q
<1>6. /\ LaunchTypes' /\ LaunchesSound'
      /\ proc'[l] = Q /\ handle'[l] = H
      /\ \A k \in Launches : k # l =>
           /\ proc'[k] = proc[k] /\ handle'[k] = handle[k]
           /\ Still(proc[k], handle[k], proc'[k], handle'[k])
  BY <1>1, <1>2, <1>4, <1>5, OneLaunch
<1> QED
  BY <1>5, <1>6 DEF Q, seq

LEMMA ReportedChanges ==
  ASSUME LaunchTypes, LaunchesSound, NEW l \in Launches,
         ReportDeath(l) \/ FindOrphan(l), W \in Nat
  PROVE  /\ LaunchTypes' /\ LaunchesSound' /\ Unclaimed
         /\ UNCHANGED proc
         /\ handle'[l].killSent = handle[l].killSent
         /\ \A k \in Launches : k # l =>
              Still(proc[k], handle[k], proc'[k], handle'[k])
         /\ ReportDeath(l) => handle'[l].orphan = handle[l].orphan
         /\ FindOrphan(l) => handle'[l].step = handle[l].step /\ handle'[l].orphan = W
<1> DEFINE P == proc[l]
           H == handle[l]
           D == [H EXCEPT !.step = "DONE", !.lock = "free"]
           w == W
           O == [H EXCEPT !.orphan = w]
           J == IF ReportDeath(l) THEN D ELSE O
<1>1. P \in ProcState /\ H \in HandleState /\ Sound(P, H)
  BY LaunchOf
<1>0. w \in Nat
  OBVIOUS
<1>3. /\ handle' = [handle EXCEPT ![l] = J] /\ UNCHANGED proc
      /\ proc' = [proc EXCEPT ![l] = P]
  BY DEF ReportDeath, FindOrphan, LaunchTypes
<1> HIDE DEF w
<1>2. J \in HandleState
  BY <1>0, <1>1 DEF HandleState
<1>4. ReportDeath(l) => H.lock = "report"
  BY DEF ReportDeath
<1>5. ~ReportDeath(l) => P.at = "running" /\ P.kind # "thread"
  BY DEF FindOrphan
<1>6. Sound(P, D) \/ ~ReportDeath(l)
  BY <1>1, <1>4 DEF ProcState, HandleState, Sound
<1>7. Sound(P, O) \/ ReportDeath(l)
  BY <1>1, <1>5 DEF ProcState, HandleState, Sound
<1>8. /\ Sound(P, J) /\ J.killSent = H.killSent
      /\ ReportDeath(l) => J.orphan = H.orphan
      /\ ~ReportDeath(l) => J.step = H.step /\ J.orphan = w
  BY <1>1, <1>6, <1>7 DEF HandleState
<1>9. FindOrphan(l) => ~ReportDeath(l)
  BY DEF FindOrphan, ReportDeath
<1> HIDE DEF J, D, O
<1>10. /\ LaunchTypes' /\ LaunchesSound'
       /\ proc'[l] = P /\ handle'[l] = J
       /\ \A k \in Launches : k # l =>
            /\ proc'[k] = proc[k] /\ handle'[k] = handle[k]
            /\ Still(proc[k], handle[k], proc'[k], handle'[k])
  BY <1>1, <1>2, <1>3, <1>8, OneLaunch
<1>11. ASSUME NEW k \in Launches
       PROVE  Moves(proc[k], handle[k], proc'[k], handle'[k])
  <2>1. CASE k = l
    BY <2>1, <1>8, <1>10 DEF Moves
  <2>2. CASE k # l
    BY <2>2, <1>10 DEF Still
  <2> QED
    BY <2>1, <2>2
<1>12. Unclaimed
  BY <1>3, <1>11 DEF Unclaimed
<1> QED
  BY <1>3, <1>8, <1>9, <1>10, <1>12 DEF w

-----------------------------------------------------------------------------
(* What a record changes of what is said of the claims below it. *)

Said(c) == {log[i].body : i \in Endings(log, c, W)}

LEMMA Wrote ==
  ASSUME log \in Seq(LogRecord), NEW e \in LogRecord, Appended(e)
  PROVE  /\ log' \in Seq(LogRecord)
         /\ W \in Nat /\ W' = W + 1 /\ log'[W + 1] = e
         /\ \A i \in 1..W : log'[i] = log[i]
         /\ \A i \in 1..W : log[i] \in LogRecord
BY DEF Appended, W

LEMMA RidsWrote ==
  ASSUME log \in Seq(LogRecord), NEW e \in LogRecord, Appended(e), NEW l
  PROVE  /\ Claims(log, W)' = Claims(log, W) \cup
              (IF e.topic = "started" THEN {W + 1} ELSE {})
         /\ ClaimsOf(l)' = ClaimsOf(l) \cup
              (IF e.topic = "started" /\ e.rid = l THEN {W + 1} ELSE {})
<1>1. /\ W \in Nat /\ W' = W + 1 /\ log'[W + 1] = e
      /\ \A i \in 1..W : log'[i] = log[i]
  BY Wrote
<1>2. 1..(W + 1) = (1..W) \cup {W + 1} /\ (W + 1) \notin 1..W
  BY <1>1
<1>3. Claims(log, W)' = {i \in 1..(W + 1) : log'[i].topic = "started"}
  BY <1>1 DEF Claims
<1>4. Claims(log, W) = {i \in 1..W : log[i].topic = "started"}
  BY DEF Claims
<1>5. Claims(log, W)' = Claims(log, W) \cup
        (IF e.topic = "started" THEN {W + 1} ELSE {})
  BY <1>1, <1>2, <1>3, <1>4
<1>6. \A c \in Claims(log, W) : log'[c] = log[c]
  BY <1>1, <1>4
<1>7. ClaimsOf(l)' = {c \in Claims(log, W)' : log'[c].rid = l}
  BY DEF ClaimsOf
<1> QED
  BY <1>1, <1>5, <1>6, <1>7 DEF ClaimsOf

LEMMA EndingsWrote ==
  ASSUME log \in Seq(LogRecord), NEW e \in LogRecord, Appended(e), NEW c \in 1..W
  PROVE  Endings(log, c, W)' = Endings(log, c, W) \cup
           (IF e.topic \in {"stopped", "died"} /\ e.claim = c THEN {W + 1} ELSE {})
<1>1. /\ W \in Nat /\ W' = W + 1 /\ log'[W + 1] = e
      /\ \A i \in 1..W : log'[i] = log[i]
  BY Wrote
<1>2. /\ (c + 1)..(W + 1) = ((c + 1)..W) \cup {W + 1}
      /\ (W + 1) \notin 1..W /\ (c + 1)..W \subseteq 1..W
  BY <1>1
<1>3. Endings(log, c, W)' =
        {i \in (c + 1)..(W + 1) : log'[i].topic \in {"stopped", "died"} /\ log'[i].claim = c}
  BY <1>1 DEF Endings
<1> QED
  BY <1>1, <1>2, <1>3 DEF Endings

LEMMA SaidWrote ==
  ASSUME log \in Seq(LogRecord), NEW e \in LogRecord, Appended(e), NEW c \in 1..W
  PROVE  /\ Said(c)' = Said(c) \cup
              (IF e.topic \in {"stopped", "died"} /\ e.claim = c THEN {e.body} ELSE {})
         /\ HasExit(log, c, W)' <=>
              HasExit(log, c, W) \/ (e.topic = "stopped" /\ e.claim = c)
         /\ Reported(log, c, W) => Reported(log, c, W)'
         /\ Ended(c) => Ended(c)'
<1> DEFINE S == Endings(log, c, W)
           T == IF e.topic \in {"stopped", "died"} /\ e.claim = c THEN {W + 1} ELSE {}
           lg == log'
<1>1. /\ W \in Nat /\ lg[W + 1] = e /\ \A i \in 1..W : lg[i] = log[i]
      /\ Readable(e)
  BY Wrote DEF LogRecord, Readable
<1>2. Endings(log, c, W)' = S \cup T
  BY EndingsWrote
<1>3. S \subseteq 1..W
  BY <1>1 DEF Endings
<1>4. Said(c)' = {lg[i].body : i \in S \cup T}
  BY <1>2 DEF Said
<1>5. Said(c) = {log[i].body : i \in S}
  BY DEF Said
<1>6. HasExit(log, c, W)' <=> \E i \in S \cup T : lg[i].topic = "stopped" /\ Readable(lg[i])
  BY <1>2 DEF HasExit
<1>7. Reported(log, c, W)' <=> \E i \in S \cup T : lg[i].topic = "died"
  BY <1>2 DEF Reported
<1>8. Ended(c)' <=> S \cup T # {}
  BY <1>2 DEF Ended
<1> HIDE DEF lg
<1>9. \A i \in S : lg[i] = log[i]
  BY <1>1, <1>3
<1>10. Said(c)' = Said(c) \cup (IF T = {} THEN {} ELSE {e.body})
  BY <1>1, <1>4, <1>5, <1>9
<1>11. HasExit(log, c, W) <=> \E i \in S : lg[i].topic = "stopped" /\ Readable(lg[i])
  BY <1>9 DEF HasExit
<1>12. Reported(log, c, W) <=> \E i \in S : lg[i].topic = "died"
  BY <1>9 DEF Reported
<1>13. Ended(c) <=> S # {}
  BY DEF Ended
<1> QED
  BY <1>1, <1>6, <1>7, <1>8, <1>10, <1>11, <1>12, <1>13

-----------------------------------------------------------------------------
(* The inductive invariant.                                                *)

NewestOf(l, c) == c \in ClaimsOf(l) /\ \A d \in ClaimsOf(l) : d <= c

(* Every claim names a launch that was made, and the handle its claimant   *)
(* has; a launch that claimed has a newest claim, and a live worker claimed. *)
ClaimsInv ==
  /\ \A c \in Claims(log, W) : log[c].rid \in Launches
  /\ \A l \in Launches :
       /\ ClaimsOf(l) = {} \/ \E c \in Nat : NewestOf(l, c)
       /\ proc[l].worker = "live" => proc[l].claim \in ClaimsOf(l)
       /\ \A c \in ClaimsOf(l) : /\ log[c].handle = HandleOf(l)
                                 /\ proc[l].at # "none"

(* A decider that reports on its session's evidence has the evidence. *)
SupInv ==
  \A s \in Supervisors : sup[s].at = "report" =>
    /\ sup[s].claim \in Claims(log, W)
    /\ sup[s].force => SessionEnded(sup[s].claim)

(* What an orphan's handle was found by stays so. *)
FoundAt(l, c, r) ==
  /\ c \in ClaimsOf(l) /\ c <= r /\ r <= W
  /\ \A d \in ClaimsOf(l) : d <= r => d <= c
  /\ log[c].handle = <<"child", l>>
  /\ Reported(log, c, r) /\ ~HasExit(log, c, W)

OrphanInv ==
  \A l \in Launches : handle[l].orphan # 0 => \E c \in Nat : FoundAt(l, c, handle[l].orphan)

(* What may be said of the newest claim c of a launch whose process is P:  *)
(* nothing but a mistaken report while its worker can write, no cause of a *)
(* death before its reap, and not the launcher's own kill.                 *)
TrueOf(P, c, said) ==
  /\ P.worker = "live" => P.claim = c
  /\ P.worker = "live" /\ P.session => said \subseteq {"mistaken"}
  /\ P.kind = "local" /\ P.at # "gone" => "killed" \notin said /\ "errored" \notin said
  /\ P.kind = "local" /\ P.killed => "killed" \notin said

TrueInv ==
  \A l \in Launches : \A c \in Nat :
    NewestOf(l, c) => TrueOf(proc[l], c, Said(c))

(* A reap that is done has said of it what it had to say. *)
DoneOf(P, H, said, exited) ==
  /\ P.kind = "local" /\ H.step = "DONE" /\ ~exited
  /\ Outcome(P.status) # "lost" /\ ~(H.killSent /\ P.status = "SIGKILL")
  => Outcome(P.status) \in said

DoneInv ==
  \A l \in Launches : \A c \in Nat :
    NewestOf(l, c) => DoneOf(proc[l], handle[l], Said(c), HasExit(log, c, W))

Inv ==
  /\ TypeInv /\ LaunchesSound
  /\ ClaimsInv /\ SupInv /\ OrphanInv /\ TrueInv /\ DoneInv

-----------------------------------------------------------------------------
(* A step of the launches leaves it true while nothing is written. *)

LEMMA TrueMoves ==
  ASSUME NEW P, NEW H, NEW Q, NEW J, NEW c, NEW S,
         TrueOf(P, c, S), P.at # "none", Moves(P, H, Q, J),
         Q.worker = "live" => P.worker = "live"
  PROVE  TrueOf(Q, c, S)
BY DEF TrueOf, Moves

LEMMA DoneMoves ==
  ASSUME NEW P, NEW H, NEW Q, NEW J, NEW S, NEW x,
         DoneOf(P, H, S, x), P.at # "none", Sound(P, H), Still(P, H, Q, J)
  PROVE  DoneOf(Q, J, S, x)
<1>1. SUFFICES ASSUME Q.kind = "local", J.step = "DONE", ~x,
                      Outcome(Q.status) # "lost",
                      ~(J.killSent /\ Q.status = "SIGKILL")
               PROVE  Outcome(Q.status) \in S
  BY DEF DoneOf
<1>2. P.kind = "local" /\ H.step = "DONE"
  BY <1>1 DEF Still, Moves
<1>3. P.at = "gone"
  BY <1>2 DEF Sound
<1>4. Q.status = P.status /\ J.killSent = H.killSent
  BY <1>3 DEF Still, Moves
<1> QED
  BY <1>1, <1>2, <1>4 DEF DoneOf

(* What a record may say of the newest claim of a launch whose process is P. *)
Fits(P, b) ==
  /\ P.worker = "live" /\ P.session => b = "mistaken"
  /\ P.kind = "local" /\ P.at # "gone" => b # "killed" /\ b # "errored"
  /\ P.kind = "local" /\ P.killed => b # "killed"

LEMMA TrueSaid ==
  ASSUME NEW P, NEW c, NEW S, NEW b, TrueOf(P, c, S), Fits(P, b)
  PROVE  TrueOf(P, c, S \cup {b})
BY DEF TrueOf, Fits

-----------------------------------------------------------------------------
(* What every step but a claim does, and that it keeps the invariant.      *)

IsEnding(e) == e.topic \in {"stopped", "died"}

(* It writes nothing, or what may be said of some claim. *)
Entry(e) ==
  /\ e.topic # "started" /\ Appended(e)
  /\ IsEnding(e) =>
       /\ e.claim \in Claims(log, W)
       /\ Fits(proc'[log[e.claim].rid], e.body)
  /\ e.topic = "stopped" => ~Ended(e.claim)

Logged == UNCHANGED log \/ \E e \in LogRecord : Entry(e)

SupStep ==
  /\ sup' \in [Supervisors -> SupState]
  /\ \A s \in Supervisors :
       \/ sup'[s] = sup[s]
       \/ sup'[s].at # "report"
       \/ /\ sup'[s].claim \in Claims(log, W)
          /\ sup'[s].force => SessionEnded(sup'[s].claim)

OrphanStep(l) ==
  handle'[l].orphan # 0 =>
    \/ handle'[l].orphan = handle[l].orphan
    \/ \E c \in Nat : FoundAt(l, c, handle'[l].orphan)

DoneStep(l) ==
  \/ Still(proc[l], handle[l], proc'[l], handle'[l])
  \/ \A c \in Nat : NewestOf(l, c) =>
       DoneOf(proc[l], handle[l], Said(c), HasExit(log, c, W))'

Seated ==
  /\ LaunchTypes' /\ LaunchesSound'
  /\ Unclaimed /\ Logged /\ SupStep
  /\ \A l \in Launches : OrphanStep(l) /\ DoneStep(l)

LEMMA ClaimIn ==
  ASSUME NEW l, NEW c \in ClaimsOf(l)
  PROVE  c \in 1..W /\ c \in Claims(log, W) /\ log[c].rid = l
BY DEF ClaimsOf, Claims

LEMMA LoggedReads ==
  ASSUME log \in Seq(LogRecord), Logged
  PROVE  /\ log' \in Seq(LogRecord)
         /\ Claims(log, W)' = Claims(log, W)
         /\ \A l \in Launches : ClaimsOf(l)' = ClaimsOf(l)
         /\ \A c \in 1..W : log'[c] = log[c]
<1>1. CASE UNCHANGED log
  BY <1>1 DEF Claims, ClaimsOf, W
<1>2. CASE \E e \in LogRecord : Entry(e)
  <2>1. PICK e \in LogRecord : Entry(e)
    BY <1>2
  <2>2. e.topic # "started" /\ Appended(e)
    BY <2>1 DEF Entry
  <2>3. log' \in Seq(LogRecord) /\ \A c \in 1..W : log'[c] = log[c]
    BY <2>2, Wrote
  <2>4. ASSUME NEW l \in Launches
        PROVE  ClaimsOf(l)' = ClaimsOf(l)
    <3>1. ClaimsOf(l)' = ClaimsOf(l) \cup
            (IF e.topic = "started" /\ e.rid = l THEN {W + 1} ELSE {})
      BY <2>2, RidsWrote, Zenon
    <3> QED
      BY <2>2, <3>1
  <2>5. Claims(log, W)' = Claims(log, W)
    BY <2>2, RidsWrote
  <2> QED
    BY <2>3, <2>4, <2>5
<1> QED
  BY <1>1, <1>2 DEF Logged

LEMMA ClaimsKept ==
  ASSUME log \in Seq(LogRecord), ClaimsInv, Unclaimed, Logged
  PROVE  ClaimsInv'
<1>1. /\ Claims(log, W)' = Claims(log, W)
      /\ \A l \in Launches : ClaimsOf(l)' = ClaimsOf(l)
      /\ \A c \in 1..W : log'[c] = log[c]
  BY LoggedReads
<1>2. \A c \in Claims(log, W) : c \in 1..W /\ log'[c] = log[c] /\ log[c].rid \in Launches
  BY <1>1 DEF Claims, ClaimsInv
<1>3. \A c \in Claims(log, W)' : log'[c].rid \in Launches
  BY <1>1, <1>2
<1>4. ASSUME NEW l \in Launches
      PROVE  /\ ClaimsOf(l)' = {} \/ \E c \in Nat : NewestOf(l, c)'
             /\ proc'[l].worker = "live" => proc'[l].claim \in ClaimsOf(l)'
             /\ \A c \in ClaimsOf(l)' : /\ log'[c].handle = HandleOf(l)'
                                        /\ proc'[l].at # "none"
  <2>1. ClaimsOf(l) = {} \/ \E c \in Nat : NewestOf(l, c)
    BY DEF ClaimsInv
  <2>2. \A c : NewestOf(l, c)' <=> NewestOf(l, c)
    BY <1>1 DEF NewestOf
  <2>3. /\ Moves(proc[l], handle[l], proc'[l], handle'[l])
        /\ proc'[l].worker = "live" => proc[l].worker = "live"
    BY DEF Unclaimed
  <2>4. proc'[l].worker = "live" => proc'[l].claim = proc[l].claim
    BY <2>3 DEF Moves
  <2>5. proc'[l].worker = "live" => proc'[l].claim \in ClaimsOf(l)'
    BY <1>1, <2>3, <2>4 DEF ClaimsInv
  <2>6. proc[l].at # "none" => proc'[l].at # "none" /\ proc'[l].kind = proc[l].kind
    BY <2>3 DEF Moves
  <2>7. ASSUME NEW c \in ClaimsOf(l)'
        PROVE  log'[c].handle = HandleOf(l)' /\ proc'[l].at # "none"
    <3>1. c \in ClaimsOf(l) /\ c \in 1..W
      BY <1>1, ClaimIn
    <3>2. log'[c] = log[c] /\ log[c].handle = HandleOf(l) /\ proc[l].at # "none"
      BY <1>1, <3>1 DEF ClaimsInv
    <3> QED
      BY <2>6, <3>2 DEF HandleOf
  <2> QED
    BY <1>1, <2>1, <2>2, <2>5, <2>7
<1> QED
  BY <1>3, <1>4 DEF ClaimsInv

LEMMA SessionStays ==
  ASSUME LaunchTypes, LaunchesSound, ClaimsInv, NEW c \in Claims(log, W),
         log'[c] = log[c], SessionEnded(c),
         \A l \in Launches : Moves(proc[l], handle[l], proc'[l], handle'[l])
  PROVE  SessionEnded(c)'
<1> DEFINE l == log[c].rid
           P == proc[l]
           Q == proc'[l]
<1>1. l \in Launches /\ c \in ClaimsOf(l)
  BY DEF ClaimsInv, ClaimsOf
<1>2. P.at # "none" /\ P \in ProcState /\ Sound(P, handle[l])
  BY <1>1, LaunchOf DEF ClaimsInv
<1>3. P.worker = "dead" \/ P.worker \in {"idle", "live"}
  BY <1>2 DEF Sound, ProcState
<1>4. P.worker = "dead" \/ ~P.session
  BY <1>3 DEF SessionEnded, WorkerAlive
<1>5. Q.worker = "dead" \/ ~Q.session
  BY <1>1, <1>4 DEF Moves
<1> QED
  BY <1>5 DEF SessionEnded, WorkerAlive

LEMMA SupKept ==
  ASSUME LaunchTypes, LaunchesSound, ClaimsInv, SupInv, SupStep,
         Claims(log, W) \subseteq Claims(log, W)',
         \A c \in Claims(log, W) : log'[c] = log[c],
         \A l \in Launches : Moves(proc[l], handle[l], proc'[l], handle'[l])
  PROVE  SupInv'
<1> SUFFICES ASSUME NEW s \in Supervisors, sup'[s].at = "report"
             PROVE  /\ sup'[s].claim \in Claims(log, W)'
                    /\ sup'[s].force => SessionEnded(sup[s].claim)'
  BY DEF SupInv
<1>1. /\ sup'[s].claim \in Claims(log, W)
      /\ sup'[s].force => SessionEnded(sup'[s].claim)
  BY DEF SupInv, SupStep
<1>2. ASSUME NEW c \in Claims(log, W), SessionEnded(c)
      PROVE  SessionEnded(c)'
  BY <1>2, SessionStays
<1> QED
  BY <1>1, <1>2

(* What the step says of one claim. *)
LEMMA LoggedSays ==
  ASSUME log \in Seq(LogRecord), Logged, NEW l, NEW c \in ClaimsOf(l)
  PROVE  /\ \/ Said(c)' = Said(c)
            \/ \E b : Said(c)' = Said(c) \cup {b} /\ Fits(proc'[l], b)
         /\ HasExit(log, c, W) => HasExit(log, c, W)'
         /\ Ended(c) /\ HasExit(log, c, W)' => HasExit(log, c, W)
         /\ Reported(log, c, W) => Reported(log, c, W)'
<1>0. c \in 1..W /\ log[c].rid = l
  BY ClaimIn
<1>1. CASE UNCHANGED log
  BY <1>1 DEF Said, HasExit, Reported, Ended, Endings, W
<1>2. ASSUME NEW e \in LogRecord, Entry(e)
      PROVE  /\ \/ Said(c)' = Said(c)
                \/ \E b : Said(c)' = Said(c) \cup {b} /\ Fits(proc'[l], b)
             /\ HasExit(log, c, W) => HasExit(log, c, W)'
             /\ Ended(c) /\ HasExit(log, c, W)' => HasExit(log, c, W)
             /\ Reported(log, c, W) => Reported(log, c, W)'
  <2>1. /\ Appended(e)
        /\ IsEnding(e) => Fits(proc'[log[e.claim].rid], e.body)
        /\ e.topic = "stopped" => ~Ended(e.claim)
    BY <1>2 DEF Entry
  <2>2. /\ Said(c)' = Said(c) \cup
              (IF e.topic \in {"stopped", "died"} /\ e.claim = c THEN {e.body} ELSE {})
        /\ HasExit(log, c, W)' <=>
              HasExit(log, c, W) \/ (e.topic = "stopped" /\ e.claim = c)
        /\ Reported(log, c, W) => Reported(log, c, W)'
    BY <1>0, <2>1, SaidWrote
  <2>3. CASE IsEnding(e) /\ e.claim = c
    BY <1>0, <2>1, <2>2, <2>3 DEF IsEnding
  <2>4. CASE ~(IsEnding(e) /\ e.claim = c)
    BY <2>1, <2>2, <2>4 DEF IsEnding
  <2> QED
    BY <2>3, <2>4
<1> QED
  BY <1>1, <1>2 DEF Logged

LEMMA ReportedEnded ==
  ASSUME NEW c, Reported(log, c, W)
  PROVE  Ended(c)
BY DEF Reported, Ended

LEMMA TrueKept ==
  ASSUME log \in Seq(LogRecord), ClaimsInv, TrueInv, Unclaimed, Logged
  PROVE  TrueInv'
<1> SUFFICES ASSUME NEW l \in Launches, NEW c \in Nat, NewestOf(l, c)'
             PROVE  TrueOf(proc'[l], c, Said(c)')
  BY DEF TrueInv
<1>1. NewestOf(l, c) /\ c \in ClaimsOf(l)
  BY LoggedReads DEF NewestOf
<1>2. TrueOf(proc[l], c, Said(c)) /\ proc[l].at # "none"
  BY <1>1 DEF TrueInv, ClaimsInv
<1>3. TrueOf(proc'[l], c, Said(c))
  BY <1>2, TrueMoves DEF Unclaimed
<1>4. \/ Said(c)' = Said(c)
      \/ \E b : Said(c)' = Said(c) \cup {b} /\ Fits(proc'[l], b)
  BY <1>1, LoggedSays
<1> QED
  BY <1>3, <1>4, TrueSaid

LEMMA DoneSaid ==
  ASSUME NEW P, NEW H, NEW S, NEW x, NEW T, NEW y,
         DoneOf(P, H, S, x), S \subseteq T, x => y
  PROVE  DoneOf(P, H, T, y)
BY DEF DoneOf

LEMMA DoneKept ==
  ASSUME log \in Seq(LogRecord), LaunchesSound, ClaimsInv, DoneInv, Logged,
         \A l \in Launches : DoneStep(l)
  PROVE  DoneInv'
<1> SUFFICES ASSUME NEW l \in Launches, NEW c \in Nat, NewestOf(l, c)'
             PROVE  DoneOf(proc[l], handle[l], Said(c), HasExit(log, c, W))'
  BY DEF DoneInv
<1>1. NewestOf(l, c) /\ c \in ClaimsOf(l)
  BY LoggedReads DEF NewestOf
<1>2. CASE Still(proc[l], handle[l], proc'[l], handle'[l])
  <2>1. /\ DoneOf(proc[l], handle[l], Said(c), HasExit(log, c, W))
        /\ proc[l].at # "none" /\ Sound(proc[l], handle[l])
    BY <1>1 DEF DoneInv, ClaimsInv, LaunchesSound
  <2>2. DoneOf(proc'[l], handle'[l], Said(c), HasExit(log, c, W))
    BY <1>2, <2>1, DoneMoves
  <2>3. /\ Said(c) \subseteq Said(c)'
        /\ HasExit(log, c, W) => HasExit(log, c, W)'
    BY <1>1, LoggedSays
  <2>4. DoneOf(proc'[l], handle'[l], Said(c)', HasExit(log, c, W)')
    BY <2>2, <2>3, DoneSaid
  <2> QED
    BY <2>4
<1> QED
  BY <1>1, <1>2 DEF DoneStep

(* Reported up to r, whatever is written above. *)
LEMMA ReportStays ==
  ASSUME NEW c \in Nat, NEW r \in Nat, r <= W, W \in Nat, W <= W',
         \A i \in 1..W : log'[i] = log[i], Reported(log, c, r)
  PROVE  Reported(log', c, r)
<1>1. \A i \in (c + 1)..r : log'[i] = log[i]
  OBVIOUS
<1>2. Endings(log', c, r) = Endings(log, c, r) /\ \A i \in Endings(log, c, r) : log'[i] = log[i]
  BY <1>1 DEF Endings
<1> QED
  BY <1>2 DEF Reported

LEMMA ReportedSince ==
  ASSUME NEW c \in Nat, NEW r \in Nat, r <= W, W \in Nat, Reported(log, c, r)
  PROVE  Ended(c)
BY DEF Reported, Ended, Endings

LEMMA FoundStays ==
  ASSUME log \in Seq(LogRecord), NEW l, NEW c \in Nat, NEW r \in Nat, FoundAt(l, c, r),
         W' \in Nat, W <= W', \A i \in 1..W : log'[i] = log[i],
         ClaimsOf(l) \subseteq ClaimsOf(l)', \A d \in ClaimsOf(l)' : d \in ClaimsOf(l) \/ d = W + 1,
         HasExit(log, c, W)' => HasExit(log, c, W)
  PROVE  FoundAt(l, c, r)'
<1>1. W \in Nat /\ c \in 1..W
  BY ClaimIn DEF FoundAt, W
<1>2. Reported(log', c, r)
  BY <1>1, ReportStays DEF FoundAt
<1>3. ASSUME NEW d \in ClaimsOf(l)', d <= r PROVE d <= c
  <2>1. r <= W
    BY DEF FoundAt
  <2>2. d \in ClaimsOf(l)
    BY <1>1, <1>3, <2>1
  <2> QED
    BY <1>3, <2>2 DEF FoundAt
<1> QED
  BY <1>1, <1>2, <1>3 DEF FoundAt

LEMMA LogLonger ==
  ASSUME log \in Seq(LogRecord), Logged
  PROVE  W \in Nat /\ W' \in Nat /\ W <= W'
BY Wrote DEF Logged, Entry, W

LEMMA OrphanKept ==
  ASSUME log \in Seq(LogRecord), OrphanInv, Logged, LaunchTypes',
         \A l \in Launches : OrphanStep(l)
  PROVE  OrphanInv'
<1> SUFFICES ASSUME NEW l \in Launches, NEW r, r = handle'[l].orphan, r # 0
             PROVE  \E c \in Nat : FoundAt(l, c, r)'
  BY DEF OrphanInv
<1>1. r \in Nat
  BY DEF LaunchTypes, HandleState
<1>2. PICK c \in Nat : FoundAt(l, c, r)
  BY DEF OrphanInv, OrphanStep
<1>3. Ended(c) /\ c \in ClaimsOf(l)
  BY <1>1, <1>2, LogLonger, ReportedSince DEF FoundAt
<1>4. HasExit(log, c, W)' => HasExit(log, c, W)
  BY <1>3, LoggedSays
<1>5. ClaimsOf(l)' = ClaimsOf(l) /\ \A i \in 1..W : log'[i] = log[i]
  BY LoggedReads
<1>6. FoundAt(l, c, r)'
  BY <1>1, <1>2, <1>4, <1>5, LogLonger, FoundStays
<1> QED
  BY <1>6

LEMMA SeatedKeeps ==
  ASSUME Inv, Seated
  PROVE  Inv'
<1> USE DEF Inv, Seated, TypeInv
<1>1. log' \in Seq(LogRecord) /\ Claims(log, W)' = Claims(log, W)
  BY LoggedReads
<1>2. \A c \in Claims(log, W) : log'[c] = log[c]
  BY LoggedReads DEF Claims
<1>3. \A l \in Launches : Moves(proc[l], handle[l], proc'[l], handle'[l])
  BY DEF Unclaimed
<1>4. sup' \in [Supervisors -> SupState]
  BY DEF SupStep
<1>5. ClaimsInv'
  BY ClaimsKept
<1>6. SupInv'
  BY <1>1, <1>2, <1>3, SupKept
<1>7. TrueInv' /\ DoneInv' /\ OrphanInv'
  BY TrueKept, DoneKept, OrphanKept
<1> QED
  BY <1>1, <1>4, <1>5, <1>6, <1>7

-----------------------------------------------------------------------------
(* A claim, of which nothing is said yet. *)

LEMMA HandleTyped ==
  ASSUME LaunchTypes, NEW l \in Launches
  PROVE  HandleOf(l) \in HandleName
BY DEF LaunchTypes, HandleOf, HandleName, ProcState, AllKinds

LEMMA ClaimReads ==
  ASSUME TypeInv, NEW l \in Launches, Claim(l), NEW seq, seq = W + 1
  PROVE  /\ W \in Nat /\ W' = seq /\ log' \in Seq(LogRecord)
         /\ log'[seq].rid = l /\ log'[seq].handle = HandleOf(l)
         /\ Claims(log, W)' = Claims(log, W) \cup {seq}
         /\ ClaimsOf(l)' = ClaimsOf(l) \cup {seq}
         /\ \A k \in Launches : k # l => ClaimsOf(k)' = ClaimsOf(k)
         /\ \A c \in 1..W :
              /\ log'[c] = log[c]
              /\ Said(c)' = Said(c)
              /\ HasExit(log, c, W)' <=> HasExit(log, c, W)
              /\ Reported(log, c, W) => Reported(log, c, W)'
         /\ Said(seq)' = {} /\ ~HasExit(log, seq, W)'
<1> DEFINE e == Rec("started", l, 0, "", HandleOf(l))
<1>1. HandleOf(l) \in HandleName /\ log \in Seq(LogRecord)
  BY HandleTyped DEF TypeInv
<1>2. e \in LogRecord /\ e.topic = "started" /\ e.rid = l /\ e.handle = HandleOf(l)
  BY <1>1 DEF Rec, LogRecord, Launches
<1>3. Appended(e)
  BY DEF Claim
<1> HIDE DEF e
<1>4. /\ log' \in Seq(LogRecord) /\ W \in Nat /\ W' = seq /\ log'[seq] = e
      /\ \A i \in 1..W : log'[i] = log[i]
  BY <1>1, <1>2, <1>3, Wrote
<1>5. ASSUME NEW k \in Launches
      PROVE  /\ Claims(log, W)' = Claims(log, W) \cup {seq}
             /\ ClaimsOf(k)' = ClaimsOf(k) \cup (IF k = l THEN {seq} ELSE {})
  <2>1. /\ Claims(log, W)' = Claims(log, W) \cup
              (IF e.topic = "started" THEN {seq} ELSE {})
        /\ ClaimsOf(k)' = ClaimsOf(k) \cup
              (IF e.topic = "started" /\ e.rid = k THEN {seq} ELSE {})
    BY <1>1, <1>2, <1>3, RidsWrote, Zenon
  <2> QED
    BY <1>2, <2>1
<1>6. ASSUME NEW c \in 1..W
      PROVE  /\ Said(c)' = Said(c)
             /\ HasExit(log, c, W)' <=> HasExit(log, c, W)
             /\ Reported(log, c, W) => Reported(log, c, W)'
  <2>1. e.topic \notin {"stopped", "died"}
    BY <1>2
  <2> QED
    BY <1>1, <1>2, <1>3, <2>1, SaidWrote
<1>7. Endings(log, seq, W)' = {}
  <2>1. (seq + 1)..seq = {}
    BY <1>4
  <2> QED
    BY <1>4, <2>1 DEF Endings
<1>8. Said(seq)' = {} /\ ~HasExit(log, seq, W)'
  BY <1>7 DEF Said, HasExit
<1> QED
  BY <1>2, <1>4, <1>5, <1>6, <1>8

LEMMA ClaimKeeps ==
  ASSUME Inv, NEW l \in Launches, Claim(l), NEW seq, seq = W + 1
  PROVE  Inv'
<1>1. /\ LaunchTypes' /\ LaunchesSound'
      /\ proc'[l] = [proc[l] EXCEPT !.worker = "live", !.claim = seq]
      /\ handle'[l] = handle[l]
      /\ Moves(proc[l], handle[l], proc'[l], handle'[l])
      /\ proc[l].at # "none"
      /\ \A k \in Launches : k # l =>
           Still(proc[k], handle[k], proc'[k], handle'[k])
  <2>1. W \in Nat
    BY DEF Inv, TypeInv, W
  <2> QED
    BY <2>1, ClaimChanges DEF Inv, TypeInv
<1>2. /\ W \in Nat /\ log' \in Seq(LogRecord)
      /\ log'[seq].rid = l /\ log'[seq].handle = HandleOf(l)
      /\ Claims(log, W)' = Claims(log, W) \cup {seq}
      /\ ClaimsOf(l)' = ClaimsOf(l) \cup {seq}
      /\ \A k \in Launches : k # l => ClaimsOf(k)' = ClaimsOf(k)
      /\ \A c \in 1..W :
           /\ log'[c] = log[c]
           /\ Said(c)' = Said(c)
           /\ HasExit(log, c, W)' <=> HasExit(log, c, W)
           /\ Reported(log, c, W) => Reported(log, c, W)'
      /\ Said(seq)' = {} /\ ~HasExit(log, seq, W)'
  BY ClaimReads DEF Inv
<1>3. seq \in Nat /\ \A c \in 1..W : c < seq
  BY <1>2
<1>4. proc[l] \in ProcState /\ Sound(proc[l], handle[l]) /\ proc[l].worker = "idle"
  BY LaunchOf DEF Inv, TypeInv, Claim
<1>5. /\ proc'[l].worker = "live" /\ proc'[l].claim = seq
      /\ proc'[l].kind = proc[l].kind /\ proc'[l].at = proc[l].at
      /\ proc'[l].killed = proc[l].killed
  BY <1>1, <1>4 DEF ProcState
<1>6. \A k \in Launches : Moves(proc[k], handle[k], proc'[k], handle'[k])
  BY <1>1 DEF Still
<1>7. \A k \in Launches : k # l =>
        /\ \A c : NewestOf(k, c)' <=> NewestOf(k, c)
        /\ \A c \in ClaimsOf(k) : c \in 1..W
  BY <1>2, ClaimIn DEF NewestOf
<1>8. NewestOf(l, seq)' /\ \A c : NewestOf(l, c)' => c = seq
  <2>1. \A c \in ClaimsOf(l) : c \in 1..W
    BY ClaimIn
  <2>2. \A c \in ClaimsOf(l) : c \in Nat /\ c < seq
    BY <1>2, <1>3, <2>1
  <2> DEFINE S == ClaimsOf(l)'
  <2>3. seq \in S /\ \A c \in S : c = seq \/ (c \in Nat /\ c < seq)
    BY <1>2, <2>2
  <2>4. \A c : NewestOf(l, c)' <=> c \in S /\ \A d \in S : d <= c
    BY DEF NewestOf
  <2> HIDE DEF S
  <2>5. ASSUME NEW c \in S
        PROVE  c <= seq
    <3>1. CASE c = seq
      BY <1>3, <3>1
    <3>2. CASE c \in Nat /\ c < seq
      BY <1>3, <3>2
    <3> QED
      BY <2>3, <3>1, <3>2
  <2>6. NewestOf(l, seq)'
    BY <2>3, <2>4, <2>5
  <2>7. ASSUME NEW c, c \in S, \A d \in S : d <= c
        PROVE  c = seq
    BY <1>3, <2>3, <2>7
  <2> QED
    BY <2>4, <2>6, <2>7
<1>9. \A c \in Claims(log, W) : c \in 1..W
  BY DEF Claims
<1>10. ClaimsInv'
  <2>1. \A c \in Claims(log, W)' : log'[c].rid \in Launches
    BY <1>2, <1>9 DEF Inv, ClaimsInv
  <2>2. ASSUME NEW k \in Launches
        PROVE  /\ ClaimsOf(k)' = {} \/ \E c \in Nat : NewestOf(k, c)'
               /\ proc'[k].worker = "live" => proc'[k].claim \in ClaimsOf(k)'
               /\ \A c \in ClaimsOf(k)' : /\ log'[c].handle = HandleOf(k)'
                                          /\ proc'[k].at # "none"
    <3>1. CASE k = l
      <4>1. HandleOf(l)' = HandleOf(l)
        BY <1>5 DEF HandleOf
      <4>2. \A c \in ClaimsOf(l) : log'[c].handle = HandleOf(l)
        BY <1>2, ClaimIn DEF Inv, ClaimsInv
      <4> QED
        BY <1>1, <1>2, <1>3, <1>5, <1>8, <3>1, <4>1, <4>2
    <3>2. CASE k # l
      <4>1. /\ ClaimsOf(k) = {} \/ \E c \in Nat : NewestOf(k, c)
            /\ proc[k].worker = "live" => proc[k].claim \in ClaimsOf(k)
            /\ \A c \in ClaimsOf(k) : /\ log[c].handle = HandleOf(k)
                                      /\ proc[k].at # "none"
        BY DEF Inv, ClaimsInv
      <4>2. /\ proc'[k].worker = "live" =>
                 proc[k].worker = "live" /\ proc'[k].claim = proc[k].claim
            /\ proc[k].at # "none" => proc'[k].at # "none" /\ proc'[k].kind = proc[k].kind
        BY <1>1, <3>2 DEF Still, Moves
      <4>3. proc[k].at # "none" => HandleOf(k)' = HandleOf(k)
        BY <4>2 DEF HandleOf
      <4>4. ClaimsOf(k)' = ClaimsOf(k) /\ \A c \in ClaimsOf(k) : log'[c] = log[c]
        BY <1>2, <1>7, <3>2
      <4> QED
        BY <1>7, <3>2, <4>1, <4>2, <4>3, <4>4
    <3> QED
      BY <3>1, <3>2
  <2> QED
    BY <2>1, <2>2 DEF ClaimsInv
<1>11. SupInv'
  <2>1. SupStep
    BY DEF SupStep, Claim, Inv, TypeInv
  <2> QED
    BY <1>2, <1>6, <1>9, <2>1, SupKept DEF Inv, TypeInv
<1>12. OrphanInv'
  <2> SUFFICES ASSUME NEW k \in Launches, NEW r, r = handle'[k].orphan, r # 0
               PROVE  \E c \in Nat : FoundAt(k, c, r)'
    BY DEF OrphanInv
  <2>1. r = handle[k].orphan /\ r \in Nat
    <3>1. r = handle[k].orphan
      BY <1>1 DEF Still
    <3> QED
      BY <3>1 DEF Inv, TypeInv, LaunchTypes, HandleState
  <2>2. PICK c \in Nat : FoundAt(k, c, r)
    BY <2>1 DEF Inv, OrphanInv
  <2>3. c \in 1..W /\ c \in ClaimsOf(k)
    BY <2>2, ClaimIn DEF FoundAt
  <2>4. ClaimsOf(k)' = ClaimsOf(k) \cup {seq} \/ ClaimsOf(k)' = ClaimsOf(k)
    BY <1>2
  <2>5. W' \in Nat /\ W <= W' /\ \A i \in 1..W : log'[i] = log[i]
    <3>1. W' \in Nat /\ seq \in Claims(log, W)'
      BY <1>2 DEF W
    <3>2. seq \in 1..W'
      BY <3>1 DEF Claims
    <3> QED
      BY <1>2, <3>1, <3>2
  <2>6. (HasExit(log, c, W)' => HasExit(log, c, W)) /\ log \in Seq(LogRecord)
    BY <1>2, <2>3 DEF Inv, TypeInv
  <2>7. FoundAt(k, c, r)'
    BY <2>1, <2>2, <2>4, <2>5, <2>6, FoundStays
  <2> QED
    BY <2>7
<1>13. TrueInv'
  <2> SUFFICES ASSUME NEW k \in Launches, NEW c \in Nat, NewestOf(k, c)'
               PROVE  TrueOf(proc'[k], c, Said(c)')
    BY DEF TrueInv
  <2>1. CASE k = l
    <3>1. c = seq /\ Said(c)' = {}
      BY <1>2, <1>8, <2>1
    <3> QED
      BY <1>5, <2>1, <3>1 DEF TrueOf
  <2>2. CASE k # l
    <3>1. NewestOf(k, c) /\ c \in ClaimsOf(k) /\ c \in 1..W
      BY <1>7, <2>2 DEF NewestOf
    <3>2. TrueOf(proc[k], c, Said(c)) /\ proc[k].at # "none" /\ Said(c)' = Said(c)
      BY <1>2, <3>1 DEF Inv, TrueInv, ClaimsInv
    <3> QED
      BY <1>1, <2>2, <3>2, TrueMoves DEF Still
  <2> QED
    BY <2>1, <2>2
<1>14. DoneInv'
  <2> SUFFICES ASSUME NEW k \in Launches, NEW c \in Nat, NewestOf(k, c)'
               PROVE  DoneOf(proc'[k], handle'[k], Said(c)', HasExit(log, c, W)')
    BY DEF DoneInv
  <2>1. CASE k = l
    <3>1. proc[l].kind = "local" => handle[l].step # "DONE"
      BY <1>4 DEF Sound
    <3> QED
      BY <1>1, <1>5, <2>1, <3>1 DEF DoneOf
  <2>2. CASE k # l
    <3>1. NewestOf(k, c) /\ c \in ClaimsOf(k) /\ c \in 1..W
      BY <1>7, <2>2 DEF NewestOf
    <3>2. /\ DoneOf(proc[k], handle[k], Said(c), HasExit(log, c, W))
          /\ proc[k].at # "none" /\ Sound(proc[k], handle[k])
      BY <3>1 DEF Inv, DoneInv, ClaimsInv, LaunchesSound
    <3>3. Said(c)' = Said(c) /\ (HasExit(log, c, W) => HasExit(log, c, W)')
      BY <1>2, <3>1
    <3>4. DoneOf(proc'[k], handle'[k], Said(c), HasExit(log, c, W))
      BY <1>1, <2>2, <3>2, DoneMoves
    <3> QED
      BY <3>3, <3>4, DoneSaid
  <2> QED
    BY <2>1, <2>2
<1>15. sup' \in [Supervisors -> SupState]
  BY DEF Claim, Inv, TypeInv
<1> QED
  BY <1>1, <1>2, <1>10, <1>11, <1>12, <1>13, <1>14, <1>15 DEF Inv, TypeInv

-----------------------------------------------------------------------------
(* What each of the other steps writes, and what it may say by it. *)

LEMMA KeptSeated ==
  ASSUME Kept, Logged, SupStep
  PROVE  Seated
BY KeptUnclaimed DEF Kept, LaunchesStill, Seated, OrphanStep, DoneStep, Still

LEMMA SameSup ==
  ASSUME TypeInv, UNCHANGED sup
  PROVE  SupStep
BY DEF TypeInv, SupStep

LEMMA NewestIs ==
  ASSUME log \in Seq(LogRecord), NEW l, NEW c \in Nat, NewestOf(l, c)
  PROVE  Newest(ClaimsOf(l)) = c
<1>1. ClaimsOf(l) \subseteq Nat
  BY ClaimIn DEF W
<1>2. c \in ClaimsOf(l) /\ \A j \in ClaimsOf(l) : j <= c
  BY DEF NewestOf
<1> DEFINE S == ClaimsOf(l)
<1>3. \E i \in S : \A j \in S : j <= i
  BY <1>2
<1>4. Newest(S) \in S /\ \A j \in S : j <= Newest(S)
  BY <1>3 DEF Newest
<1> HIDE DEF S
<1>5. Newest(S) <= c /\ c <= Newest(S) /\ Newest(S) \in Nat
  BY <1>1, <1>2, <1>4 DEF S
<1> QED
  BY <1>5 DEF S

(* The claim a reap reads is the launch's own, and its newest. *)
LEMMA OwnIsNewest ==
  ASSUME log \in Seq(LogRecord), ClaimsInv, NEW l \in Launches, NEW c \in OwnClaim(l)
  PROVE  /\ c \in Nat /\ NewestOf(l, c)
         /\ proc[l].kind = "thread" \/ log[c].handle = <<"child", l>>
<1>1. ClaimsOf(l) # {} /\ c = Newest(ClaimsOf(l))
  BY DEF OwnClaim
<1>2. PICK d \in Nat : NewestOf(l, d)
  BY <1>1 DEF ClaimsInv
<1>3. c = d
  BY <1>1, <1>2, NewestIs
<1>4. proc[l].kind = "thread" \/ log[c].handle = <<"child", l>>
  BY <1>1 DEF OwnClaim
<1> QED
  BY <1>2, <1>3, <1>4

LEMMA DiedTyped ==
  ASSUME NEW c \in Nat, NEW b \in {"lost", "errored", "killed", "mistaken"}
  PROVE  /\ Died(c, b) \in LogRecord
         /\ Died(c, b).topic = "died" /\ Died(c, b).claim = c /\ Died(c, b).body = b
BY DEF Died, Rec, LogRecord, NoHandleOf, HandleName

LEMMA DiedLogged ==
  ASSUME TypeInv, ClaimsInv, NEW c \in Claims(log, W),
         NEW b \in {"lost", "errored", "killed", "mistaken"},
         Appended(Died(c, b)), Fits(proc'[log[c].rid], b)
  PROVE  Logged
<1>1. c \in Nat
  BY DEF Claims
<1>2. /\ Died(c, b) \in LogRecord
      /\ Died(c, b).topic = "died" /\ Died(c, b).claim = c /\ Died(c, b).body = b
  BY <1>1, DiedTyped
<1>3. Entry(Died(c, b))
  BY <1>2 DEF Entry
<1> QED
  BY <1>2, <1>3 DEF Logged

LEMMA OutcomeTyped ==
  ASSUME NEW status \in AllStatuses
  PROVE  Outcome(status) \in {"lost", "errored", "killed"}
BY DEF Outcome, AllStatuses, Signals

(* A reap reports its own claim, whose worker ended with the child. *)
LEMMA ReportLogged ==
  ASSUME Inv, NEW l \in Launches, handle[l].lock = "report", Report(l),
         UNCHANGED proc
  PROVE  Logged
<1> DEFINE P == proc[l]
           outcome == Outcome(P.status)
<1>1. P \in ProcState /\ Sound(P, handle[l]) /\ P.at = "gone"
  BY LaunchOf DEF Inv, TypeInv, Sound
<1>2. outcome \in {"lost", "errored", "killed"}
  BY <1>1, OutcomeTyped DEF ProcState
<1>3. CASE Blamed(l) = {}
  BY <1>3 DEF Report, Logged
<1>4. CASE Blamed(l) # {}
  <2>1. PICK c \in Blamed(l) : Appended(Died(c, outcome))
    BY <1>4 DEF Report
  <2>2. ~ByLauncher(l) /\ c \in OwnClaim(l)
    BY <2>1 DEF Blamed
  <2>3. c \in Nat /\ NewestOf(l, c)
        /\ (P.kind = "thread" \/ log[c].handle = <<"child", l>>)
    BY <2>2, OwnIsNewest DEF Inv, TypeInv
  <2>4. c \in ClaimsOf(l) /\ c \in Claims(log, W) /\ log[c].rid = l
    BY <2>3, ClaimIn DEF NewestOf
  <2>5. log[c].handle = HandleOf(l)
    BY <2>4 DEF Inv, ClaimsInv
  <2>6. P.kind # "wrapped"
    BY <2>3, <2>5 DEF HandleOf
  <2>7. P.worker = "dead"
    BY <1>1, <2>6 DEF Sound
  <2>8. ~P.killed
    BY <1>1, <2>2 DEF Sound, ByLauncher
  <2>9. Fits(P, outcome)
    BY <1>1, <2>7, <2>8 DEF Fits
  <2> QED
    BY <1>2, <2>1, <2>4, <2>9, DiedLogged DEF Inv
<1> QED
  BY <1>3, <1>4

LEMMA WorkerSeated ==
  ASSUME Inv, NEW l \in Launches, BindLease(l) \/ Exit(l) \/ Release(l)
  PROVE  Seated
<1> DEFINE P == proc[l]
           c == P.claim
           B == Rec("bound", Lease, c, "", NoHandleOf)
           X == Rec("stopped", NoId, c, "preempted", NoHandleOf)
<1>1. Kept
  BY WorkerKept DEF Inv, TypeInv
<1>2. SupStep
  BY SameSup DEF Inv, BindLease, Exit, Release
<1>3. P \in ProcState /\ P.worker = "live"
  BY LaunchOf DEF Inv, TypeInv, BindLease, Exit, Release
<1>4. c \in ClaimsOf(l) /\ c \in Claims(log, W) /\ log[c].rid = l /\ c \in Nat
  BY <1>3, ClaimIn DEF Inv, ClaimsInv, ProcState
<1>5. ASSUME Release(l) PROVE Logged
  BY <1>5 DEF Release, Logged
<1>6. ASSUME BindLease(l) PROVE Logged
  <2>1. B \in LogRecord /\ B.topic = "bound"
    BY <1>4, LaunchAssumption DEF Rec, LogRecord, NoHandleOf, HandleName
  <2>2. Appended(B)
    BY <1>6 DEF BindLease
  <2> HIDE DEF B
  <2>3. Entry(B)
    BY <2>1, <2>2 DEF Entry, IsEnding
  <2> QED
    BY <2>1, <2>3 DEF Logged
<1>7. ASSUME Exit(l) PROVE Logged
  <2>1. /\ X \in LogRecord /\ X.topic = "stopped" /\ X.claim = c
        /\ X.body = "preempted"
    BY <1>4 DEF Rec, LogRecord, NoHandleOf, HandleName
  <2>2. Appended(X) /\ ~Ended(c) /\ proc'[l].worker = "idle"
    BY <1>3, <1>7 DEF Exit, Inv, TypeInv, LaunchTypes, ProcState
  <2>3. Fits(proc'[l], "preempted")
    BY <2>2 DEF Fits
  <2> HIDE DEF X
  <2>4. Entry(X)
    BY <1>4, <2>1, <2>2, <2>3 DEF Entry
  <2> QED
    BY <2>1, <2>4 DEF Logged
<1>8. Logged
  BY <1>5, <1>6, <1>7
<1> QED
  BY <1>1, <1>2, <1>8, KeptSeated

LEMMA ProcessSeated ==
  ASSUME Inv, NEW l \in Launches,
         \/ \E status \in Statuses[l] : ProcessEnds(l, status)
         \/ GrandchildEnds(l) \/ SessionLost(l) \/ PollEnded(l) \/ Collected(l)
  PROVE  Seated
<1>1. SupStep /\ Logged
  BY SameSup DEF Inv, Logged, ProcessEnds, GrandchildEnds, SessionLost, PollEnded, Collected
<1>2. LaunchTypes /\ LaunchesSound
  BY DEF Inv, TypeInv
<1>3. ASSUME NEW status \in Statuses[l], ProcessEnds(l, status)
      PROVE  Kept
  <2>1. status \in AllStatuses
    BY LaunchAssumption DEF Launches, AllStatuses
  <2> QED
    BY <1>2, <1>3, <2>1, EndKept
<1>4. Kept
  BY <1>2, <1>3, GrandchildKept, CollectedKept
<1> QED
  BY <1>1, <1>4, KeptSeated

LEMMA HandleSeated ==
  ASSUME Inv, NEW l \in Launches,
         \/ ReapBegins(l) \/ SendTerminated(l) \/ DropHandle(l)
         \/ KillOrphan(l) \/ ReapRaises(l)
  PROVE  Seated
<1>1. SupStep
  BY SameSup DEF Inv, ReapBegins, SendTerminated, DropHandle, KillOrphan, ReapRaises
<1>2. Kept
  BY ReapKept, KillKept, RaiseKept DEF Inv, TypeInv
<1>3. Logged
  <2>1. CASE UNCHANGED log
    BY <2>1 DEF Logged
  <2>2. CASE ReapRaises(l) /\ ~(UNCHANGED log)
    <3>1. handle[l].lock = "report" /\ Report(l) /\ UNCHANGED proc
      BY <2>2 DEF ReapRaises
    <3> QED
      BY <3>1, ReportLogged
  <2> QED
    BY <2>1, <2>2 DEF ReapBegins, SendTerminated, DropHandle, KillOrphan
<1> QED
  BY <1>1, <1>2, <1>3, KeptSeated

(* The claim of a child that failed has been reported, unless it had its   *)
(* exit or the launcher killed it. *)
LEMMA ReportDone ==
  ASSUME Inv, NEW l \in Launches, ReportDeath(l), Logged,
         NEW c \in Nat, NewestOf(l, c)
  PROVE  DoneOf(proc[l], handle[l], Said(c), HasExit(log, c, W))'
<1> DEFINE P == proc[l]
           outcome == Outcome(P.status)
<1>0. W \in Nat
  BY DEF Inv, TypeInv, W
<1>1. UNCHANGED proc /\ handle'[l].killSent = handle[l].killSent /\ Report(l)
  BY <1>0, ReportedChanges DEF Inv, TypeInv, ReportDeath
<1>2. SUFFICES ASSUME P.kind = "local", ~HasExit(log, c, W)', outcome # "lost",
                      ~(handle[l].killSent /\ P.status = "SIGKILL")
               PROVE  outcome \in Said(c)'
  BY <1>1 DEF DoneOf
<1>3. c \in ClaimsOf(l) /\ c \in 1..W /\ Newest(ClaimsOf(l)) = c
  BY NewestIs, ClaimIn DEF NewestOf, Inv, TypeInv
<1>4. log[c].handle = <<"child", l>>
  BY <1>2, <1>3 DEF Inv, ClaimsInv, HandleOf
<1>5. OwnClaim(l) = {c}
  BY <1>3, <1>4 DEF OwnClaim
<1>6. ~HasExit(log, c, W)
  BY <1>2, <1>3, LoggedSays DEF Inv, TypeInv
<1>7. Blamed(l) = {c}
  BY <1>2, <1>5, <1>6 DEF Blamed, ByLauncher, Reports
<1>8. Appended(Died(c, outcome))
  BY <1>1, <1>7 DEF Report
<1>9. outcome \in {"lost", "errored", "killed"}
  BY OutcomeTyped, LaunchOf DEF Inv, TypeInv, ProcState
<1>10. /\ Died(c, outcome) \in LogRecord
       /\ Died(c, outcome).topic = "died" /\ Died(c, outcome).claim = c
       /\ Died(c, outcome).body = outcome
  BY <1>9, DiedTyped
<1> QED
  BY <1>3, <1>8, <1>10, SaidWrote DEF Inv, TypeInv

LEMMA ReportSeated ==
  ASSUME Inv, NEW l \in Launches, ReportDeath(l)
  PROVE  Seated
<1>1. /\ LaunchTypes' /\ LaunchesSound' /\ Unclaimed
      /\ UNCHANGED proc /\ handle'[l].orphan = handle[l].orphan
      /\ \A k \in Launches : k # l =>
           Still(proc[k], handle[k], proc'[k], handle'[k])
  BY ReportedChanges DEF Inv, TypeInv, W
<1>2. SupStep
  BY SameSup DEF Inv, ReportDeath
<1>3. Logged
  BY <1>1, ReportLogged DEF ReportDeath
<1>4. DoneStep(l)
  BY <1>3, ReportDone DEF DoneStep
<1> QED
  BY <1>1, <1>2, <1>3, <1>4 DEF Seated, OrphanStep, DoneStep, Still

LEMMA OrphanSeated ==
  ASSUME Inv, NEW l \in Launches, FindOrphan(l)
  PROVE  Seated
<1>1. /\ LaunchTypes' /\ LaunchesSound' /\ Unclaimed
      /\ UNCHANGED proc /\ handle'[l].step = handle[l].step /\ handle'[l].orphan = W
      /\ \A k \in Launches : k # l =>
           Still(proc[k], handle[k], proc'[k], handle'[k])
  BY ReportedChanges DEF Inv, TypeInv, W
<1>2. SupStep /\ Logged
  BY SameSup DEF Inv, FindOrphan, Logged
<1>3. PICK c \in OwnClaim(l) :
        LET topics == {log[i].topic : i \in Endings(log, c, W)}
        IN  "died" \in topics /\ "stopped" \notin topics
  BY DEF FindOrphan, Orphaned
<1>4. Reported(log, c, W) /\ ~HasExit(log, c, W)
  BY <1>3 DEF Reported, HasExit
<1>5. c \in Nat /\ FoundAt(l, c, W)
  <2>1. c \in Nat /\ NewestOf(l, c) /\ log[c].handle = <<"child", l>>
    BY OwnIsNewest DEF Inv, TypeInv, FindOrphan
  <2>2. c \in 1..W /\ W \in Nat
    BY <2>1, ClaimIn DEF NewestOf, W
  <2>3. c \in ClaimsOf(l) /\ \A d \in ClaimsOf(l) : d <= c
    BY <2>1 DEF NewestOf
  <2>4. c <= W /\ W <= W
    BY <2>2
  <2>5. c \in Nat /\ log[c].handle = <<"child", l>>
    BY <2>1
  <2> QED
    BY <1>4, <2>3, <2>4, <2>5 DEF FoundAt
<1>6. handle[l].step # "DONE"
  <2>1. proc[l].at = "running" /\ Sound(proc[l], handle[l])
    BY DEF FindOrphan, Inv, LaunchesSound
  <2> QED
    BY <2>1 DEF Sound
<1>7. DoneStep(l)
  BY <1>1, <1>6 DEF DoneStep, DoneOf
<1> QED
  BY <1>1, <1>2, <1>5, <1>7 DEF Seated, OrphanStep, DoneStep, Still

LEMMA MistakenSeated ==
  ASSUME Inv, MistakenReport
  PROVE  Seated
<1>1. Kept /\ SupStep
  BY NoneKept, SameSup DEF Inv, TypeInv, MistakenReport
<1>2. PICK c \in HeldClaims : Appended(Died(c, "mistaken"))
  BY DEF MistakenReport
<1>3. c \in Claims(log, W) /\ Fits(proc'[log[c].rid], "mistaken")
  BY DEF HeldClaims, Fits
<1>4. Logged
  BY <1>2, <1>3, DiedLogged DEF Inv
<1> QED
  BY <1>1, <1>4, KeptSeated

LEMMA GoesSupStep ==
  ASSUME TypeInv, NEW s \in Supervisors, NEW at \in {"idle", "spawn"}, Goes(s, at)
  PROVE  SupStep
<1> DEFINE D == sup[s]
           E == IF at = "idle" THEN Idle ELSE [D EXCEPT !.at = at]
<1>1. D \in SupState
  BY DEF TypeInv
<1>2. E \in SupState /\ E.at # "report"
  BY <1>1 DEF SupState, Idle
<1>3. sup' = [sup EXCEPT ![s] = E]
  BY DEF Goes
<1> HIDE DEF E
<1> QED
  BY <1>2, <1>3 DEF TypeInv, SupStep

(* A session that is found ended is the evidence of a forced report. *)
LEMMA ProbeSeated ==
  ASSUME Inv, NEW s \in Supervisors, NEW leased \in BOOLEAN, NEW force \in BOOLEAN,
         LaunchOrProbe(s, leased, force)
  PROVE  Seated
<1>1. Kept /\ Logged
  BY NoneKept DEF Inv, TypeInv, LaunchOrProbe, Logged
<1>2. ASSUME FindDead(s, leased, force)
      PROVE  SupStep
  <2>1. PICK c \in HeldClaims :
          /\ force => SessionEnded(c)
          /\ sup' = [sup EXCEPT ![s] = [at |-> "report", claim |-> c,
                                        force |-> force, leased |-> leased]]
    BY <1>2 DEF FindDead
  <2> DEFINE D == [at |-> "report", claim |-> c, force |-> force, leased |-> leased]
  <2>2. c \in Claims(log, W) /\ c \in Nat
    BY DEF HeldClaims, Claims
  <2>3. D \in SupState /\ D.claim = c /\ D.force = force
    BY <2>2 DEF SupState
  <2> HIDE DEF D
  <2>4. sup' = [sup EXCEPT ![s] = D]
    BY <2>1 DEF D
  <2>5. sup' \in [Supervisors -> SupState] /\ sup'[s] = D
        /\ \A t \in Supervisors : t # s => sup'[t] = sup[t]
    BY <2>3, <2>4 DEF Inv, TypeInv
  <2> QED
    BY <2>1, <2>2, <2>3, <2>5 DEF SupStep
<1>3. SupStep
  BY <1>2, GoesSupStep DEF LaunchOrProbe, Inv
<1> QED
  BY <1>1, <1>3, KeptSeated

(* A worker whose process or thread is gone, or whose session ended, can   *)
(* write no more. *)
LEMMA EvidenceFits ==
  ASSUME Inv, NEW c \in Claims(log, W),
         SessionEnded(c) \/ ~Exists(log[c].handle)
  PROVE  Fits(proc[log[c].rid], "lost")
<1> DEFINE l == log[c].rid
           P == proc[l]
           H == handle[l]
<1>1. l \in Launches /\ c \in ClaimsOf(l)
  BY DEF Inv, ClaimsInv, ClaimsOf
<1>2. P \in ProcState /\ Sound(P, H) /\ P.at # "none" /\ log[c].handle = HandleOf(l)
  BY <1>1, LaunchOf DEF Inv, TypeInv, ClaimsInv
<1>3. CASE SessionEnded(c)
  BY <1>3 DEF SessionEnded, WorkerAlive, Fits
<1>4. CASE ~Exists(log[c].handle)
  <2>1. CASE P.kind = "local"
    <3>1. P.at \notin {"running", "ended"}
      BY <1>2, <1>4, <2>1 DEF Exists, HandleOf
    <3> QED
      BY <1>2, <2>1, <3>1 DEF Sound, Fits, ProcState
  <2>2. CASE P.kind = "wrapped"
    <3>1. ~WorkerAlive(l)
      BY <1>2, <1>4, <2>2 DEF Exists, HandleOf
    <3> QED
      BY <3>1 DEF WorkerAlive, Fits
  <2>3. CASE P.kind = "thread"
    <3>1. H.owner = NoId
      BY <1>2, <1>4, <2>3 DEF Exists, HandleOf
    <3>2. P.at = "gone"
      BY <1>2, <2>3, <3>1 DEF Sound, ProcState
    <3> QED
      BY <1>2, <2>3, <3>2 DEF Sound, Fits
  <2> QED
    BY <1>2, <2>1, <2>2, <2>3 DEF ProcState, AllKinds
<1> QED
  BY <1>3, <1>4

LEMMA LostSeated ==
  ASSUME Inv, NEW s \in Supervisors, ReportLost(s)
  PROVE  Seated
<1> DEFINE c == sup[s].claim
<1>1. Kept /\ UNCHANGED <<proc, handle>>
  BY NoneKept DEF Inv, TypeInv, ReportLost
<1>2. SupStep
  <2>1. Goes(s, "idle") \/ Goes(s, "spawn")
    BY DEF ReportLost
  <2> QED
    BY <2>1, GoesSupStep DEF Inv
<1>3. /\ c \in Claims(log, W)
      /\ sup[s].force => SessionEnded(c)
  BY DEF ReportLost, At, Inv, SupInv
<1>4. \/ UNCHANGED log
      \/ /\ sup[s].force \/ ~Exists(log[c].handle)
         /\ Appended(Died(c, "lost"))
  BY DEF ReportLost
<1> HIDE DEF c
<1>5. Logged
  <2>1. CASE UNCHANGED log
    BY <2>1 DEF Logged
  <2>2. CASE (sup[s].force \/ ~Exists(log[c].handle)) /\ Appended(Died(c, "lost"))
    <3>1. Fits(proc[log[c].rid], "lost")
      BY <1>3, <2>2, EvidenceFits
    <3> QED
      BY <1>1, <1>3, <2>2, <3>1, DiedLogged DEF Inv
  <2> QED
    BY <1>4, <2>1, <2>2
<1> QED
  BY <1>1, <1>2, <1>5, KeptSeated

LEMMA SupervisorSeated ==
  ASSUME Inv, NEW s \in Supervisors,
         Spawn(s) \/ NothingToSpawn(s) \/ SupervisorDies(s)
  PROVE  Seated
<1>1. Logged
  BY DEF Spawn, NothingToSpawn, SupervisorDies, Logged
<1>2. Kept
  BY SpawnKept, DeathKept, NoneKept DEF Inv, TypeInv, NothingToSpawn
<1>3. SupStep
  <2>1. CASE Spawn(s) \/ NothingToSpawn(s)
    BY <2>1, GoesSupStep DEF Spawn, NothingToSpawn, Inv
  <2>2. CASE SupervisorDies(s)
    <3>1. Idle \in SupState /\ Idle.at = "idle"
      BY DEF Idle, SupState
    <3>2. sup' = [sup EXCEPT ![s] = Idle]
      BY <2>2 DEF SupervisorDies
    <3> QED
      BY <3>1, <3>2 DEF Inv, TypeInv, SupStep
  <2> QED
    BY <2>1, <2>2, SMTT(60)
<1> QED
  BY <1>1, <1>2, <1>3, KeptSeated, SMTT(60)

-----------------------------------------------------------------------------
(* The invariant holds of every behaviour. *)

LEMMA InitInv == Init => Inv
<1> SUFFICES ASSUME Init PROVE Inv
  OBVIOUS
<1> DEFINE e == Rec("subscribe", Lease, 0, "lease", NoHandleOf)
<1>1. e \in LogRecord /\ e.topic = "subscribe"
  BY LaunchAssumption DEF Rec, LogRecord, NoHandleOf, HandleName
<1>2. log = <<e>>
  BY DEF Init
<1> HIDE DEF e
<1>3. log \in Seq(LogRecord) /\ W = 1 /\ log[1].topic = "subscribe"
  BY <1>1, <1>2 DEF W
<1>4. NoProc \in ProcState /\ NoHandle \in HandleState /\ Idle \in SupState
  BY DEF NoProc, NoHandle, Idle, ProcState, HandleState, SupState, AllKinds, AllStatuses
<1>5. TypeInv
  BY <1>3, <1>4 DEF Init, TypeInv, LaunchTypes
<1>6. Sound(NoProc, NoHandle)
  BY DEF Sound, NoProc, NoHandle
<1>7. LaunchesSound
  BY <1>6 DEF LaunchesSound, Init
<1>8. Claims(log, W) = {} /\ \A l : ClaimsOf(l) = {}
  BY <1>3 DEF Claims, ClaimsOf
<1>9. \A l \in Launches : handle[l].orphan = 0 /\ proc[l].worker = "none"
  BY DEF Init, NoProc, NoHandle
<1>10. \A s \in Supervisors : sup[s].at = "idle"
  BY DEF Init, Idle
<1>11. ClaimsInv /\ SupInv /\ OrphanInv
  BY <1>8, <1>9, <1>10 DEF ClaimsInv, SupInv, OrphanInv
<1>12. TrueInv /\ DoneInv
  BY <1>8 DEF TrueInv, DoneInv, NewestOf
<1> QED
  BY <1>5, <1>7, <1>11, <1>12 DEF Inv

LEMMA NextSeated ==
  ASSUME Inv, Next
  PROVE  Seated \/ \E l \in Launches : Claim(l)
<1>1. ASSUME NEW l \in Launches, HandleStep(l)
      PROVE  Seated
  BY <1>1, ProcessSeated, HandleSeated, ReportSeated, OrphanSeated DEF HandleStep
<1>2. ASSUME NEW l \in Launches, WorkerStep(l), ~Claim(l)
      PROVE  Seated
  BY <1>2, WorkerSeated DEF WorkerStep
<1>3. ASSUME NEW s \in Supervisors, NEW force \in BOOLEAN,
             Relaunch(s, force) \/ EnsureServed(s, force)
      PROVE  Seated
  BY <1>3, ProbeSeated DEF Relaunch, EnsureServed
<1>4. ASSUME NEW s \in Supervisors, DeciderStep(s)
      PROVE  Seated
  BY <1>3, <1>4, LostSeated, SupervisorSeated DEF DeciderStep
<1>5. ASSUME Environment
      PROVE  Seated
  <2>1. ASSUME NEW l \in Launches,
               \/ \E status \in Statuses[l] : ProcessEnds(l, status)
               \/ GrandchildEnds(l) \/ SessionLost(l)
               \/ Collected(l) \/ ReapRaises(l)
        PROVE  Seated
    BY <2>1, ProcessSeated, HandleSeated
  <2> QED
    BY <1>3, <1>5, <2>1, MistakenSeated, SupervisorSeated DEF Environment
<1> QED
  BY <1>1, <1>2, <1>4, <1>5 DEF Next

LEMMA NextInv == Inv /\ [Next]_vars => Inv'
<1> SUFFICES ASSUME Inv, [Next]_vars PROVE Inv'
  OBVIOUS
<1>1. ASSUME Seated PROVE Inv'
  BY <1>1, SeatedKeeps
<1>2. ASSUME NEW l \in Launches, Claim(l) PROVE Inv'
  BY <1>2, ClaimKeeps
<1>3. CASE UNCHANGED vars
  <2>1. Kept /\ Logged /\ SupStep
    BY <1>3, NoneKept, SameSup DEF vars, Inv, TypeInv, Logged
  <2> QED
    BY <1>1, <2>1, KeptSeated
<1> QED
  BY <1>1, <1>2, <1>3, NextSeated

LEMMA NextMoves ==
  ASSUME Inv, Next, NEW l \in Launches
  PROVE  Moves(proc[l], handle[l], proc'[l], handle'[l])
<1>1. ASSUME NEW k \in Launches, Claim(k)
      PROVE  Moves(proc[l], handle[l], proc'[l], handle'[l])
  <2>1. W \in Nat
    BY DEF W, Inv, TypeInv
  <2> QED
    BY <1>1, <2>1, ClaimChanges DEF Inv, TypeInv, Still
<1> QED
  BY <1>1, NextSeated DEF Seated, Unclaimed

LEMMA InvHolds == Spec => []Inv
BY InitInv, NextInv, PTL DEF Spec

-----------------------------------------------------------------------------
(* The theorems. *)

(* _reap: a child's end is recorded once, whatever the reap's writes       *)
(* raised and whoever polled and waited: a reap goes on from the step it   *)
(* was left at, and has recorded the end in every step after its first.    *)
THEOREM EndsRecorded == Spec => []EndRecordedOnce
<1>1. Inv => EndRecordedOnce
  <2> SUFFICES ASSUME Inv, NEW l \in Launches
               PROVE  /\ handle[l].ends <= 1
                      /\ handle[l].step = "DONE" /\ proc[l].kind # "thread" =>
                           handle[l].ends = 1
    BY DEF EndRecordedOnce
  <2>1. handle[l] \in HandleState /\ Sound(proc[l], handle[l])
    BY LaunchOf DEF Inv, TypeInv
  <2>2. handle[l].step \in {"PENDING", "ENDED", "DONE"}
    BY <2>1 DEF HandleState
  <2> QED
    BY <2>1, <2>2 DEF Sound
<1> QED
  BY <1>1, InvHolds, PTL

(* reap(), _orphaned: the launcher kills a child only on a read that found *)
(* its launch's newest claim at the time the child's own, reported and     *)
(* without an exit, although the child may end, claim and exit, and be     *)
(* reaped by another thread, between the read and the kill; and that claim *)
(* has no exit at the kill, since one that has ended gets none.  The kill  *)
(* does not read again, so a claim made after the read is killed with it.  *)
THEOREM OrphansOnly == Spec => KillsOnlyOrphans
<1> DEFINE Kills ==
      \A l \in Launches :
        proc'[l].killed /\ ~proc[l].killed =>
          LET read == handle[l].orphan
              then == {c \in ClaimsOf(l) : c <= read}
          IN  /\ then # {}
              /\ LET c == Newest(then)
                 IN  /\ log[c].handle = <<"child", l>>
                     /\ Reported(log, c, read) /\ ~HasExit(log, c, W)
<1>1. Inv /\ [Next]_vars => [Kills]_vars
  <2> SUFFICES ASSUME Inv, Next, NEW l \in Launches,
                      proc'[l].killed, ~proc[l].killed
               PROVE  LET read == handle[l].orphan
                          then == {c \in ClaimsOf(l) : c <= read}
                      IN  /\ then # {}
                          /\ LET c == Newest(then)
                             IN  /\ log[c].handle = <<"child", l>>
                                 /\ Reported(log, c, read) /\ ~HasExit(log, c, W)
    OBVIOUS
  <2> DEFINE read == handle[l].orphan
             then == {c \in ClaimsOf(l) : c <= read}
  <2>1. handle[l].orphan # 0
    BY NextMoves DEF Moves
  <2>2. PICK c \in Nat : FoundAt(l, c, read)
    BY <2>1 DEF Inv, OrphanInv
  <2>3. c \in then /\ \A d \in then : d <= c
    BY <2>2 DEF FoundAt
  <2>4. then \subseteq Nat
    BY ClaimIn DEF W
  <2> HIDE DEF then
  <2>5. Newest(then) \in then /\ \A j \in then : j <= Newest(then)
    BY <2>3 DEF Newest
  <2>6. Newest(then) = c
    <3>1. Newest(then) <= c /\ c <= Newest(then) /\ Newest(then) \in Nat
      BY <2>3, <2>4, <2>5
    <3> QED
      BY <3>1
  <2> QED
    BY <2>2, <2>3, <2>6 DEF FoundAt, then
<1> HIDE DEF Inv
<1>2. [][Kills]_vars <=> KillsOnlyOrphans
  BY PTL DEF KillsOnlyOrphans, Kills
<1> QED
  BY <1>1, <1>2, InvHolds, PTL DEF Spec

(* _own_claim, report_if_dead, _observed, _kill: what is reported of a     *)
(* worker is true of it, whosever child it is, whatever pid was reused and *)
(* whoever died: the evidence a report is made on is not undone before the *)
(* report lands.                                                           *)
THEOREM ReportsTrue == Spec => []ReportsAreTrue
<1>1. Inv => ReportsAreTrue
  <2> SUFFICES ASSUME Inv, NEW l \in Launches, ClaimsOf(l) # {},
                      NEW c, c = Newest(ClaimsOf(l)),
                      NEW outcome, outcome = Outcome(proc[l].status)
               PROVE  /\ proc[l].worker = "live" /\ proc[l].session =>
                           Said(c) \subseteq {"mistaken"}
                      /\ proc[l].kind = "local" =>
                           /\ proc[l].killed => "killed" \notin Said(c)
                           /\ /\ handle[l].step = "DONE" /\ ~HasExit(log, c, W)
                              /\ outcome # "lost"
                              /\ ~(handle[l].killSent /\ proc[l].status = "SIGKILL")
                              => outcome \in Said(c)
    BY DEF ReportsAreTrue, Said
  <2>1. c \in Nat /\ NewestOf(l, c)
    BY NewestIs DEF Inv, TypeInv, ClaimsInv
  <2>2. /\ TrueOf(proc[l], c, Said(c))
        /\ DoneOf(proc[l], handle[l], Said(c), HasExit(log, c, W))
    BY <2>1 DEF Inv, TrueInv, DoneInv
  <2> QED
    BY <2>2 DEF TrueOf, DoneOf
<1> QED
  BY <1>1, InvHolds, PTL
=============================================================================
