---------------------------- MODULE Checkpoints ----------------------------
(***************************************************************************)
(* The checkpoint recipe (checkpoint.py): when a policy saves, and which   *)
(* of the checkpoints in a store a claim resumes from.  A checkpoint is    *)
(* the node that names it and the state it holds, which is how many        *)
(* iterations the process had run.                                         *)
(***************************************************************************)
EXTENDS RunLog

CONSTANT SaveEvery    \* Every's k; 0 stands for NoSave

ASSUME SaveAssumption == SaveEvery \in Nat

CommitsOn(lg, n) == {i \in Lineage(lg, n) : lg[i].topic = "commit"}

(* prepare at a commit that will be the commits'th, and at an exit. *)
SavesAtCommit(commits) == SaveEvery > 0 /\ commits % SaveEvery = 0

SavesAtAnyExit(outcome) == SaveEvery > 0      \* mutant: torn and closed exits save too

SavesAtExit(outcome) == SaveEvery > 0 /\ outcome = "preempted"

(* The candidates at or below the head's W. *)
Complete(store, w) == {c \in store : c.node <= w}

(* The one on the head's lineage nearest the head. *)
OnHeadLineage(lg, store, w, head) ==
  LET on == {c \in Complete(store, w) : c.node \in Lineage(lg, head)}
  IN  {c \in on : \A d \in on : d.node <= c.node}

(* The one that recomputes least, on any lineage; ties to the higher seq. *)
MostProgress(lg, store, w) ==
  LET Progress(c) == Cardinality(CommitsOn(lg, c.node))
  IN  {c \in Complete(store, w) : \A d \in Complete(store, w) :
         \/ Progress(d) < Progress(c)
         \/ Progress(d) = Progress(c) /\ d.node <= c.node}
=============================================================================
