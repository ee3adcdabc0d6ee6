----------------------------- MODULE AtomicLog -----------------------------
(***************************************************************************)
(* What Channel.send promises (channel/base.py), whatever the backend: a   *)
(* log whose seqs are 1, 2, 3, ..., to which each call appends at most     *)
(* once, at the end; a compare-and-append lands only at the tail it        *)
(* expected; None says that the log had moved and nothing landed; and a    *)
(* raise says nothing, so that the append may land even after it.          *)
(***************************************************************************)
EXTENDS Naturals, FiniteSets

CONSTANT Handles

VARIABLES
  rows,    \* the log: rows with their seqs
  call     \* each handle's last call: what it asked, and what it was told

Plain == 0   \* expected_seq of an unconditional append, plus one

NoCall == [expected |-> Plain, landed |-> 0, told |-> "ready"]

Init == rows = {} /\ call = [h \in Handles |-> NoCall]

Call(h, expected) ==
  /\ call[h].told # "nothing"
  /\ call' = [call EXCEPT ![h] = [expected |-> expected, landed |-> 0, told |-> "nothing"]]
  /\ UNCHANGED rows

Land(h, row) ==
  LET tail == Cardinality(rows)
  IN  /\ call[h].landed = 0 /\ call[h].told \in {"nothing", "raised"}
      /\ call[h].expected \in {Plain, tail + 1}
      /\ row.seq = tail + 1
      /\ rows' = rows \cup {row}
      /\ call' = [call EXCEPT ![h].landed = row.seq]

Return(h, told) ==
  /\ call[h].told = "nothing"
  /\ CASE told = "seq"    -> call[h].landed # 0
       [] told = "None"   -> /\ call[h].expected # Plain /\ call[h].landed = 0
                             /\ Cardinality(rows) # call[h].expected - 1
       [] told = "raised" -> TRUE
  /\ call' = [call EXCEPT ![h].told = told]
  /\ UNCHANGED rows

Next ==
  \E h \in Handles :
    \/ Call(h, call'[h].expected)
    \/ \E row \in rows' \ rows : Land(h, row)
    \/ \E told \in {"seq", "None", "raised"} : Return(h, told)

Spec == Init /\ [][Next]_<<rows, call>>
=============================================================================
