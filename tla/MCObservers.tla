---------------------------- MODULE MCObservers ----------------------------
(* The observers on small logs: the bound of each watched log. *)
EXTENDS Watchers

CONSTANTS r1, s1, s2

Lengths == [head |-> 5, demand |-> 5, answers |-> 5, counts |-> 5, verdict |-> 5,
            stops |-> 4, watch |-> 3, wait |-> 2, await |-> 5]
=============================================================================
