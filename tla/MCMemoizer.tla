----------------------------- MODULE MCMemoizer -----------------------------
(* ensure on small instances. *)
EXTENDS Memoizer

CONSTANTS e1, e2, l1, l2, l3, f1
=============================================================================
