---------------------------- MODULE MCLaunchers ----------------------------
(* Launchers with two launches: one of any kind that may end in any way,   *)
(* and a successor beside it that lives on.                                *)
EXTENDS Launchers, TLC

CONSTANTS s1, l1, l2

KindsOf == (l1 :> {"local", "wrapped", "thread"}) @@ (l2 :> {"local"})

StatusesOf == (l1 :> {"exit0", "exit1", "SIGTERM", "SIGKILL"}) @@ (l2 :> {})
=============================================================================
