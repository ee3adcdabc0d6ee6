--------------------------- MODULE ClaimRegister ---------------------------
(***************************************************************************)
(* What the claim protocol promises, whatever the log and its readers do:  *)
(* a register of the run's claims.  A new claim is made only when no claim *)
(* is held; a held claim ends once, by its own worker's exit or by a death *)
(* report; and how it ended is never revised.                              *)
(***************************************************************************)
EXTENDS Naturals

VARIABLE end   \* the claims made, by seq, and how each ended: or that it is held

Held == {c \in DOMAIN end : end[c] = "held"}

Init == end = [c \in {} |-> "held"]

Claim(c) ==
  /\ Held = {}
  /\ \A d \in DOMAIN end : d < c
  /\ end' = [d \in DOMAIN end \cup {c} |-> IF d = c THEN "held" ELSE end[d]]

End(c, how) ==
  /\ c \in Held
  /\ end' = [end EXCEPT ![c] = how]

Next ==
  \/ \E c \in DOMAIN end' \ DOMAIN end : Claim(c)
  \/ \E c \in DOMAIN end, how \in {"exit", "report"} : End(c, how)

Spec == Init /\ [][Next]_end
=============================================================================
