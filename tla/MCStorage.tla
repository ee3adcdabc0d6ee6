----------------------------- MODULE MCStorage -----------------------------
(* Storage, with any two administrators at once. *)
EXTENDS Storage

MCCalls == {c \in SUBSET {"move", "back", "keep", "drop", "migrate"} : Cardinality(c) = 2}

MCHomes == {"old", "new", "pgold", "pg"}
=============================================================================
