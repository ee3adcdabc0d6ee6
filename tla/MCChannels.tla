----------------------------- MODULE MCChannels -----------------------------
(* The channels on small instances: two writers, and three connections. *)
EXTENDS Channels, TLC

CONSTANTS h1, h2, k1, k2

Symmetric == Permutations(Handles) \cup Permutations(Keys)
=============================================================================
