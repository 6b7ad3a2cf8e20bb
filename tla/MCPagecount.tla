----------------------------- MODULE MCPagecount -----------------------------
(* Two workers and a few clients: constants are in the .cfg.               *)
EXTENDS Pagecount, TLC

Alike == Permutations(Workers) \cup Permutations(Locations)
=============================================================================
