------------------------------- MODULE MCTimer -------------------------------
(* A few timers on a small clock: constants are in the .cfg.               *)
EXTENDS Timer, TLC

Alike == Permutations(Entries)
=============================================================================
