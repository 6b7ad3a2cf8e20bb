----------------------------- MODULE MCCacheSync -----------------------------
(* A few users, changes and restarts: constants are in the .cfg.           *)
EXTENDS CacheSync
=============================================================================
