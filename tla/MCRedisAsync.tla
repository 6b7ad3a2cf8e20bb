---------------------------- MODULE MCRedisAsync ----------------------------
(* The pipelined client with a few commands: constants are in the .cfg.    *)
EXTENDS RedisAsync
=============================================================================
