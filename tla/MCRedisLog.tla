------------------------------ MODULE MCRedisLog ------------------------------
(* Instances of RedisLog for TLC.                                           *)
EXTENDS RedisLog, TLC

CONSTANTS log, stat

MCNames == {log, stat}
=============================================================================
