-------------------------- MODULE MCTemporaryStore --------------------------
(* The two stores for temporary values, and the one-time codes that are kept in  *)
(* such a store, checked side by side: every behaviour belongs to one of them.    *)
EXTENDS CacheMemory, CacheRedis, OneTimeCode, TLC

CONSTANTS x1, x2, x3, challenges  \* two keys of a namespace, one of none

VARIABLE part

MCNsOf == [k \in {x1, x2} |-> challenges] @@ [k \in {x3} |-> NoNs]
MCQuota == challenges :> 1

MCInit == part \in {"memory", "redis", "codes"} /\ MemoryInit /\ RedisInit /\ CodeInit

MCNext ==
  \/ part = "memory" /\ MemoryNext /\ UNCHANGED <<part, redisVars, vars>>
  \/ part = "redis" /\ RedisNext /\ UNCHANGED <<part, memoryVars, vars>>
  \/ part = "codes" /\ CodeNext /\ UNCHANGED <<part, memoryVars, redisVars>>

(* The fairness of OneTimeCode, for the behaviours that belong to it. *)
MCSpec ==
  /\ MCInit /\ [][MCNext]_<<part, memoryVars, redisVars, vars>>
  /\ \A v \in Verifiers : WF_vars(part = "codes" /\ (Read(v) \/ Write(v) \/ Retry(v)))

(* Both stores know every key of a namespace they hold, with its expiry, and hold  *)
(* no more than its quota; the codes have their types.                              *)
StoresConsistent == MemoryTypeOK /\ MembersMatch /\ RedisTypeOK /\ CodeTypeOK
=============================================================================
