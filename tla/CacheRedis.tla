----------------------------- MODULE CacheRedis -----------------------------
(* The same store on Redis (platform/cache/redis.go and the scripts of           *)
(* namespace.go): keys expire in the server, and the quota of a namespace is a    *)
(* sorted set of its keys by expiry.  Every script is one step of the server.     *)
EXTENDS CacheKeyspace

CONSTANTS RedisTTLs, RedisMaxTime  \* lifetimes callers ask for; bound of the clock

ASSUME RedisConstants == RedisTTLs \subseteq Nat \ {0} /\ RedisMaxTime \in Nat

VARIABLES
  entries,   \* value and expiry of every key, value NoValue when it does not exist
  scores,    \* score of every key in its namespace's set, 0 when it is not a member
  serverTime, redisReply

redisVars == <<entries, scores, serverTime, redisReply>>

NoEntry == [val |-> NoValue, exp |-> 0]

RedisInit ==
  /\ entries = [k \in CacheKeys |-> NoEntry] /\ scores = [k \in CacheKeys |-> 0]
  /\ serverTime = 0 /\ redisReply = <<"none">>

Exists(k) == entries[k].val # NoValue
Got(k) == entries[k].val

Script(e, s, r) == entries' = e /\ scores' = s /\ redisReply' = r /\ UNCHANGED serverTime
WithEntry(k, v, ttl) == [entries EXCEPT ![k] = [val |-> v, exp |-> serverTime + ttl]]
Zrem(s, k) == [s EXCEPT ![k] = 0]

RedisSet(k, v, ttl) ==
  /\ NsOf[k] = NoNs
  /\ Script(WithEntry(k, v, ttl), scores, <<"stored", k>>)

(* namespaceSetScript *)
InTime(k) == [j \in CacheKeys |-> IF j \in Peers(k) /\ scores[j] <= serverTime THEN 0 ELSE scores[j]]
(* Faulty variant: members whose keys have expired count. *)
QuotaFullOfExpired(k) ==
  /\ scores[k] = 0 /\ ~Exists(k)
  /\ Cardinality({j \in Peers(k) : scores[j] # 0}) >= Quota[NsOf[k]]

QuotaFull(k) ==
  /\ InTime(k)[k] = 0 /\ ~Exists(k)
  /\ Cardinality({j \in Peers(k) : InTime(k)[j] # 0}) >= Quota[NsOf[k]]

RedisNamespaceSet(k, v, ttl) ==
  /\ NsOf[k] # NoNs
  /\ IF QuotaFull(k) THEN Script(entries, InTime(k), <<"capacity", k>>)
     ELSE Script(WithEntry(k, v, ttl), [InTime(k) EXCEPT ![k] = serverTime + ttl], <<"stored", k>>)

(* Get and namespaceGetScript *)
RedisGet(k) ==
  Script(entries, IF Exists(k) THEN scores ELSE Zrem(scores, k), <<"value", k, Got(k)>>)

(* Delete and namespaceDeleteScript *)
RedisDelete(k) == Script([entries EXCEPT ![k] = NoEntry], Zrem(scores, k), <<"deleted", k>>)

(* consumeScript and namespaceConsumeScript: a missing key stays listed. *)
RedisConsume(k) ==
  Script([entries EXCEPT ![k] = NoEntry],
         IF Exists(k) THEN Zrem(scores, k) ELSE scores, <<"value", k, Got(k)>>)

(* The compare scripts keep the time to live of what they replace. *)
RedisCompare(k, old, new) ==
  LET equal == Exists(k) /\ Got(k) = old
      removed == equal /\ new = NoValue IN
  Script(IF removed THEN [entries EXCEPT ![k] = NoEntry]
         ELSE IF equal THEN [entries EXCEPT ![k].val = new] ELSE entries,
         IF removed \/ ~Exists(k) THEN Zrem(scores, k) ELSE scores,
         <<"compared", k, equal>>)

(* The server drops what has expired as its clock advances. *)
RedisTick ==
  /\ serverTime < RedisMaxTime /\ serverTime' = serverTime + 1
  /\ entries' = [k \in CacheKeys |-> IF entries[k].exp <= serverTime + 1 THEN NoEntry ELSE entries[k]]
  /\ UNCHANGED <<scores, redisReply>>

RedisNext ==
  \/ \E k \in CacheKeys :
       \/ \E v \in CacheValues, ttl \in RedisTTLs : RedisSet(k, v, ttl) \/ RedisNamespaceSet(k, v, ttl)
       \/ RedisGet(k) \/ RedisDelete(k) \/ RedisConsume(k)
       \/ \E old \in CacheValues, new \in CacheValues \cup {NoValue} : RedisCompare(k, old, new)
  \/ RedisTick

RedisSpec == RedisInit /\ [][RedisNext]_redisVars

(* Types of the server's state; every key of a namespace is in its set, with its    *)
(* expiry, for as long as it exists.                                                 *)
RedisTypeOK ==
  /\ entries \in [CacheKeys -> [val : CacheValues \cup {NoValue}, exp : Nat]]
  /\ scores \in [CacheKeys -> Nat]
  /\ \A k \in CacheKeys : Exists(k) /\ NsOf[k] # NoNs => scores[k] = entries[k].exp

RedisLive == [k \in CacheKeys |-> entries[k].val]

(* Redis has no limit of its own: no number of keys fills it. *)
Promise == INSTANCE CacheSpec WITH live <- RedisLive, answer <- redisReply,
             StoreLimit <- Cardinality(CacheKeys) + 1

(* The Redis store keeps the same promise: what its sorted sets list beyond the    *)
(* existing keys never makes a namespace look full.                                *)
RedisImplementsCache == Promise!CacheBehaviour
=============================================================================
