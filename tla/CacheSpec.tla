----------------------------- MODULE CacheSpec ------------------------------
(* What the temporary store promises, whatever backs it: a map whose entries    *)
(* may expire, operations that take effect at once, and a refusal only where    *)
(* the live entries of a namespace, or of the whole store, really fill it.      *)
EXTENDS CacheKeyspace

VARIABLES live,    \* value of every key, NoValue when there is none
          answer   \* what the last operation returned

cacheVars == <<live, answer>>

Held(keys) == {j \in keys : live[j] # NoValue}

CacheInit == live = [k \in CacheKeys |-> NoValue] /\ answer = <<"none">>

HasRoom(k) ==
  \/ live[k] # NoValue
  \/ /\ NsOf[k] # NoNs => Cardinality(Held(Peers(k))) < Quota[NsOf[k]]
     /\ Cardinality(Held(CacheKeys)) < StoreLimit

Put(k, v) ==
  /\ HasRoom(k)
  /\ live' = [live EXCEPT ![k] = v] /\ answer' = <<"stored", k>>

Refuse(k) == ~HasRoom(k) /\ answer' = <<"capacity", k>> /\ UNCHANGED live

Fetch(k) == answer' = <<"value", k, live[k]>> /\ UNCHANGED live

Drop(k) == live' = [live EXCEPT ![k] = NoValue] /\ answer' = <<"deleted", k>>

(* The value goes to one caller only. *)
Consume(k) == live' = [live EXCEPT ![k] = NoValue] /\ answer' = <<"value", k, live[k]>>

CompareAndPut(k, old, new) ==
  /\ live' = IF live[k] = old THEN [live EXCEPT ![k] = new] ELSE live
  /\ answer' = <<"compared", k, live[k] = old>>

TimePasses ==
  /\ \E gone \in SUBSET CacheKeys : live' = [k \in CacheKeys |-> IF k \in gone THEN NoValue ELSE live[k]]
  /\ UNCHANGED answer

CacheNext ==
  \/ \E k \in CacheKeys :
       \/ \E v \in CacheValues : Put(k, v)
       \/ Refuse(k) \/ Fetch(k) \/ Drop(k) \/ Consume(k)
       \/ \E old \in CacheValues, new \in CacheValues \cup {NoValue} : CompareAndPut(k, old, new)
  \/ TimePasses

CacheBehaviour == CacheInit /\ [][CacheNext]_cacheVars
=============================================================================
