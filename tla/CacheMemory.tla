---------------------------- MODULE CacheMemory -----------------------------
(* The in-process store (platform/cache/memory.go) and its namespaces           *)
(* (namespace.go): expired entries stay until somebody trips over them, and     *)
(* every namespace keeps a list of its members beside the entries.  Every       *)
(* operation runs under the store's mutex.                                      *)
EXTENDS CacheKeyspace

CONSTANTS TTLs,         \* lifetimes callers ask for
          CacheMaxTime  \* bound: the clock stops here

ASSUME MemoryConstants == TTLs \subseteq Nat \ {0} /\ CacheMaxTime \in Nat

VARIABLES
  items,    \* value and expiry of every key, value NoValue when it has no entry
  members,  \* expiry every key is listed with in its namespace, 0 when it is not
  clock, reply

memoryVars == <<items, members, clock, reply>>

NoItem == [val |-> NoValue, exp |-> 0]
Unlisted == [k \in CacheKeys |-> 0]

MemoryInit ==
  /\ items = [k \in CacheKeys |-> NoItem] /\ members = Unlisted
  /\ clock = 0 /\ reply = <<"none">>

Present(i) == {k \in CacheKeys : i[k].val # NoValue}
Alive(i) == {k \in Present(i) : clock < i[k].exp}
Without(f, keys, none) == [k \in CacheKeys |-> IF k \in keys THEN none ELSE f[k]]
Listed(m, k) == {j \in Peers(k) : m[j] # 0}

Finish(i, m, r) == items' = i /\ members' = m /\ reply' = r /\ UNCHANGED clock

(* evictExpired *)
Expired(i) == Present(i) \ Alive(i)

-----------------------------------------------------------------------------
(* The plain store. *)

MemorySet(k, v, ttl) ==
  /\ NsOf[k] = NoNs
  /\ LET crowded == k \notin Present(items) /\ Cardinality(Present(items)) >= StoreLimit
         gone == IF crowded THEN Expired(items) ELSE {}
         i == Without(items, gone, NoItem)
         m == Without(members, gone, 0) IN
     IF crowded /\ Cardinality(Present(i)) >= StoreLimit
     THEN Finish(i, m, <<"capacity", k>>)
     ELSE Finish([i EXCEPT ![k] = [val |-> v, exp |-> clock + ttl]], m, <<"stored", k>>)

(* Get, GetRawJSON and namespaceGet: an expired entry is removed. *)
MemoryGet(k) ==
  IF k \in Alive(items) THEN Finish(items, members, <<"value", k, items[k].val>>)
  ELSE Finish(Without(items, {k}, NoItem), Without(members, {k}, 0), <<"value", k, NoValue>>)

(* Delete and namespaceDelete *)
MemoryDelete(k) ==
  Finish(Without(items, {k}, NoItem), Without(members, {k}, 0), <<"deleted", k>>)

(* AtomicConsume and namespaceConsume *)
MemoryConsume(k) ==
  Finish(Without(items, {k}, NoItem), Without(members, {k}, 0),
         <<"value", k, IF k \in Alive(items) THEN items[k].val ELSE NoValue>>)

(* CompareAndSwapJSON keeps the expiry; CompareAndDeleteJSON removes the entry. *)
MemoryCompare(k, old, new) ==
  LET alive == k \in Alive(items)
      equal == alive /\ items[k].val = old
      gone == ~alive \/ (equal /\ new = NoValue)
      swapped == [items EXCEPT ![k].val = new] IN
  IF gone THEN Finish(Without(items, {k}, NoItem), Without(members, {k}, 0), <<"compared", k, equal>>)
  ELSE Finish(IF equal THEN swapped ELSE items, members, <<"compared", k, equal>>)

-----------------------------------------------------------------------------
(* namespaceSet: prune the namespace, look for the key, ask for a place. *)

(* Faulty variant: only what was removed behind the list's back is pruned. *)
StaleWithoutExpiry(k) == {j \in Listed(members, k) : j \notin Present(items)}

Stale(k) == {j \in Listed(members, k) : clock >= members[j] \/ j \notin Alive(items)}
Pruned(k) == [i |-> Without(items, Stale(k) \cap Expired(items), NoItem),
              m |-> Without(members, Stale(k), 0)]

(* An entry that is alive is overwritten; a dead one is forgotten first. *)
Cleared(k) == [i |-> Without(Pruned(k).i, {k} \ Alive(items), NoItem), m |-> Pruned(k).m]

Crowded(k) == k \notin Alive(items) /\ Cardinality(Present(Cleared(k).i)) >= StoreLimit
Swept(k) ==
  LET gone == IF Crowded(k) THEN Expired(Cleared(k).i) ELSE {} IN
  [i |-> Without(Cleared(k).i, gone, NoItem), m |-> Without(Cleared(k).m, gone, 0)]

HasPlace(k) == Pruned(k).m[k] # 0 \/ Cardinality(Listed(Pruned(k).m, k)) < Quota[NsOf[k]]
StoreHasPlace(k) == k \in Alive(items) \/ Cardinality(Present(Swept(k).i)) < StoreLimit

(* Faulty variant: a member that is listed keeps the expiry it was listed with. *)
EnlistedOnce(m, k, exp) == IF m[k] # 0 THEN m ELSE [m EXCEPT ![k] = exp]

Enlisted(m, k, exp) == [m EXCEPT ![k] = exp]

NamespaceSet(k, v, ttl) ==
  /\ NsOf[k] # NoNs
  /\ IF ~HasPlace(k) THEN Finish(Cleared(k).i, Cleared(k).m, <<"capacity", k>>)
     ELSE IF ~StoreHasPlace(k) THEN Finish(Swept(k).i, Swept(k).m, <<"capacity", k>>)
     ELSE Finish([Swept(k).i EXCEPT ![k] = [val |-> v, exp |-> clock + ttl]],
                 Enlisted(Swept(k).m, k, clock + ttl), <<"stored", k>>)

MemoryTick == clock < CacheMaxTime /\ clock' = clock + 1 /\ UNCHANGED <<items, members, reply>>

MemoryNext ==
  \/ \E k \in CacheKeys :
       \/ \E v \in CacheValues, ttl \in TTLs : MemorySet(k, v, ttl) \/ NamespaceSet(k, v, ttl)
       \/ MemoryGet(k) \/ MemoryDelete(k) \/ MemoryConsume(k)
       \/ \E old \in CacheValues, new \in CacheValues \cup {NoValue} : MemoryCompare(k, old, new)
  \/ MemoryTick

MemorySpec == MemoryInit /\ [][MemoryNext]_memoryVars

-----------------------------------------------------------------------------
(* Types of the memory store's state, whose size is bounded: no store and no       *)
(* namespace holds more than it may.                                                *)
MemoryTypeOK ==
  /\ items \in [CacheKeys -> [val : CacheValues \cup {NoValue}, exp : Nat]]
  /\ members \in [CacheKeys -> Nat]
  /\ clock \in Nat
  /\ Cardinality(Present(items)) <= StoreLimit
  /\ \A n \in Namespaces : Cardinality({k \in CacheKeys : NsOf[k] = n /\ members[k] # 0}) <= Quota[n]

(* The list of a namespace and its entries agree: every entry of a namespace is   *)
(* listed with its own expiry, so no live entry escapes the quota, and nothing     *)
(* outside a namespace is listed.                                                  *)
MembersMatch ==
  \A k \in CacheKeys :
    /\ NsOf[k] # NoNs /\ items[k].val # NoValue => members[k] = items[k].exp
    /\ NsOf[k] = NoNs => members[k] = 0

MemoryLive == [k \in CacheKeys |-> IF k \in Alive(items) THEN items[k].val ELSE NoValue]

Abstract == INSTANCE CacheSpec WITH live <- MemoryLive, answer <- reply

(* The memory store keeps the promise of CacheSpec: expired entries that are still  *)
(* stored or listed never show, neither in an answer nor in a refusal.              *)
MemoryImplementsCache == Abstract!CacheBehaviour
=============================================================================
