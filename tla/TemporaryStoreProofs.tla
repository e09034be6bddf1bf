------------------------- MODULE TemporaryStoreProofs -------------------------
(* Both stores for temporary values keep the promise of CacheSpec, and the        *)
(* one-time codes kept in such a store are used once, for any number of keys,     *)
(* namespaces, codes and callers.                                                 *)
EXTENDS MCTemporaryStore, FiniteSetTheorems, TLAPS

-----------------------------------------------------------------------------
(* ---- the memory store ---- *)
MemoryInvariant == MemoryTypeOK /\ MembersMatch
MemoryItem == [val : CacheValues \cup {NoValue}, exp : Nat]
Members(m, n) == {k \in CacheKeys : NsOf[k] = n /\ m[k] # 0}

LEMMA MemoryBegins == MemoryInit => MemoryInvariant
  <1> SUFFICES ASSUME MemoryInit PROVE MemoryInvariant
    OBVIOUS
  <1>1. Present(items) = {} /\ \A n : {k \in CacheKeys : NsOf[k] = n /\ members[k] # 0} = {}
    BY DEF MemoryInit, Present, NoItem, Unlisted
  <1>2. Cardinality({}) = 0 /\ 0 <= StoreLimit /\ \A n \in Namespaces : 0 <= Quota[n]
    BY FS_EmptySet, CacheConstants
  <1>3. Cardinality(Present(items)) <= StoreLimit
        /\ \A n \in Namespaces : Cardinality({k \in CacheKeys : NsOf[k] = n /\ members[k] # 0}) <= Quota[n]
    BY <1>1, <1>2
  <1>4. QED
    BY <1>3 DEF MemoryInit, MemoryInvariant, MemoryTypeOK, MembersMatch, NoItem, Unlisted

LEMMA MemoryTyped ==
  ASSUME MemoryInvariant
  PROVE  /\ items \in [CacheKeys -> MemoryItem] /\ members \in [CacheKeys -> Nat] /\ clock \in Nat
         /\ \A k \in CacheKeys : items[k] \in MemoryItem
         /\ Cardinality(Present(items)) <= StoreLimit
         /\ \A n \in Namespaces : Cardinality(Members(members, n)) <= Quota[n]
         /\ \A k \in CacheKeys : NsOf[k] # NoNs /\ items[k].val # NoValue => members[k] = items[k].exp
         /\ \A k \in CacheKeys : NsOf[k] = NoNs => members[k] = 0
         /\ NoItem \in MemoryItem /\ NoItem.val = NoValue
  BY DEF MemoryInvariant, MemoryTypeOK, MembersMatch, MemoryItem, Members, NoItem

(* Sets of keys are finite, and counted by their elements. *)
LEMMA KeysCount ==
  /\ \A S \in SUBSET CacheKeys : IsFiniteSet(S) /\ Cardinality(S) \in Nat
  /\ \A S, T \in SUBSET CacheKeys : S \subseteq T => Cardinality(S) <= Cardinality(T)
  /\ \A S \in SUBSET CacheKeys, k \in CacheKeys : Cardinality(S \cup {k}) <= Cardinality(S) + 1
  <1>1. \A S \in SUBSET CacheKeys : IsFiniteSet(S) /\ Cardinality(S) \in Nat
    BY CacheConstants, FS_Subset, FS_CardinalityType
  <1>2. \A S, T \in SUBSET CacheKeys : S \subseteq T => Cardinality(S) <= Cardinality(T)
    BY <1>1, FS_Subset
  <1>3. ASSUME NEW S \in SUBSET CacheKeys, NEW k \in CacheKeys
        PROVE  Cardinality(S \cup {k}) <= Cardinality(S) + 1
    BY <1>1, FS_AddElement
  <1>4. QED
    BY <1>1, <1>2, <1>3

(* Tidying forgets dead entries and unlists members without an entry, no more. *)
Tidied(i, m) ==
  /\ DOMAIN i = CacheKeys /\ i = [k \in CacheKeys |-> i[k]] /\ m = [k \in CacheKeys |-> m[k]]
  /\ \A k \in CacheKeys : i[k] = items[k] \/ (i[k] = NoItem /\ k \notin Alive(items))
  /\ \A k \in CacheKeys : m[k] = members[k] \/ (m[k] = 0 /\ i[k].val = NoValue)

LEMMA TidyFacts ==
  ASSUME MemoryInvariant, NEW i, NEW m, Tidied(i, m)
  PROVE  /\ i \in [CacheKeys -> MemoryItem] /\ m \in [CacheKeys -> Nat]
         /\ Alive(i) = Alive(items) /\ Present(i) \subseteq Present(items) /\ Alive(items) \subseteq Present(i)
         /\ Present(items) \subseteq CacheKeys
         /\ \A k \in Alive(items) : i[k] = items[k] /\ m[k] = members[k] /\ items[k].val # NoValue /\ clock < items[k].exp
         /\ \A n : Members(m, n) \subseteq Members(members, n) /\ Members(members, n) \subseteq CacheKeys
         /\ \A k \in CacheKeys : NsOf[k] # NoNs /\ i[k].val # NoValue => m[k] = i[k].exp
         /\ \A k \in CacheKeys : NsOf[k] = NoNs => m[k] = 0
  <1>1. \A k \in CacheKeys : i[k] \in MemoryItem /\ m[k] \in Nat
    BY MemoryTyped DEF Tidied
  <1>2. i \in [CacheKeys -> MemoryItem] /\ m \in [CacheKeys -> Nat]
    BY <1>1 DEF Tidied
  <1>3. \A k \in CacheKeys : k \in Alive(items) <=> items[k].val # NoValue /\ clock < items[k].exp
    BY DEF Alive, Present
  <1>4. Alive(i) = Alive(items)
    BY <1>3, MemoryTyped DEF Tidied, Alive, Present
  <1>5. Present(i) \subseteq Present(items) /\ Alive(items) \subseteq Present(i) /\ Present(items) \subseteq CacheKeys
    BY <1>4, MemoryTyped DEF Tidied, Alive, Present
  <1>6. \A k \in Alive(items) : i[k] = items[k] /\ m[k] = members[k] /\ items[k].val # NoValue /\ clock < items[k].exp
    BY <1>3, <1>5 DEF Tidied, Alive, Present
  <1>7. \A n : Members(m, n) \subseteq Members(members, n) /\ Members(members, n) \subseteq CacheKeys
    BY DEF Tidied, Members
  <1>8. \A k \in CacheKeys : /\ NsOf[k] # NoNs /\ i[k].val # NoValue => m[k] = i[k].exp
                             /\ NsOf[k] = NoNs => m[k] = 0
    BY MemoryTyped DEF Tidied
  <1>9. QED
    BY <1>2, <1>4, <1>5, <1>6, <1>7, <1>8

LEMMA TidyIsUnseen ==
  ASSUME MemoryInvariant, NEW i, NEW m, NEW r, Tidied(i, m), Finish(i, m, r)
  PROVE  MemoryInvariant' /\ UNCHANGED MemoryLive /\ reply' = r
  <1>1. items' = i /\ members' = m /\ reply' = r /\ clock' = clock
    BY DEF Finish
  <1>2. MemoryTypeOK'
    <2>1. Cardinality(Present(i)) <= StoreLimit
      <3>1. Present(i) \in SUBSET CacheKeys /\ Present(items) \in SUBSET CacheKeys
        BY TidyFacts
      <3>2. QED
        BY <3>1, TidyFacts, KeysCount, MemoryTyped, CacheConstants
    <2>2. ASSUME NEW n \in Namespaces PROVE Cardinality(Members(m, n)) <= Quota[n]
      <3>1. Members(m, n) \in SUBSET CacheKeys /\ Members(members, n) \in SUBSET CacheKeys
        BY TidyFacts
      <3>2. QED
        BY <3>1, TidyFacts, KeysCount, MemoryTyped, CacheConstants
    <2>3. QED
      BY <1>1, <2>1, <2>2, TidyFacts, MemoryTyped DEF MemoryTypeOK, MemoryItem, Members, Present
  <1>3. MembersMatch'
    BY <1>1, TidyFacts DEF MembersMatch
  <1>4. Alive(items)' = Alive(items) /\ \A k \in Alive(items) : items'[k] = items[k]
    BY <1>1, TidyFacts DEF Alive, Present
  <1>5. UNCHANGED MemoryLive
    BY <1>4 DEF MemoryLive
  <1>6. QED
    BY <1>1, <1>2, <1>3, <1>5 DEF MemoryInvariant

(* A key is set over a tidied store. *)
LEMMA EntryStored ==
  ASSUME MemoryInvariant, NEW i, NEW m, Tidied(i, m), NEW k \in CacheKeys, NEW e \in MemoryItem, NEW n \in Nat, NEW r,
         Finish([i EXCEPT ![k] = e], [m EXCEPT ![k] = n], r), e.val # NoValue, clock < e.exp,
         NsOf[k] # NoNs => n = e.exp, NsOf[k] = NoNs => n = 0,
         i[k].val # NoValue \/ Cardinality(Present(i)) < StoreLimit,
         NsOf[k] # NoNs => m[k] # 0 \/ Cardinality(Members(m, NsOf[k])) < Quota[NsOf[k]]
  PROVE  MemoryInvariant' /\ MemoryLive' = [MemoryLive EXCEPT ![k] = e.val] /\ reply' = r
  <1>1. items' = [i EXCEPT ![k] = e] /\ members' = [m EXCEPT ![k] = n] /\ reply' = r /\ clock' = clock
    BY DEF Finish
  <1>2. /\ items' \in [CacheKeys -> MemoryItem] /\ members' \in [CacheKeys -> Nat]
        /\ items'[k] = e /\ members'[k] = n
        /\ \A j \in CacheKeys \ {k} : items'[j] = i[j] /\ members'[j] = m[j]
    BY <1>1, TidyFacts
  <1>3. MemoryTypeOK'
    <2>1. Cardinality(Present(items')) <= StoreLimit
      <3>1. Present(items') = Present(i) \cup {k} /\ Present(i) \in SUBSET CacheKeys /\ Present(items) \in SUBSET CacheKeys
        BY <1>2, TidyFacts DEF Present
      <3>2. CASE i[k].val # NoValue
        <4>1. Present(items') = Present(i)
          BY <3>1, <3>2 DEF Present
        <4>2. QED
          BY <3>1, <4>1, TidyFacts, KeysCount, MemoryTyped, CacheConstants
      <3>3. CASE Cardinality(Present(i)) < StoreLimit
        <4>1. Cardinality(Present(i) \cup {k}) <= Cardinality(Present(i)) + 1 /\ Cardinality(Present(i)) \in Nat
          BY <3>1, KeysCount
        <4>2. Present(items') \in SUBSET CacheKeys
          BY DEF Present
        <4>3. QED
          BY <3>1, <3>3, <4>1, <4>2, KeysCount, CacheConstants
      <3>4. QED
        BY <3>2, <3>3
    <2>2. ASSUME NEW ns \in Namespaces PROVE Cardinality(Members(members', ns)) <= Quota[ns]
      <3>1. Members(m, ns) \in SUBSET CacheKeys /\ Members(members, ns) \in SUBSET CacheKeys /\ Members(members', ns) \in SUBSET CacheKeys
        BY DEF Members
      <3>2. Quota[ns] \in Nat /\ Cardinality(Members(m, ns)) <= Quota[ns] /\ Cardinality(Members(m, ns)) \in Nat
        <4>1. Members(m, ns) \subseteq Members(members, ns) /\ Quota[ns] \in Nat
          BY TidyFacts, CacheConstants
        <4>2. Cardinality(Members(m, ns)) <= Cardinality(Members(members, ns)) /\ Cardinality(Members(m, ns)) \in Nat
              /\ Cardinality(Members(members, ns)) \in Nat
          BY <3>1, <4>1, KeysCount
        <4>3. QED
          BY <4>1, <4>2, MemoryTyped
      <3>3. CASE NsOf[k] = ns /\ m[k] = 0
        <4>1. Members(members', ns) \subseteq Members(m, ns) \cup {k}
          BY <1>2 DEF Members
        <4>2. Cardinality(Members(members', ns)) <= Cardinality(Members(m, ns) \cup {k}) /\ Members(m, ns) \cup {k} \in SUBSET CacheKeys
          BY <3>1, <4>1, KeysCount
        <4>3. Cardinality(Members(m, ns) \cup {k}) <= Cardinality(Members(m, ns)) + 1
          BY <3>1, KeysCount
        <4>4. Cardinality(Members(m, ns)) < Quota[ns]
          BY <3>3, CacheConstants
        <4>5. Cardinality(Members(members', ns)) \in Nat /\ Cardinality(Members(m, ns) \cup {k}) \in Nat
          BY <3>1, <4>2, KeysCount
        <4>6. QED
          BY <3>2, <4>2, <4>3, <4>4, <4>5
      <3>4. CASE ~(NsOf[k] = ns /\ m[k] = 0)
        <4>1. Members(members', ns) \subseteq Members(m, ns)
          BY <1>2, <3>4 DEF Members
        <4>2. Cardinality(Members(members', ns)) <= Cardinality(Members(m, ns)) /\ Cardinality(Members(members', ns)) \in Nat
          BY <3>1, <4>1, KeysCount
        <4>3. QED
          BY <3>2, <4>2
      <3>5. QED
        BY <3>3, <3>4
    <2>3. QED
      BY <1>1, <1>2, <2>1, <2>2, MemoryTyped DEF MemoryTypeOK, MemoryItem, Members, Present
  <1>4. MembersMatch'
    BY <1>2, TidyFacts DEF MembersMatch
  <1>5. MemoryLive' = [MemoryLive EXCEPT ![k] = e.val]
    <2>1. ASSUME NEW j \in CacheKeys
          PROVE  (IF j \in Alive(items)' THEN items'[j].val ELSE NoValue) = IF j = k THEN e.val ELSE MemoryLive[j]
      <3>1. j \in Alive(items)' <=> items'[j].val # NoValue /\ clock < items'[j].exp
        BY <1>1 DEF Alive, Present
      <3>2. j \in Alive(i) <=> i[j].val # NoValue /\ clock < i[j].exp
        BY DEF Alive, Present
      <3>3. CASE j = k
        BY <1>2, <3>1, <3>3
      <3>4. CASE j # k
        <4>1. j \in Alive(items)' <=> j \in Alive(items)
          BY <1>2, <3>1, <3>2, <3>4, TidyFacts
        <4>2. j \in Alive(items) => items'[j] = items[j]
          BY <1>2, <3>4, TidyFacts
        <4>3. QED
          BY <3>4, <4>1, <4>2 DEF MemoryLive
      <3>5. QED
        BY <3>3, <3>4
    <2>2. QED
      BY <2>1 DEF MemoryLive
  <1>6. QED
    BY <1>1, <1>3, <1>4, <1>5 DEF MemoryInvariant

(* A key is removed, whatever it held. *)
LEMMA EntryRemoved ==
  ASSUME MemoryInvariant, NEW k \in CacheKeys, NEW r,
         Finish(Without(items, {k}, NoItem), Without(members, {k}, 0), r)
  PROVE  MemoryInvariant' /\ MemoryLive' = [MemoryLive EXCEPT ![k] = NoValue] /\ reply' = r
  <1>1. /\ items' = [j \in CacheKeys |-> IF j = k THEN NoItem ELSE items[j]]
        /\ members' = [j \in CacheKeys |-> IF j = k THEN 0 ELSE members[j]]
        /\ reply' = r /\ clock' = clock
    BY DEF Finish, Without
  <1>2. MemoryTypeOK'
    <2>1. items' \in [CacheKeys -> MemoryItem] /\ members' \in [CacheKeys -> Nat]
      BY <1>1, MemoryTyped
    <2>2. Cardinality(Present(items')) <= StoreLimit
      <3>1. Present(items') \subseteq Present(items) /\ Present(items) \in SUBSET CacheKeys /\ Present(items') \in SUBSET CacheKeys
        BY <1>1, MemoryTyped DEF Present
      <3>2. QED
        BY <3>1, KeysCount, MemoryTyped, CacheConstants
    <2>3. ASSUME NEW n \in Namespaces PROVE Cardinality(Members(members', n)) <= Quota[n]
      <3>1. Members(members', n) \subseteq Members(members, n) /\ Members(members, n) \in SUBSET CacheKeys
            /\ Members(members', n) \in SUBSET CacheKeys
        BY <1>1 DEF Members
      <3>2. QED
        BY <3>1, KeysCount, MemoryTyped, CacheConstants
    <2>4. QED
      BY <1>1, <2>1, <2>2, <2>3, MemoryTyped DEF MemoryTypeOK, MemoryItem, Members
  <1>3. MembersMatch'
    BY <1>1, MemoryTyped DEF MembersMatch
  <1>4. MemoryLive' = [MemoryLive EXCEPT ![k] = NoValue]
    <2>1. ASSUME NEW j \in CacheKeys
          PROVE  (IF j \in Alive(items)' THEN items'[j].val ELSE NoValue) = IF j = k THEN NoValue ELSE MemoryLive[j]
      BY <1>1, MemoryTyped DEF Alive, Present, MemoryLive
    <2>2. QED
      BY <2>1 DEF MemoryLive
  <1>5. QED
    BY <1>1, <1>2, <1>3, <1>4 DEF MemoryInvariant

LEMMA DeadRemoved ==
  ASSUME MemoryInvariant, NEW k \in CacheKeys, k \notin Alive(items)
  PROVE  [MemoryLive EXCEPT ![k] = NoValue] = MemoryLive
  BY DEF MemoryLive

LEMMA Untouched == MemoryInvariant => Tidied(items, members)
  BY MemoryTyped DEF Tidied

LEMMA LiveValue ==
  ASSUME MemoryInvariant, NEW k \in CacheKeys
  PROVE  /\ k \in Alive(items) <=> MemoryLive[k] # NoValue
         /\ k \in Alive(items) => MemoryLive[k] = items[k].val
         /\ k \in Alive(items) <=> items[k].val # NoValue /\ clock < items[k].exp
  BY DEF MemoryLive, Alive, Present

(* The abstract store counts as this one does. *)
LEMMA MemorySameCount == \A S : Abstract!Cardinality(S) = Cardinality(S)
  BY DEF Abstract!Cardinality, Cardinality

(* The plain operations. *)
LEMMA MemoryGets ==
  ASSUME MemoryInvariant, NEW k \in CacheKeys, MemoryGet(k)
  PROVE  MemoryInvariant' /\ Abstract!Fetch(k)
  <1>1. CASE k \in Alive(items)
    <2>1. MemoryInvariant' /\ UNCHANGED MemoryLive /\ reply' = <<"value", k, items[k].val>>
      BY <1>1, Untouched, TidyIsUnseen DEF MemoryGet
    <2>2. QED
      BY <1>1, <2>1, LiveValue DEF Abstract!Fetch
  <1>2. CASE k \notin Alive(items)
    <2>1. MemoryInvariant' /\ UNCHANGED MemoryLive /\ reply' = <<"value", k, NoValue>>
      BY <1>2, EntryRemoved, DeadRemoved DEF MemoryGet
    <2>2. QED
      BY <1>2, <2>1, LiveValue DEF Abstract!Fetch
  <1>3. QED
    BY <1>1, <1>2

LEMMA MemoryDeletes ==
  ASSUME MemoryInvariant, NEW k \in CacheKeys, MemoryDelete(k)
  PROVE  MemoryInvariant' /\ Abstract!Drop(k)
  BY EntryRemoved DEF MemoryDelete, Abstract!Drop

LEMMA MemoryConsumes ==
  ASSUME MemoryInvariant, NEW k \in CacheKeys, MemoryConsume(k)
  PROVE  MemoryInvariant' /\ Abstract!Consume(k)
  <1>1. MemoryLive[k] = IF k \in Alive(items) THEN items[k].val ELSE NoValue
    BY DEF MemoryLive
  <1>2. QED
    BY <1>1, EntryRemoved DEF MemoryConsume, Abstract!Consume

LEMMA MemoryCompares ==
  ASSUME MemoryInvariant, NEW k \in CacheKeys, NEW old \in CacheValues, NEW new \in CacheValues \cup {NoValue},
         MemoryCompare(k, old, new)
  PROVE  MemoryInvariant' /\ Abstract!CompareAndPut(k, old, new)
  <1> DEFINE alive == k \in Alive(items)
             equal == alive /\ items[k].val = old
             gone == ~alive \/ (equal /\ new = NoValue)
             r == <<"compared", k, equal>>
  <1>1. /\ gone => Finish(Without(items, {k}, NoItem), Without(members, {k}, 0), r)
        /\ ~gone /\ equal => Finish([items EXCEPT ![k].val = new], members, r)
        /\ ~gone /\ ~equal => Finish(items, members, r)
    BY DEF MemoryCompare
  <1>2. equal <=> MemoryLive[k] = old
    BY LiveValue, CacheConstants
  <1>3. CASE gone
    <2>1. MemoryInvariant' /\ MemoryLive' = [MemoryLive EXCEPT ![k] = NoValue] /\ reply' = r
      BY <1>1, <1>3, EntryRemoved
    <2>2. CASE equal /\ new = NoValue
      BY <1>2, <2>1, <2>2 DEF Abstract!CompareAndPut
    <2>3. CASE ~alive
      BY <1>2, <2>1, <2>3, DeadRemoved DEF Abstract!CompareAndPut
    <2>4. QED
      BY <1>3, <2>2, <2>3
  <1>4. CASE ~gone /\ ~equal
    <2>1. MemoryInvariant' /\ UNCHANGED MemoryLive /\ reply' = r
      BY <1>1, <1>4, Untouched, TidyIsUnseen
    <2>2. QED
      BY <1>2, <1>4, <2>1 DEF Abstract!CompareAndPut
  <1>5. CASE ~gone /\ equal
    <2> DEFINE e == [items[k] EXCEPT !.val = new]
    <2>1. e \in MemoryItem /\ e.val = new /\ e.exp = items[k].exp /\ new # NoValue
      BY <1>5, MemoryTyped DEF MemoryItem
    <2>2. [items EXCEPT ![k].val = new] = [items EXCEPT ![k] = e] /\ members = [members EXCEPT ![k] = members[k]]
          /\ members[k] \in Nat
      BY MemoryTyped
    <2>3. Finish([items EXCEPT ![k] = e], [members EXCEPT ![k] = members[k]], r)
      BY <1>1, <1>5, <2>2
    <2>4. /\ items[k].val # NoValue /\ clock < items[k].exp
          /\ NsOf[k] # NoNs => members[k] = items[k].exp /\ members[k] # 0
          /\ NsOf[k] = NoNs => members[k] = 0
      BY <1>5, LiveValue, MemoryTyped DEF MemoryItem
    <2> HIDE DEF e, r
    <2>5. MemoryInvariant' /\ MemoryLive' = [MemoryLive EXCEPT ![k] = new] /\ reply' = r
      BY <2>1, <2>2, <2>3, <2>4, Untouched, EntryStored
    <2>6. QED
      BY <1>2, <1>5, <2>5 DEF Abstract!CompareAndPut, r
  <1>6. QED
    BY <1>3, <1>4, <1>5

LEMMA MemoryEntry ==
  ASSUME MemoryInvariant, NEW v \in CacheValues, NEW ttl \in TTLs
  PROVE  /\ [val |-> v, exp |-> clock + ttl] \in MemoryItem /\ v # NoValue
         /\ clock < clock + ttl /\ clock + ttl \in Nat /\ clock + ttl # 0
  BY MemoryTyped, MemoryConstants, CacheConstants DEF MemoryItem

(* Dead entries and dead members go together, or the members alone. *)
LEMMA WithoutTidies ==
  ASSUME MemoryInvariant, NEW i, NEW m, Tidied(i, m), NEW gone \in SUBSET CacheKeys, NEW unlisted \in SUBSET CacheKeys,
         gone \cap Alive(items) = {}, unlisted \cap Present(Without(i, gone, NoItem)) = {}
  PROVE  Tidied(Without(i, gone, NoItem), Without(m, unlisted, 0))
  <1>1. /\ \A k \in CacheKeys : Without(i, gone, NoItem)[k] = IF k \in gone THEN NoItem ELSE i[k]
        /\ \A k \in CacheKeys : Without(m, unlisted, 0)[k] = IF k \in unlisted THEN 0 ELSE m[k]
        /\ DOMAIN Without(i, gone, NoItem) = CacheKeys
        /\ Without(i, gone, NoItem) = [k \in CacheKeys |-> Without(i, gone, NoItem)[k]]
        /\ Without(m, unlisted, 0) = [k \in CacheKeys |-> Without(m, unlisted, 0)[k]]
    BY DEF Without
  <1>2. ASSUME NEW k \in CacheKeys
        PROVE  /\ Without(i, gone, NoItem)[k] = items[k] \/ (Without(i, gone, NoItem)[k] = NoItem /\ k \notin Alive(items))
               /\ \/ Without(m, unlisted, 0)[k] = members[k]
                  \/ Without(m, unlisted, 0)[k] = 0 /\ Without(i, gone, NoItem)[k].val = NoValue
    <2>1. k \in unlisted => Without(i, gone, NoItem)[k].val = NoValue
      BY DEF Present
    <2>2. k \in gone => k \notin Alive(items)
      OBVIOUS
    <2>3. QED
      BY <1>1, <2>1, <2>2, MemoryTyped DEF Tidied
  <1>3. QED
    BY <1>1, <1>2 DEF Tidied

LEMMA MemorySets ==
  ASSUME MemoryInvariant, NEW k \in CacheKeys, NEW v \in CacheValues, NEW ttl \in TTLs, MemorySet(k, v, ttl)
  PROVE  MemoryInvariant' /\ (Abstract!Put(k, v) \/ Abstract!Refuse(k))
  <1> DEFINE crowded == k \notin Present(items) /\ Cardinality(Present(items)) >= StoreLimit
             gone == IF crowded THEN Expired(items) ELSE {}
             i == Without(items, gone, NoItem)
             m == Without(members, gone, 0)
             e == [val |-> v, exp |-> clock + ttl]
  <1>1. /\ NsOf[k] = NoNs
        /\ IF crowded /\ Cardinality(Present(i)) >= StoreLimit
           THEN Finish(i, m, <<"capacity", k>>) ELSE Finish([i EXCEPT ![k] = e], m, <<"stored", k>>)
    BY DEF MemorySet
  <1>2. gone \in SUBSET CacheKeys /\ gone \cap Alive(items) = {} /\ gone \cap Present(i) = {}
    BY MemoryTyped DEF Expired, Present, Without
  <1>3. crowded => Present(i) = Alive(items)
    BY MemoryTyped DEF Expired, Present, Alive, Without
  <1>4. ~crowded => i = items
    BY MemoryTyped DEF Without
  <1> HIDE DEF gone
  <1>5. Tidied(i, m)
    BY <1>2, Untouched, WithoutTidies
  <1>6. Alive(items) \in SUBSET CacheKeys /\ Present(items) \in SUBSET CacheKeys
    BY DEF Alive, Present
  <1>7. /\ Cardinality(Alive(items)) <= Cardinality(Present(items))
        /\ Cardinality(Alive(items)) \in Nat /\ Cardinality(Present(items)) \in Nat /\ StoreLimit \in Nat
    <2>1. Alive(items) \subseteq Present(items)
      BY DEF Alive
    <2>2. QED
      BY <1>6, <2>1, KeysCount, CacheConstants
  <1> HIDE DEF i, m
  <1>8. Abstract!Held(CacheKeys) = Alive(items)
    BY <1>6, LiveValue DEF Abstract!Held
  <1>9. Abstract!HasRoom(k) <=> k \in Alive(items) \/ Cardinality(Alive(items)) < StoreLimit
    BY <1>1, <1>8, LiveValue, MemorySameCount DEF Abstract!HasRoom
  <1>10. CASE crowded /\ Cardinality(Present(i)) >= StoreLimit
    <2>1. MemoryInvariant' /\ UNCHANGED MemoryLive /\ reply' = <<"capacity", k>>
      BY <1>1, <1>5, <1>10, TidyIsUnseen
    <2>2. ~Abstract!HasRoom(k)
      <3>1. k \notin Alive(items)
        BY <1>10 DEF Alive
      <3>2. Cardinality(Alive(items)) >= StoreLimit
        BY <1>3, <1>10
      <3> HIDE DEF crowded
      <3>3. QED
        BY <1>7, <1>9, <3>1, <3>2
    <2>3. QED
      BY <2>1, <2>2 DEF Abstract!Refuse
  <1>11. CASE ~(crowded /\ Cardinality(Present(i)) >= StoreLimit)
    <2>1. m = [m EXCEPT ![k] = 0] /\ m \in [CacheKeys -> Nat]
      BY <1>1, <1>5, TidyFacts
    <2>2. e \in MemoryItem /\ e.val = v /\ v # NoValue /\ clock < e.exp
      BY MemoryEntry
    <2>3. i[k].val # NoValue \/ Cardinality(Present(i)) < StoreLimit
      <3>1. CASE crowded
        <4>1. Cardinality(Present(i)) \in Nat
          BY <1>3, <1>7, <3>1
        <4>2. QED
          BY <1>7, <1>11, <3>1, <4>1
      <3>2. CASE ~crowded
        BY <1>4, <1>7, <3>2 DEF Present
      <3>3. QED
        BY <3>1, <3>2
    <2>4. Finish([i EXCEPT ![k] = e], [m EXCEPT ![k] = 0], <<"stored", k>>)
      BY <1>1, <1>11, <2>1
    <2> HIDE DEF e
    <2>5. MemoryInvariant' /\ MemoryLive' = [MemoryLive EXCEPT ![k] = v] /\ reply' = <<"stored", k>>
      BY <1>1, <1>5, <2>2, <2>3, <2>4, EntryStored
    <2>6. Abstract!HasRoom(k)
      <3>1. CASE crowded
        BY <1>3, <1>7, <1>9, <1>11, <3>1
      <3>2. CASE ~crowded /\ k \notin Present(items)
        BY <1>7, <1>9, <3>2
      <3>3. CASE ~crowded /\ k \in Present(items) /\ k \notin Alive(items)
        <4>1. Cardinality(Alive(items) \cup {k}) <= Cardinality(Present(items)) /\ Cardinality(Present(items)) <= StoreLimit
          <5>1. Alive(items) \cup {k} \subseteq Present(items)
            BY <3>3 DEF Alive
          <5>2. Alive(items) \cup {k} \in SUBSET CacheKeys
            BY <1>6
          <5>3. QED
            BY <1>6, <5>1, <5>2, KeysCount, MemoryTyped
        <4>2. Cardinality(Alive(items) \cup {k}) = Cardinality(Alive(items)) + 1
          BY <1>6, <3>3, KeysCount, FS_AddElement
        <4>3. QED
          BY <1>7, <1>9, <4>1, <4>2
      <3>4. CASE k \in Alive(items)
        BY <1>9, <3>4
      <3>5. QED
        BY <3>1, <3>2, <3>3, <3>4
    <2>7. QED
      BY <2>5, <2>6 DEF Abstract!Put
  <1>12. QED
    BY <1>10, <1>11

(* A namespace. *)
LEMMA NamespacePruned ==
  ASSUME MemoryInvariant, NEW k \in CacheKeys, NsOf[k] # NoNs
  PROVE  /\ Tidied(Pruned(k).i, Pruned(k).m)
         /\ Listed(Pruned(k).m, k) = Members(Pruned(k).m, NsOf[k])
         /\ Listed(Pruned(k).m, k) = Alive(items) \cap Peers(k)
         /\ Pruned(k).m[k] # 0 <=> k \in Alive(items)
  <1> DEFINE gone == Stale(k) \cap Expired(items)
             i == Without(items, gone, NoItem)
             m == Without(members, Stale(k), 0)
  <1>1. Stale(k) \in SUBSET CacheKeys /\ gone \in SUBSET CacheKeys /\ gone \cap Alive(items) = {}
    BY DEF Stale, Listed, Peers, Expired
  <1>2. \A j \in Peers(k) : j \in CacheKeys /\ NsOf[j] = NsOf[k] /\ NsOf[j] # NoNs
    BY DEF Peers
  <1>3. \A j \in Peers(k) : j \in Alive(items) => members[j] = items[j].exp /\ clock < members[j] /\ members[j] # 0
    BY <1>2, LiveValue, MemoryTyped
  <1>4. \A j \in Stale(k) : j \notin Alive(items) /\ j \in Peers(k)
    BY <1>3, MemoryTyped DEF Stale, Listed, Peers
  <1>5. Stale(k) \cap Present(i) = {}
    BY <1>1, <1>4, MemoryTyped DEF Present, Without, Expired
  <1>6. Pruned(k).i = i /\ Pruned(k).m = m
    BY DEF Pruned
  <1>7. Tidied(i, m)
    <2> HIDE DEF gone
    <2>1. QED
      BY <1>1, <1>5, Untouched, WithoutTidies
  <1>8. \A j \in CacheKeys : m[j] = IF j \in Stale(k) THEN 0 ELSE members[j]
    BY DEF Without
  <1>9. ASSUME NEW j \in Peers(k) PROVE m[j] # 0 <=> j \in Alive(items)
    <2>1. j \in Stale(k) <=> members[j] # 0 /\ (clock >= members[j] \/ j \notin Alive(items))
      BY DEF Stale, Listed
    <2>2. QED
      BY <1>2, <1>3, <1>4, <1>8, <2>1
  <1>10. Listed(m, k) = Members(m, NsOf[k])
    BY DEF Listed, Members, Peers
  <1>11. Listed(m, k) = Alive(items) \cap Peers(k)
    BY <1>9 DEF Listed
  <1>12. k \in Peers(k)
    BY DEF Peers
  <1> HIDE DEF i, m
  <1>13. QED
    BY <1>6, <1>7, <1>9, <1>10, <1>11, <1>12

LEMMA NamespaceCleared ==
  ASSUME MemoryInvariant, NEW k \in CacheKeys, NsOf[k] # NoNs
  PROVE  /\ Tidied(Cleared(k).i, Cleared(k).m)
         /\ Cleared(k).m = Pruned(k).m
         /\ k \notin Alive(items) => k \notin Present(Cleared(k).i)
  <1> DEFINE gone == {k} \ Alive(items)
             i == Without(Pruned(k).i, gone, NoItem)
  <1>1. Cleared(k).i = i /\ Cleared(k).m = Pruned(k).m
    BY DEF Cleared
  <1>2. gone \in SUBSET CacheKeys /\ gone \cap Alive(items) = {} /\ {} \in SUBSET CacheKeys /\ {} \cap Present(i) = {}
    OBVIOUS
  <1>3. Tidied(Pruned(k).i, Pruned(k).m)
    BY NamespacePruned
  <1>4. Pruned(k).m = Without(Pruned(k).m, {}, 0)
    BY <1>3 DEF Tidied, Without
  <1>5. Tidied(i, Without(Pruned(k).m, {}, 0))
    <2> HIDE DEF gone
    <2>1. QED
      BY <1>2, <1>3, WithoutTidies
  <1>6. k \notin Alive(items) => k \notin Present(i)
    BY MemoryTyped DEF Present, Without
  <1> HIDE DEF i
  <1>7. QED
    BY <1>1, <1>4, <1>5, <1>6

LEMMA NamespaceSwept ==
  ASSUME MemoryInvariant, NEW k \in CacheKeys, NsOf[k] # NoNs
  PROVE  /\ Tidied(Swept(k).i, Swept(k).m)
         /\ \A j \in Alive(items) : Swept(k).m[j] = members[j]
         /\ Members(Swept(k).m, NsOf[k]) \subseteq Members(Pruned(k).m, NsOf[k])
         /\ k \notin Alive(items) => k \notin Present(Swept(k).i)
         /\ Crowded(k) => Present(Swept(k).i) = Alive(items)
         /\ ~Crowded(k) => Swept(k).i = Cleared(k).i
  <1> DEFINE gone == IF Crowded(k) THEN Expired(Cleared(k).i) ELSE {}
             ci == Cleared(k).i
             cm == Cleared(k).m
             i == Without(ci, gone, NoItem)
             m == Without(cm, gone, 0)
  <1>1. Swept(k).i = i /\ Swept(k).m = m
    BY DEF Swept
  <1>2. Tidied(ci, cm) /\ cm = Pruned(k).m /\ (k \notin Alive(items) => k \notin Present(ci))
    BY NamespaceCleared
  <1>3. Alive(ci) = Alive(items) /\ ci \in [CacheKeys -> MemoryItem] /\ cm \in [CacheKeys -> Nat]
    BY <1>2, TidyFacts
  <1> HIDE DEF ci, cm
  <1>4. gone \in SUBSET CacheKeys /\ gone \cap Alive(items) = {} /\ gone \cap Present(i) = {}
    <2>1. Expired(ci) \subseteq CacheKeys /\ Expired(ci) \cap Alive(items) = {}
      BY <1>3 DEF Expired, Present
    <2>2. gone = (IF Crowded(k) THEN Expired(ci) ELSE {})
      BY DEF ci
    <2>3. QED
      BY <2>1, <2>2, MemoryTyped DEF Present, Without
  <1>5. Crowded(k) => Present(i) = Alive(items)
    <2>1. SUFFICES ASSUME Crowded(k) PROVE Present(i) = Alive(items)
      OBVIOUS
    <2>2. gone = Expired(ci)
      BY <2>1 DEF ci
    <2>3. Alive(ci) \subseteq Present(ci) /\ Present(ci) \subseteq CacheKeys
      BY DEF Alive, Present
    <2>4. Present(i) = Present(ci) \ Expired(ci)
      BY <2>2, MemoryTyped DEF Present, Without
    <2>5. QED
      BY <1>3, <2>3, <2>4 DEF Expired
  <1>6. ~Crowded(k) => i = ci
    BY <1>3 DEF Without
  <1>7. /\ \A j \in CacheKeys : m[j] = cm[j] \/ m[j] = 0
        /\ k \notin Present(ci) => k \notin Present(i)
    BY MemoryTyped DEF Without, Present
  <1> HIDE DEF gone
  <1>8. Tidied(i, m)
    BY <1>2, <1>4, WithoutTidies
  <1> HIDE DEF i, m
  <1>9. Members(m, NsOf[k]) \subseteq Members(Pruned(k).m, NsOf[k])
    BY <1>2, <1>7 DEF Members
  <1>10. \A j \in Alive(items) : m[j] = members[j]
    BY <1>8, TidyFacts
  <1>11. QED
    BY <1>1, <1>2, <1>5, <1>6, <1>7, <1>8, <1>9, <1>10 DEF ci

(* A namespace, and the store, are full of live entries when they refuse a key. *)
LEMMA NamespaceRoom ==
  ASSUME MemoryInvariant, NEW k \in CacheKeys, NsOf[k] # NoNs
  PROVE  Abstract!HasRoom(k) <=> HasPlace(k) /\ StoreHasPlace(k)
  <1> DEFINE A == Alive(items)  P == Present(Swept(k).i)
  <1>1. A \in SUBSET CacheKeys /\ P \in SUBSET CacheKeys /\ Present(Cleared(k).i) \in SUBSET CacheKeys
        /\ A \subseteq P /\ A \cap Peers(k) \in SUBSET CacheKeys
    BY NamespaceSwept, TidyFacts DEF Alive, Present
  <1>2. /\ Cardinality(A) <= Cardinality(P) /\ Cardinality(A) \in Nat /\ Cardinality(P) \in Nat
        /\ Cardinality(A \cap Peers(k)) \in Nat /\ Cardinality(Present(Cleared(k).i)) \in Nat
    BY <1>1, KeysCount
  <1>3. StoreLimit \in Nat /\ Quota[NsOf[k]] \in Nat
    BY CacheConstants
  <1>4. Abstract!Held(CacheKeys) = A /\ Abstract!Held(Abstract!Peers(k)) = A \cap Peers(k)
    BY <1>1, LiveValue DEF Abstract!Held, Abstract!Peers, Peers
  <1>5. Abstract!HasRoom(k) <=> \/ k \in A
                                \/ Cardinality(A \cap Peers(k)) < Quota[NsOf[k]] /\ Cardinality(A) < StoreLimit
    BY <1>4, LiveValue, MemorySameCount DEF Abstract!HasRoom
  <1>6. HasPlace(k) <=> k \in A \/ Cardinality(A \cap Peers(k)) < Quota[NsOf[k]]
    BY NamespacePruned DEF HasPlace
  <1>7. k \notin A => (Cardinality(P) < StoreLimit <=> Cardinality(A) < StoreLimit)
    <2>1. CASE Crowded(k)
      BY <2>1, NamespaceSwept
    <2>2. CASE ~Crowded(k) /\ k \notin A
      <3>1. Cardinality(P) < StoreLimit
        BY <1>2, <1>3, <2>2, NamespaceSwept DEF Crowded
      <3>2. QED
        BY <1>2, <1>3, <3>1
    <2>3. QED
      BY <2>1, <2>2
  <1>8. StoreHasPlace(k) <=> k \in A \/ Cardinality(P) < StoreLimit
    BY DEF StoreHasPlace
  <1> HIDE DEF A, P
  <1>9. QED
    BY <1>5, <1>6, <1>7, <1>8

LEMMA NamespaceSets ==
  ASSUME MemoryInvariant, NEW k \in CacheKeys, NEW v \in CacheValues, NEW ttl \in TTLs, NamespaceSet(k, v, ttl)
  PROVE  MemoryInvariant' /\ (Abstract!Put(k, v) \/ Abstract!Refuse(k))
  <1> DEFINE e == [val |-> v, exp |-> clock + ttl]
  <1>1. NsOf[k] # NoNs
    BY DEF NamespaceSet
  <1>2. CASE ~HasPlace(k)
    <2>1. Finish(Cleared(k).i, Cleared(k).m, <<"capacity", k>>)
      BY <1>2 DEF NamespaceSet
    <2>2. MemoryInvariant' /\ UNCHANGED MemoryLive /\ reply' = <<"capacity", k>>
      BY <1>1, <2>1, NamespaceCleared, TidyIsUnseen
    <2>3. QED
      BY <1>1, <1>2, <2>2, NamespaceRoom DEF Abstract!Refuse
  <1>3. CASE HasPlace(k) /\ ~StoreHasPlace(k)
    <2>1. Finish(Swept(k).i, Swept(k).m, <<"capacity", k>>)
      BY <1>3 DEF NamespaceSet
    <2>2. MemoryInvariant' /\ UNCHANGED MemoryLive /\ reply' = <<"capacity", k>>
      BY <1>1, <2>1, NamespaceSwept, TidyIsUnseen
    <2>3. QED
      BY <1>1, <1>3, <2>2, NamespaceRoom DEF Abstract!Refuse
  <1>4. CASE HasPlace(k) /\ StoreHasPlace(k)
    <2>1. Finish([Swept(k).i EXCEPT ![k] = e], [Swept(k).m EXCEPT ![k] = clock + ttl], <<"stored", k>>)
      BY <1>4 DEF NamespaceSet, Enlisted
    <2>2. e \in MemoryItem /\ e.val = v /\ v # NoValue /\ e.exp = clock + ttl /\ clock < e.exp /\ clock + ttl \in Nat
      BY MemoryEntry
    <2>3. Tidied(Swept(k).i, Swept(k).m)
      BY <1>1, NamespaceSwept
    <2>4. Swept(k).i[k].val # NoValue \/ Cardinality(Present(Swept(k).i)) < StoreLimit
      BY <1>4, <2>3, TidyFacts DEF StoreHasPlace
    <2>5. Swept(k).m[k] # 0 \/ Cardinality(Members(Swept(k).m, NsOf[k])) < Quota[NsOf[k]]
      <3>1. CASE k \in Alive(items)
        <4>1. members[k] = items[k].exp /\ clock < items[k].exp /\ items[k].exp \in Nat
          BY <1>1, <3>1, LiveValue, MemoryTyped DEF MemoryItem
        <4>2. members[k] # 0
          BY <4>1, MemoryTyped
        <4>3. QED
          BY <1>1, <3>1, <4>2, NamespaceSwept
      <3>2. CASE k \notin Alive(items)
        <4>1. Cardinality(Members(Pruned(k).m, NsOf[k])) < Quota[NsOf[k]]
          BY <1>1, <1>4, <3>2, NamespacePruned DEF HasPlace
        <4>2. /\ Members(Swept(k).m, NsOf[k]) \in SUBSET CacheKeys /\ Members(Pruned(k).m, NsOf[k]) \in SUBSET CacheKeys
              /\ Quota[NsOf[k]] \in Nat
          BY <1>1, CacheConstants DEF Members
        <4>3. /\ Cardinality(Members(Swept(k).m, NsOf[k])) <= Cardinality(Members(Pruned(k).m, NsOf[k]))
              /\ Cardinality(Members(Swept(k).m, NsOf[k])) \in Nat /\ Cardinality(Members(Pruned(k).m, NsOf[k])) \in Nat
          BY <1>1, <4>2, KeysCount, NamespaceSwept
        <4>4. QED
          BY <4>1, <4>2, <4>3
      <3>3. QED
        BY <3>1, <3>2
    <2> HIDE DEF e
    <2>6. MemoryInvariant' /\ MemoryLive' = [MemoryLive EXCEPT ![k] = v] /\ reply' = <<"stored", k>>
      BY <1>1, <2>1, <2>2, <2>3, <2>4, <2>5, EntryStored
    <2>7. QED
      BY <1>1, <1>4, <2>6, NamespaceRoom DEF Abstract!Put
  <1>5. QED
    BY <1>2, <1>3, <1>4

LEMMA MemoryTicks == MemoryInvariant /\ MemoryTick => MemoryInvariant' /\ Abstract!TimePasses
  <1> SUFFICES ASSUME MemoryInvariant, MemoryTick PROVE MemoryInvariant' /\ Abstract!TimePasses
    OBVIOUS
  <1>1. clock' = clock + 1 /\ clock + 1 \in Nat /\ UNCHANGED <<items, members, reply>>
    BY MemoryTyped DEF MemoryTick
  <1>2. MemoryInvariant'
    BY <1>1 DEF MemoryInvariant, MemoryTypeOK, MembersMatch, Present
  <1> DEFINE gone == {k \in CacheKeys : items[k].exp <= clock + 1}
  <1>3. ASSUME NEW k \in CacheKeys
        PROVE  (IF k \in Alive(items)' THEN items'[k].val ELSE NoValue) = IF k \in gone THEN NoValue ELSE MemoryLive[k]
    <2>1. k \in Alive(items)' <=> items[k].val # NoValue /\ clock + 1 < items[k].exp
      BY <1>1 DEF Alive, Present
    <2>2. items[k].exp \in Nat
      BY MemoryTyped DEF MemoryItem
    <2>3. QED
      BY <1>1, <2>1, <2>2, LiveValue, MemoryTyped DEF MemoryLive
  <1>4. MemoryLive' = [k \in CacheKeys |-> IF k \in gone THEN NoValue ELSE MemoryLive[k]] /\ gone \in SUBSET CacheKeys
    BY <1>3 DEF MemoryLive
  <1> HIDE DEF gone
  <1>5. QED
    BY <1>1, <1>2, <1>4 DEF Abstract!TimePasses

LEMMA MemorySteps ==
  ASSUME MemoryInvariant, [MemoryNext]_memoryVars
  PROVE  MemoryInvariant' /\ [Abstract!CacheNext]_Abstract!cacheVars
  <1>1. CASE UNCHANGED memoryVars
    BY <1>1 DEF memoryVars, MemoryInvariant, MemoryTypeOK, MembersMatch, Present, MemoryLive, Alive, Abstract!cacheVars
  <1>2. CASE MemoryNext
    BY <1>2, MemorySets, NamespaceSets, MemoryGets, MemoryDeletes, MemoryConsumes, MemoryCompares, MemoryTicks
       DEF MemoryNext, Abstract!CacheNext
  <1>3. QED
    BY <1>1, <1>2

(* The memory store keeps the promise of the temporary store: what has expired    *)
(* and is still stored or listed shows neither in an answer nor in a refusal       *)
(* (memory.go and namespace.go), for any keys, quotas, limits and lifetimes.       *)
THEOREM MemoryServes == MemorySpec => MemoryImplementsCache
  <1>1. MemoryInit => Abstract!CacheInit
    BY DEF MemoryInit, Abstract!CacheInit, MemoryLive, Alive, Present, NoItem
  <1>2. QED
    BY <1>1, MemoryBegins, MemorySteps, PTL DEF MemorySpec, MemoryImplementsCache, Abstract!CacheBehaviour

-----------------------------------------------------------------------------
(* ---- the Redis store ---- *)
(* A key that exists has not expired; what a namespace lists beyond its keys has. *)
RedisInvariant ==
  /\ RedisTypeOK
  /\ \A k \in CacheKeys : Exists(k) => serverTime < entries[k].exp
  /\ \A k \in CacheKeys : ~Exists(k) => scores[k] <= serverTime
  /\ \A k \in CacheKeys : NsOf[k] = NoNs => scores[k] = 0
  /\ serverTime \in Nat

RedisEntry == [val : CacheValues \cup {NoValue}, exp : Nat]

LEMMA RedisBegins == RedisInit => RedisInvariant
  BY CacheConstants DEF RedisInit, RedisInvariant, RedisTypeOK, NoEntry, Exists

(* What a script does to one key and to the lists. *)
LEMMA ScriptKeeps ==
  ASSUME RedisInvariant, NEW k \in CacheKeys, NEW e \in RedisEntry, NEW n \in Nat, NEW s, NEW r,
         s \in [CacheKeys -> Nat], Script([entries EXCEPT ![k] = e], s, r),
         \A j \in CacheKeys \ {k} : s[j] = scores[j] \/ (s[j] = 0 /\ scores[j] <= serverTime),
         e.val # NoValue => serverTime < e.exp /\ (NsOf[k] # NoNs => s[k] = e.exp),
         e.val = NoValue => s[k] <= serverTime, NsOf[k] = NoNs => s[k] = 0
  PROVE  RedisInvariant'
  <1>1. entries' = [entries EXCEPT ![k] = e] /\ scores' = s /\ serverTime' = serverTime
    BY DEF Script
  <1>2. entries \in [CacheKeys -> RedisEntry] /\ scores \in [CacheKeys -> Nat] /\ serverTime \in Nat
    BY DEF RedisInvariant, RedisTypeOK, RedisEntry
  <1>3. entries' \in [CacheKeys -> RedisEntry] /\ entries'[k] = e
        /\ \A j \in CacheKeys \ {k} : entries'[j] = entries[j]
    BY <1>1, <1>2
  <1>4. ASSUME NEW j \in CacheKeys
        PROVE  /\ Exists(j)' => serverTime < entries'[j].exp /\ (NsOf[j] # NoNs => scores'[j] = entries'[j].exp)
               /\ ~Exists(j)' => scores'[j] <= serverTime
               /\ NsOf[j] = NoNs => scores'[j] = 0
    <2>1. CASE j = k
      BY <1>1, <1>3, <2>1 DEF Exists
    <2>2. CASE j # k
      <3>1. Exists(j)' = Exists(j) /\ entries'[j] = entries[j]
        BY <1>3, <2>2 DEF Exists
      <3>2. /\ Exists(j) => serverTime < entries[j].exp /\ (NsOf[j] # NoNs => scores[j] = entries[j].exp)
            /\ ~Exists(j) => scores[j] <= serverTime
            /\ NsOf[j] = NoNs => scores[j] = 0
        BY DEF RedisInvariant, RedisTypeOK
      <3>3. s[j] = scores[j] \/ (s[j] = 0 /\ scores[j] <= serverTime)
        BY <2>2
      <3>4. QED
        BY <1>1, <1>2, <3>1, <3>2, <3>3 DEF Exists, RedisEntry
    <2>3. QED
      BY <2>1, <2>2
  <1>5. QED
    BY <1>1, <1>2, <1>3, <1>4 DEF RedisInvariant, RedisTypeOK, RedisEntry


LEMMA RedisTyped ==
  ASSUME RedisInvariant
  PROVE  /\ entries \in [CacheKeys -> RedisEntry] /\ scores \in [CacheKeys -> Nat] /\ serverTime \in Nat
         /\ \A k \in CacheKeys : entries[k] \in RedisEntry /\ entries = [entries EXCEPT ![k] = entries[k]]
  BY DEF RedisInvariant, RedisTypeOK, RedisEntry

LEMMA RedisOne ==
  ASSUME RedisInvariant, NEW k \in CacheKeys
  PROVE  /\ Exists(k) => serverTime < entries[k].exp /\ (NsOf[k] # NoNs => scores[k] = entries[k].exp)
         /\ ~Exists(k) => scores[k] <= serverTime
         /\ NsOf[k] = NoNs => scores[k] = 0
         /\ entries[k].val \in CacheValues \cup {NoValue} /\ entries[k].exp \in Nat /\ scores[k] \in Nat
         /\ Exists(k) <=> entries[k].val # NoValue
  BY DEF RedisInvariant, RedisTypeOK, Exists

LEMMA NewEntry ==
  ASSUME RedisInvariant, NEW k \in CacheKeys, NEW v \in CacheValues, NEW ttl \in RedisTTLs
  PROVE  \E e \in RedisEntry : /\ WithEntry(k, v, ttl) = [entries EXCEPT ![k] = e]
                               /\ e.val = v /\ v # NoValue /\ e.exp = serverTime + ttl
                               /\ serverTime + ttl \in Nat /\ serverTime < serverTime + ttl
  <1>1. serverTime + ttl \in Nat /\ serverTime < serverTime + ttl
    BY RedisConstants DEF RedisInvariant
  <1> DEFINE e == [val |-> v, exp |-> serverTime + ttl]
  <1>2. e \in RedisEntry /\ e.val = v /\ e.exp = serverTime + ttl
    BY <1>1 DEF RedisEntry
  <1>3. v # NoValue
    BY CacheConstants
  <1>4. QED
    BY <1>1, <1>2, <1>3 DEF WithEntry

LEMMA NothingStored ==
  /\ NoEntry \in RedisEntry /\ NoEntry.val = NoValue
  BY DEF NoEntry, RedisEntry

LEMMA RedisSets ==
  ASSUME RedisInvariant, NEW k \in CacheKeys, NEW v \in CacheValues, NEW ttl \in RedisTTLs,
         RedisSet(k, v, ttl) \/ RedisNamespaceSet(k, v, ttl)
  PROVE  RedisInvariant'
  <1>1. PICK e \in RedisEntry : /\ WithEntry(k, v, ttl) = [entries EXCEPT ![k] = e]
                               /\ e.val = v /\ v # NoValue /\ e.exp = serverTime + ttl
                               /\ serverTime + ttl \in Nat /\ serverTime < serverTime + ttl
    BY NewEntry
  <1>2. CASE RedisSet(k, v, ttl)
    <2>1. /\ Script([entries EXCEPT ![k] = e], scores, <<"stored", k>>) /\ NsOf[k] = NoNs
          /\ e.val # NoValue /\ serverTime < e.exp
      BY <1>1, <1>2 DEF RedisSet
    <2>2. QED
      BY <2>1, RedisOne, RedisTyped, ScriptKeeps
  <1> DEFINE s == [InTime(k) EXCEPT ![k] = serverTime + ttl]
  <1>3. InTime(k) \in [CacheKeys -> Nat]
        /\ \A j \in CacheKeys : InTime(k)[j] = scores[j] \/ (InTime(k)[j] = 0 /\ scores[j] <= serverTime)
    BY RedisTyped DEF InTime
  <1>4. s \in [CacheKeys -> Nat] /\ s[k] = serverTime + ttl
        /\ \A j \in CacheKeys \ {k} : s[j] = scores[j] \/ (s[j] = 0 /\ scores[j] <= serverTime)
    BY <1>1, <1>3
  <1>5. CASE Script(entries, InTime(k), <<"capacity", k>>)
    <2>1. Script([entries EXCEPT ![k] = entries[k]], InTime(k), <<"capacity", k>>) /\ entries[k] \in RedisEntry
      BY <1>5, RedisTyped
    <2>2. InTime(k)[k] = scores[k] \/ (InTime(k)[k] = 0 /\ scores[k] <= serverTime)
      BY <1>3
    <2>3. /\ entries[k].val # NoValue => serverTime < entries[k].exp /\ (NsOf[k] # NoNs => InTime(k)[k] = entries[k].exp)
          /\ entries[k].val = NoValue => InTime(k)[k] <= serverTime
          /\ NsOf[k] = NoNs => InTime(k)[k] = 0
      <3>1. 0 <= serverTime
        BY RedisTyped
      <3>2. QED
        BY <2>2, <3>1, RedisOne, RedisTyped
    <2>4. QED
      BY <1>3, <2>1, <2>3, RedisTyped, ScriptKeeps
  <1>6. CASE Script(WithEntry(k, v, ttl), s, <<"stored", k>>) /\ NsOf[k] # NoNs
    <2>1. Script([entries EXCEPT ![k] = e], s, <<"stored", k>>) /\ serverTime < e.exp /\ s[k] = e.exp /\ e.val # NoValue
      BY <1>1, <1>4, <1>6
    <2>2. NsOf[k] # NoNs
      BY <1>6
    <2> HIDE DEF s
    <2>3. QED
      BY <1>4, <2>1, <2>2, RedisTyped, ScriptKeeps
  <1>7. QED
    BY <1>2, <1>5, <1>6 DEF RedisNamespaceSet

LEMMA ZremKeeps ==
  ASSUME RedisInvariant, NEW k \in CacheKeys
  PROVE  /\ Zrem(scores, k) \in [CacheKeys -> Nat] /\ Zrem(scores, k)[k] = 0 /\ 0 <= serverTime
         /\ \A j \in CacheKeys \ {k} : Zrem(scores, k)[j] = scores[j]
  BY RedisTyped DEF Zrem

LEMMA RedisReads ==
  ASSUME RedisInvariant, NEW k \in CacheKeys, RedisGet(k)
  PROVE  RedisInvariant'
  <1> DEFINE s == IF Exists(k) THEN scores ELSE Zrem(scores, k)
  <1>1. Script([entries EXCEPT ![k] = entries[k]], s, <<"value", k, Got(k)>>) /\ entries[k] \in RedisEntry
    BY RedisTyped DEF RedisGet
  <1>2. s \in [CacheKeys -> Nat] /\ (\A j \in CacheKeys \ {k} : s[j] = scores[j])
        /\ (Exists(k) => s[k] = scores[k]) /\ (~Exists(k) => s[k] <= serverTime)
        /\ (NsOf[k] = NoNs => s[k] = 0)
    BY RedisTyped, RedisOne, ZremKeeps
  <1> HIDE DEF s
  <1>3. QED
    BY <1>1, <1>2, RedisOne, ScriptKeeps

LEMMA RedisForgets ==
  ASSUME RedisInvariant, NEW k \in CacheKeys, RedisDelete(k) \/ RedisConsume(k)
  PROVE  RedisInvariant'
  <1> DEFINE s == IF RedisDelete(k) \/ Exists(k) THEN Zrem(scores, k) ELSE scores
  <1>1. PICK r, t : Script([entries EXCEPT ![k] = NoEntry], t, r) /\ t \in {Zrem(scores, k), scores}
                    /\ (t = Zrem(scores, k) \/ ~Exists(k))
    BY DEF RedisDelete, RedisConsume
  <1>2. t \in [CacheKeys -> Nat] /\ (\A j \in CacheKeys \ {k} : t[j] = scores[j]) /\ t[k] <= serverTime
        /\ (NsOf[k] = NoNs => t[k] = 0)
    BY <1>1, RedisTyped, ZremKeeps, RedisOne
  <1>3. QED
    BY <1>1, <1>2, NothingStored, ScriptKeeps

LEMMA RedisCompares ==
  ASSUME RedisInvariant, NEW k \in CacheKeys, NEW old \in CacheValues, NEW new \in CacheValues \cup {NoValue},
         RedisCompare(k, old, new)
  PROVE  RedisInvariant'
  <1> DEFINE equal == Exists(k) /\ Got(k) = old
             removed == equal /\ new = NoValue
             e == IF removed THEN NoEntry ELSE IF equal THEN [entries[k] EXCEPT !.val = new] ELSE entries[k]
             s == IF removed \/ ~Exists(k) THEN Zrem(scores, k) ELSE scores
  <1>1. Script([entries EXCEPT ![k] = e], s, <<"compared", k, equal>>)
    BY RedisTyped DEF RedisCompare
  <1>2. /\ e \in RedisEntry
        /\ e.val # NoValue => Exists(k) /\ ~removed /\ e.exp = entries[k].exp
        /\ e.val = NoValue => removed \/ ~Exists(k)
    BY RedisTyped, RedisOne, NothingStored DEF RedisEntry
  <1>3. /\ s \in [CacheKeys -> Nat] /\ \A j \in CacheKeys \ {k} : s[j] = scores[j]
        /\ removed \/ ~Exists(k) => s[k] <= serverTime
        /\ ~(removed \/ ~Exists(k)) => s[k] = scores[k]
        /\ NsOf[k] = NoNs => s[k] = 0
    BY RedisTyped, RedisOne, ZremKeeps
  <1> HIDE DEF e, s, removed, equal
  <1>4. QED
    BY <1>1, <1>2, <1>3, RedisOne, ScriptKeeps

LEMMA RedisTicks == RedisInvariant /\ RedisTick => RedisInvariant'
  <1> SUFFICES ASSUME RedisInvariant, RedisTick PROVE RedisInvariant'
    OBVIOUS
  <1>1. serverTime' = serverTime + 1 /\ serverTime + 1 \in Nat /\ scores' = scores
    BY RedisTyped DEF RedisTick
  <1>2. entries' \in [CacheKeys -> RedisEntry]
    BY RedisTyped, NothingStored DEF RedisTick
  <1>3. ASSUME NEW j \in CacheKeys
        PROVE  /\ Exists(j)' => serverTime + 1 < entries'[j].exp /\ (NsOf[j] # NoNs => scores[j] = entries'[j].exp)
               /\ ~Exists(j)' => scores[j] <= serverTime + 1
    <2>1. entries'[j] = IF entries[j].exp <= serverTime + 1 THEN NoEntry ELSE entries[j]
      BY DEF RedisTick
    <2>2. QED
      BY <2>1, RedisOne, RedisTyped, NothingStored DEF Exists
  <1>4. QED
    BY <1>1, <1>2, <1>3, RedisTyped DEF RedisInvariant, RedisTypeOK, RedisEntry


LEMMA RedisSteps == RedisInvariant /\ [RedisNext]_redisVars => RedisInvariant'
  <1> SUFFICES ASSUME RedisInvariant, [RedisNext]_redisVars PROVE RedisInvariant'
    OBVIOUS
  <1>1. CASE UNCHANGED redisVars
    BY <1>1 DEF redisVars, RedisInvariant, RedisTypeOK, Exists
  <1>2. CASE RedisNext
    BY <1>2, RedisSets, RedisReads, RedisForgets, RedisCompares, RedisTicks DEF RedisNext
  <1>3. QED
    BY <1>1, <1>2

(* The abstract store counts as this one does. *)
LEMMA RedisSameCount == \A S : Promise!Cardinality(S) = Cardinality(S)
  BY DEF Promise!Cardinality, Cardinality

(* A namespace is full exactly when its keys that exist fill it. *)
LEMMA RedisRoom ==
  ASSUME RedisInvariant, NEW k \in CacheKeys, NsOf[k] # NoNs
  PROVE  QuotaFull(k) <=> ~Promise!HasRoom(k)
  <1>1. \A j \in Peers(k) : InTime(k)[j] # 0 <=> RedisLive[j] # NoValue
    <2>1. ASSUME NEW j \in Peers(k)
          PROVE InTime(k)[j] # 0 <=> RedisLive[j] # NoValue
      <3>1. j \in CacheKeys /\ NsOf[j] # NoNs
        BY DEF Peers
      <3>2. InTime(k)[j] = IF scores[j] <= serverTime THEN 0 ELSE scores[j]
        BY <3>1 DEF InTime
      <3>3. QED
        BY <3>1, <3>2, RedisOne, RedisTyped DEF RedisLive
    <2>2. QED
      BY <2>1
  <1>2. k \in Peers(k) /\ (Exists(k) <=> RedisLive[k] # NoValue)
    BY DEF Peers, RedisLive, Exists
  <1>3. {j \in Peers(k) : InTime(k)[j] # 0} = Promise!Held(Promise!Peers(k))
    BY <1>1 DEF Promise!Held, Promise!Peers, Peers
  <1>4. IsFiniteSet(CacheKeys) /\ Promise!Held(CacheKeys) \subseteq CacheKeys /\ Promise!Held(Peers(k)) \subseteq CacheKeys
    BY CacheConstants DEF Promise!Held, Peers
  <1>5. /\ Cardinality(Promise!Held(CacheKeys)) <= Cardinality(CacheKeys) /\ Cardinality(CacheKeys) \in Nat
        /\ Cardinality(Promise!Held(CacheKeys)) \in Nat /\ Cardinality(Promise!Held(Promise!Peers(k))) \in Nat
    BY <1>4, FS_Subset, FS_CardinalityType DEF Promise!Peers, Peers
  <1>6. Quota[NsOf[k]] \in Nat
    BY CacheConstants
  <1>7. Cardinality(Promise!Held(CacheKeys)) < Cardinality(CacheKeys) + 1
    BY <1>5
  <1>8. QED
    BY <1>1, <1>2, <1>3, <1>5, <1>6, <1>7, RedisSameCount DEF QuotaFull, Promise!HasRoom

LEMMA RedisKeepsPromise ==
  ASSUME RedisInvariant, [RedisNext]_redisVars
  PROVE  [Promise!CacheNext]_Promise!cacheVars
  <1> SUFFICES ASSUME RedisNext PROVE Promise!CacheNext \/ UNCHANGED Promise!cacheVars
    BY DEF redisVars, Promise!cacheVars, RedisLive
  <1>1. ASSUME NEW k \in CacheKeys, NEW e, entries' = [entries EXCEPT ![k] = e]
        PROVE  RedisLive' = [RedisLive EXCEPT ![k] = e.val]
    BY <1>1, RedisTyped DEF RedisLive
  <1>2. ASSUME UNCHANGED entries PROVE UNCHANGED RedisLive
    BY <1>2 DEF RedisLive
  <1>3. ASSUME NEW k \in CacheKeys, NEW v \in CacheValues, NEW ttl \in RedisTTLs, RedisSet(k, v, ttl)
        PROVE  Promise!Put(k, v)
    <2>1. RedisLive' = [RedisLive EXCEPT ![k] = v] /\ redisReply' = <<"stored", k>> /\ NsOf[k] = NoNs
      BY <1>1, <1>3, NewEntry DEF RedisSet, Script
    <2>2. Promise!HasRoom(k)
      <3>1. IsFiniteSet(CacheKeys) /\ Promise!Held(CacheKeys) \subseteq CacheKeys
        BY CacheConstants DEF Promise!Held
      <3>2. Cardinality(Promise!Held(CacheKeys)) < Cardinality(CacheKeys) + 1
        BY <3>1, FS_Subset, FS_CardinalityType
      <3>3. QED
        BY <2>1, <3>2, RedisSameCount DEF Promise!HasRoom
    <2>3. QED
      BY <2>1, <2>2 DEF Promise!Put
  <1>4. ASSUME NEW k \in CacheKeys, NEW v \in CacheValues, NEW ttl \in RedisTTLs, RedisNamespaceSet(k, v, ttl)
        PROVE  Promise!Put(k, v) \/ Promise!Refuse(k)
    <2>1. CASE QuotaFull(k)
      BY <1>2, <1>4, <2>1, RedisRoom DEF RedisNamespaceSet, Script, Promise!Refuse
    <2>2. CASE ~QuotaFull(k)
      <3>1. RedisLive' = [RedisLive EXCEPT ![k] = v] /\ redisReply' = <<"stored", k>>
        BY <1>1, <1>4, <2>2, NewEntry DEF RedisNamespaceSet, Script
      <3>2. QED
        BY <1>4, <2>2, <3>1, RedisRoom DEF RedisNamespaceSet, Promise!Put
    <2>3. QED
      BY <2>1, <2>2
  <1>5. ASSUME NEW k \in CacheKeys, RedisGet(k) PROVE Promise!Fetch(k)
    BY <1>2, <1>5 DEF RedisGet, Script, Got, Promise!Fetch, RedisLive
  <1>6. ASSUME NEW k \in CacheKeys, RedisDelete(k) PROVE Promise!Drop(k)
    BY <1>1, <1>6, NothingStored DEF RedisDelete, Script, Promise!Drop
  <1>7. ASSUME NEW k \in CacheKeys, RedisConsume(k) PROVE Promise!Consume(k)
    <2>1. RedisLive' = [RedisLive EXCEPT ![k] = NoValue]
      BY <1>1, <1>7, NothingStored DEF RedisConsume, Script
    <2>2. QED
      BY <1>7, <2>1 DEF RedisConsume, Script, Got, RedisLive, Promise!Consume
  <1>8. ASSUME NEW k \in CacheKeys, NEW old \in CacheValues, NEW new \in CacheValues \cup {NoValue}, RedisCompare(k, old, new)
        PROVE  Promise!CompareAndPut(k, old, new)
    <2> DEFINE equal == Exists(k) /\ Got(k) = old
    <2>1. equal <=> RedisLive[k] = old
      BY CacheConstants DEF Exists, Got, RedisLive
    <2>2. redisReply' = <<"compared", k, RedisLive[k] = old>>
      BY <1>8, <2>1 DEF RedisCompare, Script
    <2>3. CASE ~equal
      <3>1. UNCHANGED RedisLive
        BY <1>2, <1>8, <2>3 DEF RedisCompare, Script
      <3>2. QED
        BY <2>1, <2>2, <2>3, <3>1 DEF Promise!CompareAndPut
    <2>4. CASE equal
      <3>1. PICK e : e.val = new /\ entries' = [entries EXCEPT ![k] = e]
        <4>1. CASE new = NoValue
          BY <1>8, <2>4, <4>1, NothingStored DEF RedisCompare, Script
        <4>2. CASE new # NoValue
          <5> DEFINE e == [entries[k] EXCEPT !.val = new]
          <5>1. entries' = [entries EXCEPT ![k].val = new]
            BY <1>8, <2>4, <4>2 DEF RedisCompare, Script
          <5>2. e.val = new /\ [entries EXCEPT ![k].val = new] = [entries EXCEPT ![k] = e]
            BY RedisTyped DEF RedisEntry
          <5>3. QED
            BY <5>1, <5>2
        <4>3. QED
          BY <4>1, <4>2
      <3>2. RedisLive' = [RedisLive EXCEPT ![k] = new]
        BY <1>1, <3>1
      <3>3. QED
        BY <2>1, <2>2, <2>4, <3>2 DEF Promise!CompareAndPut
    <2>5. QED
      BY <2>3, <2>4
  <1>9. ASSUME RedisTick PROVE Promise!TimePasses
    <2> DEFINE gone == {k \in CacheKeys : entries[k].exp <= serverTime + 1}
    <2>1. RedisLive' = [k \in CacheKeys |-> IF k \in gone THEN NoValue ELSE RedisLive[k]] /\ UNCHANGED redisReply
      BY <1>9, NothingStored DEF RedisTick, RedisLive
    <2>2. gone \in SUBSET CacheKeys
      OBVIOUS
    <2> HIDE DEF gone
    <2>3. QED
      BY <2>1, <2>2 DEF Promise!TimePasses
  <1>10. QED
    BY <1>3, <1>4, <1>5, <1>6, <1>7, <1>8, <1>9 DEF RedisNext, Promise!CacheNext

(* The Redis store keeps the promise of the temporary store: a namespace looks    *)
(* full exactly when existing keys fill it (namespace.go's scripts), for any keys, *)
(* quotas, lifetimes and interleaving of callers.                                  *)
THEOREM RedisServes == RedisSpec => RedisImplementsCache
  <1>1. RedisInit => Promise!CacheInit
    BY DEF RedisInit, Promise!CacheInit, RedisLive, NoEntry
  <1>2. QED
    BY <1>1, RedisBegins, RedisSteps, RedisKeepsPromise, PTL DEF RedisSpec, RedisImplementsCache, Promise!CacheBehaviour

-----------------------------------------------------------------------------
(* ---- one-time codes ---- *)
-----------------------------------------------------------------------------
(* The atomic specification. *)

AtomicTypeOK ==
    /\ record \in Record \cup {NoRecord}
    /\ issued \in 0..MaxIssues
    /\ lapsed \in BOOLEAN
    /\ used \in [Issues -> [right : Nat, wrong : Nat]]

(* Only the latest issue can still be stored, it was not accepted yet, and *)
(* nothing was counted for issues to come.                                 *)
LatestStored ==
    /\ Stored => record.issue = issued /\ used[issued].right = 0
    /\ \A i \in Issues : i > issued => used[i] = [right |-> 0, wrong |-> 0]

Ledger == AtomicTypeOK /\ LatestStored /\ AcceptedOnce /\ GuessesBounded /\ AttemptsExact

LEMMA LedgerInit == Init => Ledger
  <1> SUFFICES ASSUME Init PROVE Ledger
    OBVIOUS
  <1>1. AtomicTypeOK
    <2>1. lapsed \in BOOLEAN
      BY Zenon DEF Init
    <2>2. issued \in 0..MaxIssues /\ used \in [Issues -> [right : Nat, wrong : Nat]]
      BY CodeAssumption DEF Init
    <2>3. QED
      BY <2>1, <2>2 DEF Init, AtomicTypeOK
  <1>2. LatestStored
    BY DEF Init, LatestStored, Stored
  <1>3. AcceptedOnce /\ GuessesBounded /\ AttemptsExact
    BY CodeAssumption DEF Init, AcceptedOnce, GuessesBounded, AttemptsExact, Stored
  <1>4. QED
    BY <1>1, <1>2, <1>3 DEF Ledger

LEMMA StoredType ==
    ASSUME Ledger, Stored
    PROVE  /\ record \in Record
           /\ record.issue = issued /\ issued \in Issues
           /\ record.attempts \in 0..(MaxAttempts - 1)
           /\ used[issued] \in [right : Nat, wrong : Nat]
           /\ used[issued].right = 0
           /\ used[issued].wrong = record.attempts
  BY DEF Ledger, Stored, AtomicTypeOK, LatestStored, AttemptsExact, Record

LEMMA LedgerIssue ==
    ASSUME Ledger, NEW code \in Codes, Issue(code)
    PROVE  Ledger'
  <1>1. issued + 1 \in Issues /\ issued \in 0..MaxIssues
    BY CodeAssumption DEF Issue, Issues, Ledger, AtomicTypeOK
  <1>2. record' \in Record /\ record'.issue = issued' /\ record'.attempts = 0
    BY <1>1, CodeAssumption DEF Issue, Record
  <1>3. used[issued + 1] = [right |-> 0, wrong |-> 0]
    BY <1>1 DEF Ledger, LatestStored, Issues
  <1>4. AtomicTypeOK'
    <2>1. lapsed' \in BOOLEAN
      BY Zenon DEF Issue
    <2>2. issued' \in 0..MaxIssues /\ used' = used /\ record' \in Record
      BY <1>1, <1>2 DEF Issue, Issues
    <2>3. QED
      BY <2>1, <2>2 DEF AtomicTypeOK, Ledger
  <1>5. LatestStored'
    BY <1>1, <1>2, <1>3 DEF Issue, LatestStored, Ledger, Issues
  <1>6. AttemptsExact'
    BY <1>2, <1>3 DEF Issue, AttemptsExact
  <1>7. AcceptedOnce' /\ GuessesBounded'
    BY DEF Issue, AcceptedOnce, GuessesBounded, Ledger
  <1>8. QED
    BY <1>4, <1>5, <1>6, <1>7 DEF Ledger

LEMMA LedgerDiscard ==
    ASSUME Ledger, Discard \/ Lapse
    PROVE  Ledger'
  BY DEF Discard, Lapse, Stored, Ledger, AtomicTypeOK, LatestStored, AcceptedOnce,
         GuessesBounded, AttemptsExact

LEMMA LedgerAccept ==
    ASSUME Ledger, NEW code \in Codes, Accept(code)
    PROVE  Ledger'
  <1>1. /\ record.issue = issued /\ issued \in Issues
        /\ used[issued] \in [right : Nat, wrong : Nat]
        /\ used[issued].right = 0 /\ used[issued].wrong < MaxAttempts
    BY StoredType, CodeAssumption DEF Accept
  <1> DEFINE entry == OneMore(used[issued], "right")
  <1>2. used' = [used EXCEPT ![issued] = entry]
    BY <1>1 DEF Accept, Count
  <1>3. /\ entry \in [right : Nat, wrong : Nat]
        /\ entry.right = 1 /\ entry.wrong = used[issued].wrong
    BY <1>1 DEF OneMore
  <1> HIDE DEF entry
  <1>4. record' = NoRecord /\ lapsed' = FALSE /\ issued' = issued
    BY DEF Accept
  <1>5. AtomicTypeOK'
    BY <1>1, <1>2, <1>3, <1>4 DEF AtomicTypeOK, Ledger
  <1>6. LatestStored' /\ AttemptsExact'
    BY <1>1, <1>2, <1>4 DEF LatestStored, AttemptsExact, Stored, Ledger, AtomicTypeOK, Issues
  <1>7. AcceptedOnce' /\ GuessesBounded'
    BY <1>1, <1>2, <1>3 DEF AcceptedOnce, GuessesBounded, Ledger, AtomicTypeOK
  <1>8. QED
    BY <1>5, <1>6, <1>7 DEF Ledger

LEMMA LedgerRefuse ==
    ASSUME Ledger, NEW code \in Codes, Refuse(code)
    PROVE  Ledger'
  <1>1. /\ record \in Record
        /\ record.issue = issued /\ issued \in Issues
        /\ record.attempts \in 0..(MaxAttempts - 1)
        /\ used[issued] \in [right : Nat, wrong : Nat]
        /\ used[issued].right = 0 /\ used[issued].wrong = record.attempts
    BY StoredType DEF Refuse
  <1> DEFINE entry == OneMore(used[issued], "wrong")
  <1>2. used' = [used EXCEPT ![issued] = entry] /\ issued' = issued
    BY <1>1 DEF Refuse, Count
  <1>3. /\ entry \in [right : Nat, wrong : Nat]
        /\ entry.right = 0 /\ entry.wrong = record.attempts + 1
    BY <1>1 DEF OneMore
  <1> HIDE DEF entry
  <1>4. \/ /\ record' \in Record /\ record'.issue = issued
           /\ record'.attempts = record.attempts + 1 /\ lapsed' = lapsed
        \/ record' = NoRecord /\ lapsed' = FALSE
    BY <1>1, CodeAssumption DEF Refuse, Record
  <1>5. AtomicTypeOK'
    BY <1>1, <1>2, <1>3, <1>4 DEF AtomicTypeOK, Ledger
  <1>6. used'[issued] = entry
    BY <1>1, <1>2 DEF Ledger, AtomicTypeOK
  <1>7. LatestStored' /\ AttemptsExact'
    BY <1>1, <1>2, <1>3, <1>4, <1>6
       DEF LatestStored, AttemptsExact, Stored, Ledger, AtomicTypeOK, Issues
  <1>8. AcceptedOnce' /\ GuessesBounded'
    BY <1>1, <1>2, <1>3, CodeAssumption DEF AcceptedOnce, GuessesBounded, Ledger, AtomicTypeOK
  <1>9. QED
    BY <1>5, <1>7, <1>8 DEF Ledger

LEMMA LedgerNext == Ledger /\ [Next]_atomicVars => Ledger'
  <1> SUFFICES ASSUME Ledger, [Next]_atomicVars PROVE Ledger'
    OBVIOUS
  <1>1. CASE Next
    BY <1>1, LedgerIssue, LedgerDiscard, LedgerAccept, LedgerRefuse DEF Next
  <1>2. CASE UNCHANGED atomicVars
    BY <1>2 DEF atomicVars, Ledger, AtomicTypeOK, LatestStored, Stored, AcceptedOnce,
                GuessesBounded, AttemptsExact
  <1>3. QED
    BY <1>1, <1>2

THEOREM AtomicLedger == Spec => []Ledger
  BY LedgerInit, LedgerNext, PTL DEF Spec

-----------------------------------------------------------------------------
(* The store implements it.  A verdict waits between Read and Write while  *)
(* others change the record; it fits the record it was reached on, and     *)
(* Write acts only if that is still the one stored.                        *)

Fits(v) ==
    pc[v] = "write" =>
        /\ seen[v] # NoRecord
        /\ submitted[v] \in Codes
        /\ verdict[v] \in Verdicts
        /\ verdict[v] = "accept" => submitted[v] = seen[v].code
        /\ verdict[v] = "count" => submitted[v] # seen[v].code /\ seen[v].attempts + 1 < MaxAttempts
        /\ verdict[v] = "void" => submitted[v] # seen[v].code /\ ~(seen[v].attempts + 1 < MaxAttempts)

VerifiersOK ==
    /\ pc \in [Verifiers -> {"idle", "read", "write"}]
    /\ submitted \in [Verifiers -> Codes \cup {"none"}]
    /\ seen \in [Verifiers -> Record \cup {NoRecord}]
    /\ verdict \in [Verifiers -> Verdicts]
    /\ \A v \in Verifiers : pc[v] = "read" => submitted[v] \in Codes
    /\ \A v \in Verifiers : Fits(v)

CodeInv == AtomicTypeOK /\ VerifiersOK

LEMMA CodeInvInit == CodeInit => CodeInv
  <1> SUFFICES ASSUME CodeInit PROVE CodeInv
    OBVIOUS
  <1>1. AtomicTypeOK
    BY LedgerInit DEF CodeInit, Ledger
  <1>2. VerifiersOK
    BY DEF CodeInit, VerifiersOK, Fits, Verdicts
  <1>3. QED
    BY <1>1, <1>2 DEF CodeInv

LEMMA WriteStep ==
    ASSUME CodeInv, NEW v \in Verifiers, Write(v)
    PROVE  Next
  <1>1. /\ record = seen[v] /\ Stored /\ submitted[v] \in Codes
        /\ verdict[v] \in Verdicts /\ issued' = issued
    BY DEF Write, UnchangedSince, CodeInv, VerifiersOK, Fits, Stored
  <1>2. Apply(v)
    BY DEF Write
  <1>3. CASE verdict[v] = "drop"
    BY <1>1, <1>2, <1>3 DEF Apply, Next, Discard
  <1>4. CASE verdict[v] = "accept"
    <2>1. Accept(submitted[v])
      BY <1>1, <1>2, <1>4 DEF Apply, Accept, Count, CodeInv, VerifiersOK, Fits, Write
    <2>2. QED
      BY <1>1, <2>1 DEF Next
  <1>5. CASE verdict[v] \in {"count", "void"}
    <2>1. Refuse(submitted[v])
      BY <1>1, <1>2, <1>5 DEF Apply, Refuse, Count, CodeInv, VerifiersOK, Fits, Write
    <2>2. QED
      BY <1>1, <2>1 DEF Next
  <1>6. QED
    BY <1>1, <1>3, <1>4, <1>5 DEF Verdicts

LEMMA CodeStep == CodeInv /\ [CodeNext]_vars => [Next]_atomicVars
  <1> SUFFICES ASSUME CodeInv, [CodeNext]_vars PROVE [Next]_atomicVars
    OBVIOUS
  <1>1. ASSUME NEW v \in Verifiers, VerifierNext(v) PROVE [Next]_atomicVars
    BY <1>1, WriteStep DEF VerifierNext, Submit, Read, Retry, Abort, atomicVars
  <1>2. ASSUME NEW s \in Senders, SenderNext(s) PROVE [Next]_atomicVars
    BY <1>2 DEF SenderNext, SetEmailCode, FinishSending, DeleteEmailCode, Next, atomicVars
  <1>3. CASE ExpiresAtPasses \/ CacheTTLEnds
    BY <1>3 DEF ExpiresAtPasses, CacheTTLEnds, Next
  <1>4. CASE UNCHANGED vars
    BY <1>4 DEF vars, atomicVars
  <1>5. QED
    BY <1>1, <1>2, <1>3, <1>4 DEF CodeNext

LEMMA CodeInvNext == CodeInv /\ Ledger /\ [CodeNext]_vars => CodeInv'
  <1> SUFFICES ASSUME CodeInv, Ledger, [CodeNext]_vars PROVE CodeInv'
    OBVIOUS
  <1>1. AtomicTypeOK'
    BY CodeStep, LedgerNext DEF Ledger
  <1>2. VerifiersOK
    BY DEF CodeInv
  <1>3. ASSUME NEW v \in Verifiers, NEW code \in Codes, Submit(v, code) PROVE VerifiersOK'
    BY <1>2, <1>3 DEF Submit, VerifiersOK, Fits
  <1>4. ASSUME NEW v \in Verifiers, Leave(v) PROVE VerifiersOK'
    BY <1>2, <1>4 DEF Leave, VerifiersOK, Fits, Verdicts
  <1>5. ASSUME NEW v \in Verifiers, Read(v), Stored PROVE VerifiersOK'
    <2> DEFINE new == Verdict(submitted[v])
    <2>1. /\ pc[v] = "read" /\ submitted[v] \in Codes
          /\ pc' = [pc EXCEPT ![v] = "write"]
          /\ seen' = [seen EXCEPT ![v] = record]
          /\ verdict' = [verdict EXCEPT ![v] = new]
          /\ submitted' = submitted
      BY <1>2, <1>5 DEF Read, VerifiersOK
    <2>2. record \in Record /\ record # NoRecord
      BY <1>5 DEF CodeInv, AtomicTypeOK, Stored
    <2>3. /\ new \in Verdicts
          /\ new = "accept" => submitted[v] = record.code
          /\ new = "count" => submitted[v] # record.code /\ record.attempts + 1 < MaxAttempts
          /\ new = "void" => submitted[v] # record.code /\ ~(record.attempts + 1 < MaxAttempts)
      BY <2>2, CodeAssumption DEF Verdict, Verdicts, Record
    <2> HIDE DEF new
    <2>4. QED
      BY <1>2, <2>1, <2>2, <2>3 DEF VerifiersOK, Fits
  <1>6. ASSUME NEW v \in Verifiers, Retry(v) PROVE VerifiersOK'
    BY <1>2, <1>6 DEF Retry, VerifiersOK, Fits
  <1>7. ASSUME UNCHANGED verifierVars PROVE VerifiersOK'
    BY <1>2, <1>7 DEF verifierVars, VerifiersOK, Fits
  <1>8. ASSUME NEW v \in Verifiers, VerifierNext(v) PROVE VerifiersOK'
    <2>1. CASE Read(v) /\ ~Stored
      BY <1>4, <2>1 DEF Read
    <2>2. CASE Write(v) \/ Abort(v)
      BY <1>4, <2>2 DEF Write, Abort
    <2>3. QED
      BY <1>3, <1>5, <1>6, <1>8, <2>1, <2>2 DEF VerifierNext
  <1>9. VerifiersOK'
    <2>1. CASE \E s \in Senders : SenderNext(s)
      BY <1>7, <2>1 DEF SenderNext, SetEmailCode, FinishSending, DeleteEmailCode
    <2>2. CASE ExpiresAtPasses \/ CacheTTLEnds
      BY <1>7, <2>2 DEF ExpiresAtPasses, CacheTTLEnds
    <2>3. CASE UNCHANGED vars
      BY <1>7, <2>3 DEF vars, verifierVars
    <2>4. QED
      BY <1>8, <2>1, <2>2, <2>3 DEF CodeNext
  <1>10. QED
    BY <1>1, <1>9 DEF CodeInv

-----------------------------------------------------------------------------
(* The theorems. *)

(* The invariant of both levels together. *)
THEOREM StoreLedger == CodeSpec => [](CodeInv /\ Ledger)
  <1>1. CodeInit => CodeInv /\ Ledger
    BY CodeInvInit, LedgerInit DEF CodeInit
  <1>2. CodeInv /\ Ledger /\ [CodeNext]_vars => (CodeInv /\ Ledger)'
    BY CodeInvNext, CodeStep, LedgerNext
  <1>3. QED
    BY <1>1, <1>2, PTL DEF CodeSpec

(* Reading, comparing and writing back looks like one instant to everyone  *)
(* else: the loop of VerifyAndConsume implements the atomic store.         *)
THEOREM StoreImplementsAtomic == CodeSpec => ImplementsAtomic
  <1>1. CodeInit => Init
    BY DEF CodeInit
  <1>2. CodeInv /\ [CodeNext]_vars => [Next]_atomicVars
    BY CodeStep
  <1>3. CodeSpec => []CodeInv
    BY StoreLedger, PTL
  <1>4. CodeSpec => Spec
    BY <1>1, <1>2, <1>3, PTL DEF CodeSpec, Spec
  <1>5. QED
    BY <1>4 DEF ImplementsAtomic

(* Of all who submit the right code at the same time one at most gets in.  *)
THEOREM CodeAcceptedOnce == CodeSpec => []AcceptedOnce
  <1>1. Ledger => AcceptedOnce
    BY DEF Ledger
  <1>2. QED
    BY <1>1, StoreLedger, PTL

(* No interleaving of guesses gets more than MaxAttempts of them turned    *)
(* down by one code, or one accepted after that many.                      *)
THEOREM CodeGuessesBounded == CodeSpec => []GuessesBounded
  <1>1. Ledger => GuessesBounded
    BY DEF Ledger
  <1>2. QED
    BY <1>1, StoreLedger, PTL

(* The attempts field of the stored record misses no failure.              *)
THEOREM CodeAttemptsExact == CodeSpec => []AttemptsExact
  <1>1. Ledger => AttemptsExact
    BY DEF Ledger
  <1>2. QED
    BY <1>1, StoreLedger, PTL

(* The three parts, side by side: a step of one leaves the others alone.          *)
LEMMA PartsStep ==
  [MCNext]_<<part, memoryVars, redisVars, vars>> => [MemoryNext]_memoryVars /\ [RedisNext]_redisVars /\ [CodeNext]_vars
  BY DEF MCNext, memoryVars, redisVars, vars

(* Neither store loses track of its entries or holds more than its limits, and a  *)
(* stored code and its verifiers keep their shape, for any number of keys, codes  *)
(* and callers.                                                                   *)
THEOREM StoresStayConsistent == MCSpec => []StoresConsistent
  <1> DEFINE Inv == MemoryInvariant /\ RedisInvariant /\ CodeInv /\ Ledger /\ sending \subseteq Senders
  <1>1. MCInit => Inv
    BY MemoryBegins, RedisBegins, CodeInvInit, LedgerInit DEF MCInit, CodeInit
  <1>2. Inv /\ [MCNext]_<<part, memoryVars, redisVars, vars>> => Inv'
    <2>1. sending \subseteq Senders /\ [CodeNext]_vars => (sending \subseteq Senders)'
      BY DEF CodeNext, vars, VerifierNext, SenderNext, Submit, Read, Write, Retry, Abort, SetEmailCode, FinishSending,
             DeleteEmailCode, ExpiresAtPasses, CacheTTLEnds
    <2>2. QED
      BY <2>1, PartsStep, MemorySteps, RedisSteps, CodeInvNext, CodeStep, LedgerNext
  <1>3. Inv => StoresConsistent
    <2>1. CodeInv /\ sending \subseteq Senders => CodeTypeOK
      BY DEF CodeInv, AtomicTypeOK, VerifiersOK, CodeTypeOK
    <2>2. QED
      BY <2>1 DEF MemoryInvariant, RedisInvariant, StoresConsistent
  <1> HIDE DEF Inv
  <1>4. QED
    BY <1>1, <1>2, <1>3, PTL DEF MCSpec
=============================================================================
