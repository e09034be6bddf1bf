--------------------------- MODULE CacheKeyspace ----------------------------
(* Keys, values, namespaces and limits of the temporary store (namespace.go).    *)
EXTENDS Naturals, FiniteSets

CONSTANTS CacheKeys, CacheValues,
          NsOf,        \* namespace of a key, NoNs when it has none
          Namespaces, NoNs,
          Quota,       \* entries a namespace may hold
          StoreLimit,  \* entries the memory store may hold
          NoValue

ASSUME CacheConstants ==
  /\ NsOf \in [CacheKeys -> Namespaces \cup {NoNs}] /\ NoNs \notin Namespaces
  /\ Quota \in [Namespaces -> Nat \ {0}] /\ StoreLimit \in Nat \ {0}
  /\ NoValue \notin CacheValues
  /\ IsFiniteSet(CacheKeys)

Peers(k) == {j \in CacheKeys : NsOf[j] = NsOf[k]}
=============================================================================
