----------------------------- MODULE IpfsCache ------------------------------
(***************************************************************************)
(* LRUCache of the resolver, under CachedIpfsClient.  A JavaScript Map     *)
(* iterates over its keys in the order they were inserted, so the cache is *)
(* the sequence of its keys, the next to be evicted first; what a CID maps *)
(* to never changes.                                                       *)
(***************************************************************************)
EXTENDS Integers, Sequences

Has(s, k) == \E i \in DOMAIN s : s[i] = k

\* A Map has a key once; deleting it leaves the others in their order.
Without(s, k) ==
    IF Has(s, k)
    THEN LET i == CHOOSE j \in DOMAIN s : s[j] = k
         IN  [j \in 1..Len(s) - 1 |-> s[IF j < i THEN j ELSE j + 1]]
    ELSE s

\* A get that finds its key moves it to the end.
\* Mutant: the key left where it is, as in a first-in first-out cache.
GetUnmoved(s, k) == s

Get(s, k) == IF Has(s, k) THEN Append(Without(s, k), k) ELSE s

\* A set of a new key evicts the first when the cache is full.  Deleting the
\* first key of an empty map does nothing: with a size of 0 the key is stored.
Evicted(s, n) == IF Len(s) >= n /\ s # <<>> THEN Tail(s) ELSE s

Set(s, k, n) == Append(IF Has(s, k) THEN Without(s, k) ELSE Evicted(s, n), k)
=============================================================================
