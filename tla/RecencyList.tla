---------------------------- MODULE RecencyList -----------------------------
(***************************************************************************)
(* What the metadata cache promises of its recency order: a sequence of    *)
(* weighed keys, the least recently used first, that never weighs more     *)
(* than the capacity.  Storing a key evicts no more than it has to, and    *)
(* the least recently used first.                                          *)
(***************************************************************************)
EXTENDS Integers, Sequences, SequencesExt

CONSTANTS CacheKeys, Weights, CapacityBytes

VARIABLE order

Item(k, w) == [key |-> k, weight |-> w]
Total(s) ==
  LET sum[n \in 0..Len(s)] == IF n = 0 THEN 0 ELSE sum[n - 1] + s[n].weight IN sum[Len(s)]
AfterFirst(s, n) == SubSeq(s, n + 1, Len(s))
Without(s, k) ==
  IF \E i \in DOMAIN s : s[i].key = k
  THEN RemoveAt(s, CHOOSE i \in DOMAIN s : s[i].key = k) ELSE s

Init == order = <<>>

Store(k, w) ==
  LET rest == Without(order, k)
  IN \E n \in 0..Len(rest) :
       /\ Total(AfterFirst(rest, n)) + w <= CapacityBytes
       /\ n > 0 => Total(AfterFirst(rest, n - 1)) + w > CapacityBytes
       /\ order' = Append(AfterFirst(rest, n), Item(k, w))
Use(k) ==
  \E i \in DOMAIN order : order[i].key = k /\ order' = Append(RemoveAt(order, i), order[i])
Drop(k) == \E i \in DOMAIN order : order[i].key = k /\ order' = RemoveAt(order, i)

Next == \E k \in CacheKeys : Use(k) \/ Drop(k) \/ \E w \in Weights : Store(k, w)

Spec == Init /\ [][Next]_order
=============================================================================
