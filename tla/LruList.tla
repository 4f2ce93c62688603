------------------------------ MODULE LruList -------------------------------
(***************************************************************************)
(* The entries of the metadata cache (CacheState of metadata_cache.rs): a  *)
(* map from keys to the slots of a vector, whose live slots form a doubly  *)
(* linked list from the least to the most recently used, and whose freed   *)
(* slots are used again.  Module MetadataCache takes the list as a         *)
(* sequence; RecencyList is that sequence, and Chain the refinement.       *)
(***************************************************************************)
EXTENDS Integers, Sequences, FiniteSets, SequencesExt

CONSTANTS CacheKeys, Weights, CapacityBytes

\* The caller stores nothing that is heavier than the capacity.
ASSUME LruConstants == CapacityBytes \in Nat /\ Weights \subseteq 0..CapacityBytes

VARIABLES slots, nodes, free, head, tail, weight
lruVars == <<slots, nodes, free, head, tail, weight>>

NoIndex == 0
FreeNode == [key |-> NoIndex]

State == [entries |-> slots, nodes |-> nodes, free |-> free, head |-> head, tail |-> tail,
          weight |-> weight]
Becomes(s) ==
  /\ slots' = s.entries /\ nodes' = s.nodes /\ free' = s.free
  /\ head' = s.head /\ tail' = s.tail /\ weight' = s.weight

LruInit ==
  /\ slots = [k \in CacheKeys |-> NoIndex]
  /\ nodes = <<>> /\ free = <<>> /\ head = NoIndex /\ tail = NoIndex /\ weight = 0

-----------------------------------------------------------------------------
\* What follows a slot, or comes first; what precedes a slot, or comes last.
PointForward(s, index, to) ==
  IF index = NoIndex THEN [s EXCEPT !.head = to] ELSE [s EXCEPT !.nodes[index].next = to]
PointBack(s, index, to) ==
  IF index = NoIndex THEN [s EXCEPT !.tail = to] ELSE [s EXCEPT !.nodes[index].previous = to]

Unlink(s, index) ==
  LET previous == s.nodes[index].previous
      next == s.nodes[index].next
  IN PointBack(PointForward(s, previous, next), next, previous)

\* As a slot would be linked if the old tail were not pointed at it.
LinkLastUnseen(s, index) ==
  LET alone == [s EXCEPT !.nodes[index].previous = s.tail, !.nodes[index].next = NoIndex]
  IN [alone EXCEPT !.tail = index, !.head = IF s.tail = NoIndex THEN index ELSE @]

\* A slot becomes the most recently used.
LinkLast(s, index) ==
  LET alone == [s EXCEPT !.nodes[index].previous = s.tail, !.nodes[index].next = NoIndex]
  IN [PointForward(alone, s.tail, index) EXCEPT !.tail = index]

RemoveIndex(s, index) ==
  LET entry == s.nodes[index]
  IN [Unlink(s, index) EXCEPT
        !.entries[entry.key] = NoIndex, !.nodes[index] = FreeNode,
        !.weight = @ - entry.weight, !.free = Append(@, index)]

RemoveKey(s, k) == IF s.entries[k] = NoIndex THEN s ELSE RemoveIndex(s, s.entries[k])

\* Eviction goes on from the head until the new entry fits, at most over every slot.
EvictOldest(s, w) ==
  IF s.head # NoIndex /\ s.weight + w > CapacityBytes THEN RemoveIndex(s, s.head) ELSE s
Evicted(s, w) ==
  LET after[n \in 0..Len(s.nodes)] == IF n = 0 THEN s ELSE EvictOldest(after[n - 1], w)
  IN after[Len(s.nodes)]

\* The last slot that was freed, or a new one.
Allocated(s, node) ==
  IF s.free = <<>>
  THEN [s EXCEPT !.nodes = Append(@, node), !.free = <<>>]
  ELSE [s EXCEPT !.nodes[Last(s.free)] = node, !.free = Front(@)]
AllocatedIndex(s) == IF s.free = <<>> THEN Len(s.nodes) + 1 ELSE Last(s.free)

InsertEntry(k, w) ==
  LET fitting == Evicted(RemoveKey(State, k), w)
      index == AllocatedIndex(fitting)
      node == [key |-> k, weight |-> w, previous |-> NoIndex, next |-> NoIndex]
      linked == LinkLast(Allocated(fitting, node), index)
  IN Becomes([linked EXCEPT !.entries[k] = index, !.weight = @ + w])

Delete(k) == slots[k] # NoIndex /\ Becomes(RemoveKey(State, k))

\* A hit; the tail is left where it is.
Touch(k) ==
  /\ slots[k] \notin {NoIndex, tail}
  /\ Becomes(LinkLast(Unlink(State, slots[k]), slots[k]))

LruNext == \E k \in CacheKeys : Delete(k) \/ Touch(k) \/ \E w \in Weights : InsertEntry(k, w)

LruSpec == LruInit /\ [][LruNext]_lruVars

-----------------------------------------------------------------------------
\* The entries from the head on; no chain is longer than the vector.
ChainOf(s) ==
  LET from[n \in 0..Len(s.nodes)] ==    \* the index after n steps
        IF n = 0 THEN s.head
        ELSE IF from[n - 1] = NoIndex THEN NoIndex ELSE s.nodes[from[n - 1]].next
      steps == {n \in 0..Len(s.nodes) : from[n] # NoIndex}
  IN [n \in 1..Cardinality(steps) |->
        [key |-> s.nodes[from[n - 1]].key, weight |-> s.nodes[from[n - 1]].weight]]
Chain == ChainOf(State)

Recency == INSTANCE RecencyList WITH order <- Chain

\* The linked list behaves as the sequence that module MetadataCache takes it for: hits,
\* removals and evictions from its middle, of its ends and of a lone entry keep the order,
\* and reused slots do not bring an old neighbour back (metadata_cache.rs 323-418).
LruImplementsList == Recency!Spec
=============================================================================
