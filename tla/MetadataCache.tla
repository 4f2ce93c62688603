--------------------------- MODULE MetadataCache ---------------------------
(***************************************************************************)
(* The filtered-metadata cache (metadata_cache.rs) as registry_handler     *)
(* (server.rs) uses it: a request reads the content revision of the OSV    *)
(* store, makes it part of its key, and is answered by a stored entry, by  *)
(* another request's fill in flight, or by a fill of its own.              *)
(*                                                                         *)
(* A lookup, a completion and an abandonment each hold the cache mutex     *)
(* and are one action; syncs may commit between any two steps, time may    *)
(* pass, and a request may be dropped (client gone, forced shutdown) at    *)
(* every await.                                                            *)
(***************************************************************************)
EXTENDS Integers, FiniteSets, Sequences, SequencesExt

CONSTANTS
  Requests,          \* request tasks; each runs registry_handler once
  Paths,             \* what else the key holds: ecosystem, path, headers
  Weight,            \* the size of a path's key and response
  Capacity,          \* metadata_cache.capacity_bytes
  FillConcurrency,   \* metadata_cache.fill_concurrency
  TTL,               \* metadata_cache.ttl
  MaxTime,           \* bound on the clock
  MaxRevision,       \* bound on committed syncs
  Nobody             \* not a request

ASSUME ConstantsAssumption ==
  /\ IsFiniteSet(Requests) /\ Nobody \notin Requests
  /\ Weight \in [Paths -> Nat \ {0}]
  /\ Capacity \in Nat
  /\ FillConcurrency \in Nat \ {0} /\ TTL \in Nat \ {0}
  /\ MaxTime \in Nat \ {0} /\ MaxRevision \in Nat

VARIABLES
  now,         \* the clock
  committed,   \* the content revision committed in the OSV store
  entries,     \* MetadataCache.state.entries
  lru,         \* the recency list, oldest first
  inflight,    \* MetadataCache.state.inflight: which request fills a key
  shared,      \* the Inflight of a leader, as its waiters see it
  pc, key,     \* where a request is, and its key
  leader,      \* the request whose Inflight it waits on
  answer,      \* the response a fill produced or a request returned
  since        \* history: the revision committed when it began

cache == <<entries, lru, inflight>>
request == <<pc, key, leader, answer, since>>
vars == <<now, committed, cache, shared, request>>

Times == 0..MaxTime
Never == MaxTime + 1          \* no pending policy transition
NoRevision == -1              \* the revision could not be read
Revisions == 0..MaxRevision
Keys == [revision : Revisions \cup {NoRevision}, path : Paths]

\* "ok": 200, buffered, within max_entry_bytes and evaluated without a policy error;
\* "unfit": buffered but not all of these, or overloaded; "stream": not buffered.
\* "pending" and "none" are the states of an Inflight without a response.
FillKinds == {"ok", "unfit", "stream"}
Responses ==
  [kind : FillKinds \cup {"pending", "none"},
   evaluated : Revisions \cup {NoRevision},   \* the revision its policy checks read
   validUntil : 0..Never]                     \* the next policy transition
NoResponse == [kind |-> "none", evaluated |-> NoRevision, validUntil |-> 0]
Pending == [kind |-> "pending", evaluated |-> NoRevision, validUntil |-> 0]

Entries == [response : Responses, expiresAt : 0..Never]
NoEntry == [response |-> NoResponse, expiresAt |-> 0]

Init ==
  /\ now = 1 /\ committed = 0
  /\ entries = [k \in Keys |-> NoEntry] /\ lru = << >>
  /\ inflight = [k \in Keys |-> Nobody]
  /\ shared = [r \in Requests |-> NoResponse]
  /\ pc = [r \in Requests |-> "idle"]
  /\ key \in [Requests -> {k \in Keys : k.revision = NoRevision}]
  /\ leader = [r \in Requests |-> Nobody]
  /\ answer = [r \in Requests |-> NoResponse]
  /\ since = [r \in Requests |-> 0]

-----------------------------------------------------------------------------
(* The environment. *)

Tick ==
  /\ now < MaxTime /\ now' = now + 1
  /\ UNCHANGED <<committed, cache, shared, request>>

\* A sync of the ecosystem commits changed content.
CommitSync ==
  /\ committed < MaxRevision /\ committed' = committed + 1
  /\ UNCHANGED <<now, cache, shared, request>>

-----------------------------------------------------------------------------
(* registry_handler and metadata_cache_key. *)

Begin(r) ==
  /\ pc[r] = "idle"
  /\ pc' = [pc EXCEPT ![r] = "revision"]
  /\ since' = [since EXCEPT ![r] = committed]
  /\ UNCHANGED <<now, committed, cache, shared, key, leader, answer>>

\* The revision in the key: what the store says now, or none when the read fails.
ConstantRevision == {0}
ReadableRevisions == {committed, NoRevision}

ReadRevision(r) ==
  /\ pc[r] = "revision"
  /\ \E revision \in ReadableRevisions :
       key' = [key EXCEPT ![r] = [revision |-> revision, path |-> key[r].path]]
  /\ pc' = [pc EXCEPT ![r] = "lookup"]
  /\ UNCHANGED <<now, committed, cache, shared, leader, answer, since>>

-----------------------------------------------------------------------------
(* MetadataCache::lookup. *)

TotalWeight(s) == FoldSeq(LAMBDA k, total : Weight[k.path] + total, 0, s)

Stored(k) == entries[k].expiresAt > 0
Fresh(k) == entries[k].expiresAt > now

Answered(r, response) ==
  /\ pc' = [pc EXCEPT ![r] = "done"]
  /\ answer' = [answer EXCEPT ![r] = response]
  /\ leader' = [leader EXCEPT ![r] = Nobody]

LookupHit(r) ==
  /\ pc[r] = "lookup" /\ Fresh(key[r])
  /\ lru' = Append(Remove(lru, key[r]), key[r])
  /\ Answered(r, entries[key[r]].response)
  /\ UNCHANGED <<now, committed, entries, inflight, shared, key, since>>

\* A lookup that does not hit removes the expired entry it found, if any.
RemoveExpired(k) ==
  /\ ~Fresh(k)
  /\ entries' = [entries EXCEPT ![k] = NoEntry]
  /\ lru' = Remove(lru, k)

NeverInflight(k) == FALSE
IsInflight(k) == inflight[k] # Nobody

LookupWait(r) ==
  /\ pc[r] = "lookup" /\ RemoveExpired(key[r]) /\ IsInflight(key[r])
  /\ pc' = [pc EXCEPT ![r] = "wait"]
  /\ leader' = [leader EXCEPT ![r] = inflight[key[r]]]
  /\ UNCHANGED <<now, committed, inflight, shared, key, answer, since>>

LookupLead(r) ==
  /\ pc[r] = "lookup" /\ RemoveExpired(key[r]) /\ ~IsInflight(key[r])
  /\ pc' = [pc EXCEPT ![r] = "permit"]
  /\ inflight' = [inflight EXCEPT ![key[r]] = r]
  /\ shared' = [shared EXCEPT ![r] = Pending]
  /\ UNCHANGED <<now, committed, key, leader, answer, since>>

-----------------------------------------------------------------------------
(* Waiters and leaders of a fill: MetadataCache::execute. *)

WaitAnswered(r) ==
  /\ pc[r] = "wait" /\ shared[leader[r]].kind \notin {"pending", "none"}
  /\ Answered(r, shared[leader[r]])
  /\ UNCHANGED <<now, committed, cache, shared, key, since>>

\* The fill was abandoned or cannot be shared: look again, perhaps to lead.
WaitRetry(r) ==
  /\ pc[r] = "wait" /\ shared[leader[r]].kind = "none"
  /\ pc' = [pc EXCEPT ![r] = "lookup"]
  /\ leader' = [leader EXCEPT ![r] = Nobody]
  /\ UNCHANGED <<now, committed, cache, shared, key, answer, since>>

Filling(r) == pc[r] \in {"fill", "finish"}

AcquirePermit(r) ==
  /\ pc[r] = "permit"
  /\ Cardinality({q \in Requests : Filling(q)}) < FillConcurrency
  /\ pc' = [pc EXCEPT ![r] = "fill"]
  /\ UNCHANGED <<now, committed, cache, shared, key, leader, answer, since>>

\* The route fetches upstream metadata and filters it against the content committed now;
\* a version too young by policy makes the response valid only until it comes of age.
RouteAndFilter(r) ==
  /\ pc[r] = "fill"
  /\ \E kind \in FillKinds, validUntil \in (now + 1)..Never :
       answer' = [answer EXCEPT ![r] =
         [kind |-> kind, evaluated |-> committed, validUntil |-> validUntil]]
  /\ pc' = [pc EXCEPT ![r] = "finish"]
  /\ UNCHANGED <<now, committed, cache, shared, key, leader, since>>

\* Whether a finished fill may be stored.
StoresUnfit(r) ==
  /\ answer[r].kind \in {"ok", "unfit"} /\ key[r].revision # NoRevision
  /\ answer[r].validUntil > now /\ Weight[key[r].path] <= Capacity
Cacheable(r) ==
  /\ answer[r].kind = "ok" /\ key[r].revision # NoRevision
  /\ answer[r].validUntil > now /\ Weight[key[r].path] <= Capacity

Soonest(s, t) == IF s <= t THEN s ELSE t
TtlOnly(response) == Soonest(now + TTL, Never)
Expiration(response) == Soonest(now + TTL, response.validUntil)

\* CacheState::insert evicts from the old end of the list until the new entry fits.
Fits(rest, w) == TotalWeight(rest) + w <= Capacity

Insert(k, response) ==
  LET others == Remove(lru, k)
      Rest(n) == SubSeq(others, n + 1, Len(others))
  IN \E n \in 0..Len(others) :
       /\ Fits(Rest(n), Weight[k.path])
       /\ \A fewer \in 0..(n - 1) : ~Fits(Rest(fewer), Weight[k.path])
       /\ lru' = Append(Rest(n), k)
       /\ entries' = [j \in Keys |->
            IF j = k THEN [response |-> response, expiresAt |-> Expiration(response)]
            ELSE IF j \in ToSet(SubSeq(others, 1, n)) THEN NoEntry
            ELSE entries[j]]

\* FillLeader::finish under one lock: wake the waiters, store, leave the in-flight map.
Finish(r) ==
  /\ pc[r] = "finish"
  /\ shared' = [shared EXCEPT ![r] =
       IF answer[r].kind = "stream" THEN NoResponse ELSE answer[r]]
  /\ IF Cacheable(r) THEN Insert(key[r], answer[r]) ELSE UNCHANGED <<entries, lru>>
  /\ inflight' = [inflight EXCEPT ![key[r]] = IF @ = r THEN Nobody ELSE @]
  /\ Answered(r, answer[r])
  /\ UNCHANGED <<now, committed, key, since>>

-----------------------------------------------------------------------------
(* A request future dropped at an await. *)

\* FillLeader::drop of an uncompleted fill wakes its waiters to look again.
AbandonSilently(r) == shared
Abandoned(r) == [shared EXCEPT ![r] = NoResponse]

Leading(r) == pc[r] \in {"permit", "fill", "finish"}

Cancel(r) ==
  /\ pc[r] \in {"revision", "wait"} \/ Leading(r)
  /\ pc' = [pc EXCEPT ![r] = "cancelled"]
  /\ leader' = [leader EXCEPT ![r] = Nobody]
  /\ answer' = [answer EXCEPT ![r] = NoResponse]
  /\ IF Leading(r)
       THEN /\ shared' = Abandoned(r)
            /\ inflight' = [inflight EXCEPT ![key[r]] = IF @ = r THEN Nobody ELSE @]
       ELSE UNCHANGED <<shared, inflight>>
  /\ UNCHANGED <<now, committed, entries, lru, key, since>>

Progress(r) ==
  \/ ReadRevision(r) \/ LookupHit(r) \/ LookupWait(r) \/ LookupLead(r)
  \/ WaitAnswered(r) \/ WaitRetry(r)
  \/ AcquirePermit(r) \/ RouteAndFilter(r) \/ Finish(r)

Next ==
  \/ Tick \/ CommitSync
  \/ \E r \in Requests : Begin(r) \/ Progress(r) \/ Cancel(r)

Spec == Init /\ [][Next]_vars

(* The runtime polls every woken task again, the fill semaphore is first come first
   served, and upstream requests time out, so a fill ends.  Nothing is assumed of
   clients, of the clock or of syncs. *)
FairSpec == Spec /\ \A r \in Requests : WF_vars(Progress(r))

-----------------------------------------------------------------------------
(* Correctness. *)

StateTypes ==
  /\ now \in 1..MaxTime /\ committed \in Revisions
  /\ entries \in [Keys -> Entries]
  /\ inflight \in [Keys -> Requests \cup {Nobody}]
  /\ shared \in [Requests -> Responses]
  /\ pc \in [Requests -> {"idle", "revision", "lookup", "wait", "permit", "fill",
                          "finish", "done", "cancelled"}]
  /\ key \in [Requests -> Keys]
  /\ leader \in [Requests -> Requests \cup {Nobody}]
  /\ answer \in [Requests -> Responses]
  /\ since \in [Requests -> Revisions]

\* A request that could read its revision is never answered with metadata filtered on
\* content older than what was committed when the request began, whether it hits, joins
\* somebody else's fill or fills itself.
AnswersAreFresh ==
  \A r \in Requests :
    pc[r] = "done" /\ key[r].revision # NoRevision => since[r] <= answer[r].evaluated

\* Concurrent misses of one key make one upstream fill.
OneFillPerKey ==
  \A q, r \in Requests :
    Leading(q) /\ Leading(r) /\ key[q] = key[r] => q = r

\* Whoever waits on a fill waits on one that will answer or release it: the fill has
\* finished, or its leader is still at work and still the one new requests would join.
NoLostWaiter ==
  \A r \in Requests :
    pc[r] = "wait" /\ shared[leader[r]].kind = "pending" =>
      /\ Leading(leader[r])
      /\ inflight[key[r]] = leader[r] /\ key[leader[r]] = key[r]

\* Only complete, successful answers are replayed from the cache, and never across the
\* moment a hidden version becomes old enough to be served.
HitsAreCurrent ==
  [][\A r \in Requests :
       pc[r] = "lookup" /\ pc'[r] = "done" =>
         /\ answer'[r].kind = "ok" /\ now < answer'[r].validUntil]_vars

\* Every request that is not dropped by its client is answered, though leaders vanish.
EveryRequestAnswered ==
  \A r \in Requests : pc[r] # "idle" ~> pc[r] \in {"done", "cancelled"}
=============================================================================
