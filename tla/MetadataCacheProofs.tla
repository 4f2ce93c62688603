------------------------ MODULE MetadataCacheProofs ------------------------
(* TLAPS proofs about MetadataCache, for any requests, paths, weights and limits, and about
   the list that keeps the recency of its entries. *)
EXTENDS MetadataCache, LruList, NaturalLemmas, SequenceTheorems, TLAPS

Started(r) == pc[r] \in {"lookup", "wait", "permit", "fill", "finish", "done"}

(* Who leads, who waits: the in-flight map holds exactly the leaders at work, an
   Inflight is pending only while its leader is at work, and a waiter waits on a
   request of its own key that has passed its lookup. *)
LeadersAreInflight ==
  \A r \in Requests : Leading(r) => inflight[key[r]] = r
InflightLeads ==
  \A k \in Keys : inflight[k] # Nobody =>
    /\ inflight[k] \in Requests
    /\ key[inflight[k]] = k /\ Leading(inflight[k])
PendingLeads ==
  \A r \in Requests : shared[r].kind = "pending" => Leading(r)
WaitersFollow ==
  \A r \in Requests : pc[r] = "wait" =>
    /\ leader[r] \in Requests /\ key[leader[r]] = key[r]
    /\ pc[leader[r]] \in {"permit", "fill", "finish", "done", "cancelled"}
FinishedFills ==
  \A r \in Requests : pc[r] = "finish" => answer[r].kind \in FillKinds

SharingInv ==
  LeadersAreInflight /\ InflightLeads /\ PendingLeads /\ WaitersFollow /\ FinishedFills

(* Whatever can be replayed or shared under a key was evaluated at the revision the key
   names or at a later one, and that revision is no older than the request. *)
KeysAreCommitted == \A r \in Requests : key[r].revision <= committed
KeysAreRecent ==
  \A r \in Requests :
    /\ pc[r] = "revision" => since[r] <= committed
    /\ Started(r) /\ key[r].revision # NoRevision => since[r] <= key[r].revision
EntriesCover ==
  \A k \in Keys : Stored(k) => k.revision <= entries[k].response.evaluated
AnswersCover ==
  \A r \in Requests :
    pc[r] \in {"finish", "done"} => key[r].revision <= answer[r].evaluated
SharedCover ==
  \A r \in Requests :
    shared[r].kind \notin {"pending", "none"} =>
      pc[r] = "done" /\ key[r].revision <= shared[r].evaluated

FreshnessInv ==
  KeysAreCommitted /\ KeysAreRecent /\ EntriesCover /\ AnswersCover /\ SharedCover

IInv == StateTypes /\ SharingInv /\ FreshnessInv

(* What is stored is a complete, successful answer that expires no later than it stops
   being valid. *)
StoredAreCurrent ==
  \A k \in Keys : Stored(k) =>
    /\ entries[k].response.kind = "ok"
    /\ entries[k].expiresAt <= entries[k].response.validUntil

-----------------------------------------------------------------------------
(* Types. *)

\* The placeholders are responses and entries, and of the kinds they stand for.
LEMMA ConstantResponses ==
  /\ NoResponse \in Responses /\ Pending \in Responses /\ NoEntry \in Entries
  /\ NoResponse.kind = "none" /\ Pending.kind = "pending" /\ NoEntry.expiresAt = 0
BY ConstantsAssumption
   DEF NoResponse, Pending, NoEntry, Responses, Entries, NoRevision, Never

\* The fields of a response and of a key are numbers, ordered as expected.
LEMMA ResponseFields ==
  /\ \A response \in Responses :
       /\ response.evaluated \in Int /\ response.validUntil \in 0..Never
  /\ \A k \in Keys : k.revision \in Int /\ k.path \in Paths
  /\ Never \in Nat /\ Times \subseteq Nat /\ Revisions \subseteq Nat
BY ConstantsAssumption DEF Responses, Keys, Revisions, NoRevision, Never, Times

\* What CacheState::insert leaves under each key: the new entry, nothing, or as it was.
LEMMA InsertEffect ==
  ASSUME StateTypes, NEW k \in Keys, NEW response \in Responses, Insert(k, response)
  PROVE  /\ entries' \in [Keys -> Entries]
         /\ \A j \in Keys :
              \/ /\ j = k /\ entries'[j].response = response
                 /\ entries'[j].expiresAt = Expiration(response)
              \/ entries'[j] = NoEntry
              \/ entries'[j] = entries[j]
<1>1. [response |-> response, expiresAt |-> Expiration(response)] \in Entries
  BY ResponseFields, ConstantsAssumption
     DEF StateTypes, Entries, Expiration, Soonest, Times, Never
<1>2. \E gone : entries' = [j \in Keys |->
          IF j = k THEN [response |-> response, expiresAt |-> Expiration(response)]
          ELSE IF j \in gone THEN NoEntry ELSE entries[j]]
  BY DEF Insert
<1> QED
  BY <1>1, <1>2, ConstantResponses DEF StateTypes

\* The initial state is typed.
LEMMA InitTypes == Init => StateTypes
BY ConstantsAssumption, ConstantResponses
   DEF Init, StateTypes, Revisions, Keys, NoRevision, Times

\* Every step keeps types; a waiter needs its leader to be a request.
LEMMA TypesStep == StateTypes /\ WaitersFollow /\ [Next]_vars => StateTypes'
<1> SUFFICES ASSUME StateTypes, WaitersFollow, [Next]_vars PROVE StateTypes'
  OBVIOUS
<1> USE DEF StateTypes
<1>1. CASE Tick
  BY <1>1, ConstantsAssumption DEF Tick, cache, request
<1>2. CASE CommitSync
  BY <1>2, ConstantsAssumption DEF CommitSync, cache, request, Revisions
<1>3. ASSUME NEW r \in Requests, Begin(r) PROVE StateTypes'
  BY <1>3 DEF Begin, cache
<1>4. ASSUME NEW r \in Requests, ReadRevision(r) PROVE StateTypes'
  <2>1. key' \in [Requests -> Keys]
    BY <1>4 DEF ReadRevision, ReadableRevisions, Keys
  <2> QED BY <1>4, <2>1 DEF ReadRevision, cache
<1>5. ASSUME NEW r \in Requests, LookupHit(r) PROVE StateTypes'
  BY <1>5 DEF LookupHit, Answered, Entries
<1>6. ASSUME NEW r \in Requests, LookupWait(r) PROVE StateTypes'
  BY <1>6, ConstantResponses DEF LookupWait, RemoveExpired
<1>7. ASSUME NEW r \in Requests, LookupLead(r) PROVE StateTypes'
  BY <1>7, ConstantResponses DEF LookupLead, RemoveExpired
<1>8. ASSUME NEW r \in Requests, WaitAnswered(r) PROVE StateTypes'
  <2>1. shared[leader[r]] \in Responses
    BY <1>8 DEF WaitAnswered, WaitersFollow
  <2> QED BY <1>8, <2>1 DEF WaitAnswered, Answered, cache
<1>9. ASSUME NEW r \in Requests, WaitRetry(r) PROVE StateTypes'
  BY <1>9 DEF WaitRetry, cache
<1>10. ASSUME NEW r \in Requests, AcquirePermit(r) PROVE StateTypes'
  BY <1>10 DEF AcquirePermit, cache
<1>11. ASSUME NEW r \in Requests, RouteAndFilter(r) PROVE StateTypes'
  <2>1. PICK kind \in FillKinds, validUntil \in (now + 1)..Never :
          answer' = [answer EXCEPT ![r] =
            [kind |-> kind, evaluated |-> committed, validUntil |-> validUntil]]
    BY <1>11 DEF RouteAndFilter
  <2>2. [kind |-> kind, evaluated |-> committed, validUntil |-> validUntil] \in Responses
    BY ConstantsAssumption DEF Responses, Never
  <2> QED BY <1>11, <2>1, <2>2 DEF RouteAndFilter, cache
<1>12. ASSUME NEW r \in Requests, Finish(r) PROVE StateTypes'
  <2>1. entries' \in [Keys -> Entries]
    <3>1. CASE Cacheable(r)
      BY <1>12, <3>1, InsertEffect DEF Finish
    <3>2. CASE ~Cacheable(r)
      BY <1>12, <3>2 DEF Finish
    <3> QED BY <3>1, <3>2
  <2>2. shared' \in [Requests -> Responses]
    BY <1>12, ConstantResponses DEF Finish
  <2> QED BY <1>12, <2>1, <2>2 DEF Finish, Answered
<1>13. ASSUME NEW r \in Requests, Cancel(r) PROVE StateTypes'
  BY <1>13, ConstantResponses DEF Cancel, Abandoned
<1>14. CASE UNCHANGED vars
  BY <1>14 DEF vars, cache, request
<1> QED
  BY <1>1, <1>2, <1>3, <1>4, <1>5, <1>6, <1>7, <1>8, <1>9, <1>10, <1>11, <1>12, <1>13,
     <1>14 DEF Next, Progress
-----------------------------------------------------------------------------
(* Leaders and waiters. *)

\* Every step keeps the in-flight map and the leaders at work in agreement.
LEMMA SharingStep == StateTypes /\ SharingInv /\ [Next]_vars => SharingInv'
<1> SUFFICES ASSUME StateTypes, SharingInv, [Next]_vars PROVE SharingInv'
  OBVIOUS
<1> USE ConstantsAssumption, ConstantResponses
    DEF StateTypes, SharingInv, LeadersAreInflight, InflightLeads, PendingLeads,
        WaitersFollow, FinishedFills, Leading
<1>1. CASE Tick
  BY <1>1 DEF Tick, cache, request
<1>2. CASE CommitSync
  BY <1>2 DEF CommitSync, cache, request
<1>3. ASSUME NEW r \in Requests, Begin(r) PROVE SharingInv'
  BY <1>3 DEF Begin, cache
<1>4. ASSUME NEW r \in Requests, ReadRevision(r) PROVE SharingInv'
  BY <1>4 DEF ReadRevision, cache
<1>5. ASSUME NEW r \in Requests, LookupHit(r) PROVE SharingInv'
  BY <1>5 DEF LookupHit, Answered
<1>6. ASSUME NEW r \in Requests, LookupWait(r) PROVE SharingInv'
  BY <1>6 DEF LookupWait, IsInflight
<1>7. ASSUME NEW r \in Requests, LookupLead(r) PROVE SharingInv'
  BY <1>7 DEF LookupLead, IsInflight
<1>8. ASSUME NEW r \in Requests, WaitAnswered(r) PROVE SharingInv'
  BY <1>8 DEF WaitAnswered, Answered, cache
<1>9. ASSUME NEW r \in Requests, WaitRetry(r) PROVE SharingInv'
  BY <1>9 DEF WaitRetry, cache
<1>10. ASSUME NEW r \in Requests, AcquirePermit(r) PROVE SharingInv'
  BY <1>10 DEF AcquirePermit, cache
<1>11. ASSUME NEW r \in Requests, RouteAndFilter(r) PROVE SharingInv'
  BY <1>11 DEF RouteAndFilter, cache
<1>12. ASSUME NEW r \in Requests, Finish(r) PROVE SharingInv'
  <2>1. answer[r].kind # "pending"
    BY <1>12 DEF Finish, FillKinds
  <2> QED BY <1>12, <2>1 DEF Finish, Answered
<1>13. ASSUME NEW r \in Requests, Cancel(r) PROVE SharingInv'
  BY <1>13 DEF Cancel, Abandoned
<1>14. CASE UNCHANGED vars
  BY <1>14 DEF vars, cache, request
<1> QED
  BY <1>1, <1>2, <1>3, <1>4, <1>5, <1>6, <1>7, <1>8, <1>9, <1>10, <1>11, <1>12, <1>13,
     <1>14 DEF Next, Progress

-----------------------------------------------------------------------------
(* Revisions. *)

\* Every step keeps stored and shared answers at or above the revision of their key.
LEMMA FreshnessStep ==
  StateTypes /\ SharingInv /\ FreshnessInv /\ [Next]_vars => FreshnessInv'
<1> SUFFICES ASSUME StateTypes, SharingInv, FreshnessInv, [Next]_vars
             PROVE FreshnessInv'
  OBVIOUS
<1> USE ConstantsAssumption, ConstantResponses, ResponseFields
    DEF StateTypes, FreshnessInv, KeysAreCommitted, KeysAreRecent, EntriesCover,
        AnswersCover, SharedCover, Started, Stored
<1>1. CASE Tick
  BY <1>1 DEF Tick, cache, request
<1>2. CASE CommitSync
  <2>1. committed \in Int /\ committed' = committed + 1
    BY <1>2 DEF CommitSync, Revisions
  <2>2. key' = key /\ pc' = pc /\ since' = since
    BY <1>2 DEF CommitSync, request
  <2>3. \A r \in Requests : key[r].revision \in Int /\ since[r] \in Int
    BY DEF Revisions
  <2>4. KeysAreCommitted'
    BY <2>1, <2>2, <2>3
  <2>5. KeysAreRecent'
    BY <2>1, <2>2, <2>3
  <2> QED BY <1>2, <2>4, <2>5 DEF CommitSync, cache, request
<1>3. ASSUME NEW r \in Requests, Begin(r) PROVE FreshnessInv'
  BY <1>3 DEF Begin, cache
<1>4. ASSUME NEW r \in Requests, ReadRevision(r) PROVE FreshnessInv'
  BY <1>4 DEF ReadRevision, ReadableRevisions, cache, NoRevision
<1>5. ASSUME NEW r \in Requests, LookupHit(r) PROVE FreshnessInv'
  <2>1. key[r] \in Keys /\ entries[key[r]] \in Entries /\ now \in Nat
    OBVIOUS
  <2>2. entries[key[r]].expiresAt > 0
    BY <1>5, <2>1 DEF LookupHit, Fresh, Entries
  <2>3. key[r].revision <= entries[key[r]].response.evaluated
    BY <2>1, <2>2
  <2> QED BY <1>5, <2>3 DEF LookupHit, Answered
<1>6. ASSUME NEW r \in Requests, LookupWait(r) PROVE FreshnessInv'
  BY <1>6 DEF LookupWait, RemoveExpired
<1>7. ASSUME NEW r \in Requests, LookupLead(r) PROVE FreshnessInv'
  BY <1>7 DEF LookupLead, RemoveExpired
<1>8. ASSUME NEW r \in Requests, WaitAnswered(r) PROVE FreshnessInv'
  BY <1>8 DEF WaitAnswered, Answered, cache, SharingInv, WaitersFollow
<1>9. ASSUME NEW r \in Requests, WaitRetry(r) PROVE FreshnessInv'
  BY <1>9 DEF WaitRetry, cache
<1>10. ASSUME NEW r \in Requests, AcquirePermit(r) PROVE FreshnessInv'
  BY <1>10 DEF AcquirePermit, cache
<1>11. ASSUME NEW r \in Requests, RouteAndFilter(r) PROVE FreshnessInv'
  BY <1>11 DEF RouteAndFilter, cache
<1>12. ASSUME NEW r \in Requests, Finish(r) PROVE FreshnessInv'
  <2>1. EntriesCover'
    <3>1. CASE Cacheable(r)
      BY <1>12, <3>1, InsertEffect DEF Finish
    <3>2. CASE ~Cacheable(r)
      BY <1>12, <3>2 DEF Finish
    <3> QED BY <3>1, <3>2
  <2>2. SharedCover'
    BY <1>12 DEF Finish, Answered
  <2> QED BY <1>12, <2>1, <2>2 DEF Finish, Answered
<1>13. ASSUME NEW r \in Requests, Cancel(r) PROVE FreshnessInv'
  BY <1>13 DEF Cancel, Abandoned, Leading
<1>14. CASE UNCHANGED vars
  BY <1>14 DEF vars, cache, request
<1> QED
  BY <1>1, <1>2, <1>3, <1>4, <1>5, <1>6, <1>7, <1>8, <1>9, <1>10, <1>11, <1>12, <1>13,
     <1>14 DEF Next, Progress

-----------------------------------------------------------------------------
(* The theorems. *)

\* The invariant holds of an empty cache.
LEMMA InitInv == Init => IInv
<1> SUFFICES ASSUME Init PROVE IInv
  OBVIOUS
<1>1. StateTypes
  BY InitTypes
<1>2. SharingInv
  BY <1>1, ConstantResponses
     DEF Init, SharingInv, LeadersAreInflight, InflightLeads, PendingLeads,
         WaitersFollow, FinishedFills, Leading
<1>3. FreshnessInv
  BY <1>1, ConstantsAssumption, ConstantResponses, ResponseFields
     DEF Init, FreshnessInv, KeysAreCommitted, KeysAreRecent, EntriesCover,
         AnswersCover, SharedCover, Started, Stored, NoRevision
<1> QED BY <1>1, <1>2, <1>3 DEF IInv

\* The inductive invariant of the cache: types, who leads and waits, what revisions
\* stored and shared answers cover (metadata_cache.rs).
THEOREM CacheInvariant == Spec => []IInv
<1>1. Init => IInv
  BY InitInv
<1>2. IInv /\ [Next]_vars => IInv'
  BY TypesStep, SharingStep, FreshnessStep DEF IInv, SharingInv
<1> QED BY <1>1, <1>2, PTL DEF Spec

\* MetadataCache::execute: no request is answered, by a hit, a shared fill or its own,
\* with metadata filtered on content older than what was committed when it began.
THEOREM AnswersNeverStale == Spec => []AnswersAreFresh
<1>1. IInv => AnswersAreFresh
  <2> SUFFICES ASSUME IInv, NEW r \in Requests, pc[r] = "done",
                      key[r].revision # NoRevision
               PROVE  since[r] <= answer[r].evaluated
    BY DEF AnswersAreFresh
  <2>1. since[r] \in Int /\ key[r].revision \in Int /\ answer[r].evaluated \in Int
    BY ResponseFields, ConstantsAssumption DEF IInv, StateTypes, Revisions
  <2>2. since[r] <= key[r].revision
    BY DEF IInv, FreshnessInv, KeysAreRecent, Started
  <2>3. key[r].revision <= answer[r].evaluated
    BY DEF IInv, FreshnessInv, AnswersCover
  <2> QED BY <2>1, <2>2, <2>3
<1> QED BY <1>1, CacheInvariant, PTL

\* MetadataCache::lookup: two requests never fill one key at the same time.
THEOREM SingleFill == Spec => []OneFillPerKey
<1>1. IInv => OneFillPerKey
  BY DEF IInv, SharingInv, LeadersAreInflight, OneFillPerKey
<1> QED BY <1>1, CacheInvariant, PTL

\* FillLeader::drop and complete: a waiter is never left on a fill nobody makes.
THEOREM WaitersAreLed == Spec => []NoLostWaiter
<1>1. IInv => NoLostWaiter
  BY DEF IInv, SharingInv, LeadersAreInflight, PendingLeads, WaitersFollow, NoLostWaiter
<1> QED BY <1>1, CacheInvariant, PTL

-----------------------------------------------------------------------------
(* What a hit replays. *)

\* CacheState::insert: an entry expires by the moment its response stops being valid.
LEMMA ExpiresInTime ==
  StateTypes => \A response \in Responses : Expiration(response) <= response.validUntil
BY ResponseFields, ConstantsAssumption DEF StateTypes, Expiration, Soonest

\* Every step keeps stored entries complete, successful and expiring in time.
LEMMA StoredStep == StateTypes /\ StoredAreCurrent /\ [Next]_vars => StoredAreCurrent'
<1> SUFFICES ASSUME StateTypes, StoredAreCurrent, [Next]_vars PROVE StoredAreCurrent'
  OBVIOUS
<1>1. ASSUME UNCHANGED entries PROVE StoredAreCurrent'
  BY <1>1 DEF StoredAreCurrent, Stored
<1>2. ASSUME NEW k \in Keys, RemoveExpired(k) PROVE StoredAreCurrent'
  BY <1>2, ConstantResponses DEF StateTypes, StoredAreCurrent, Stored, RemoveExpired
<1>3. ASSUME NEW r \in Requests, Finish(r), Cacheable(r) PROVE StoredAreCurrent'
  <2>1. key[r] \in Keys /\ answer[r] \in Responses /\ Insert(key[r], answer[r])
    BY <1>3 DEF Finish, StateTypes
  <2>2. answer[r].kind = "ok" /\ Expiration(answer[r]) <= answer[r].validUntil
    BY <1>3, <2>1, ExpiresInTime DEF Cacheable
  <2>3. \A j \in Keys :
          \/ /\ j = key[r] /\ entries'[j].response = answer[r]
             /\ entries'[j].expiresAt = Expiration(answer[r])
          \/ entries'[j] = NoEntry
          \/ entries'[j] = entries[j]
    BY <2>1, InsertEffect
  <2> QED BY <2>2, <2>3, ConstantResponses DEF StoredAreCurrent, Stored
<1>4. ASSUME NEW r \in Requests, Begin(r) \/ Progress(r) \/ Cancel(r)
      PROVE  \/ UNCHANGED entries \/ RemoveExpired(key[r])
             \/ Finish(r) /\ Cacheable(r)
  BY <1>4 DEF Begin, Progress, Cancel, ReadRevision, LookupHit, LookupWait, LookupLead,
              WaitAnswered, WaitRetry, AcquirePermit, RouteAndFilter, Finish, cache
<1>5. CASE Tick \/ CommitSync \/ UNCHANGED vars
  BY <1>1, <1>5 DEF Tick, CommitSync, vars, cache
<1>6. ASSUME NEW r \in Requests, Begin(r) \/ Progress(r) \/ Cancel(r)
      PROVE StoredAreCurrent'
  BY <1>1, <1>2, <1>3, <1>4, <1>6 DEF StateTypes
<1> QED BY <1>5, <1>6 DEF Next

\* A request leaves its lookup with an answer only by replaying a fresh entry.
LEMMA OnlyHitsAnswer ==
  ASSUME StateTypes, Next, NEW r \in Requests, pc[r] = "lookup", pc'[r] = "done"
  PROVE  LookupHit(r)
<1>1. PICK q \in Requests : Begin(q) \/ Progress(q) \/ Cancel(q)
  BY DEF Next, Tick, CommitSync, request
<1>2. CASE q # r
  BY <1>1, <1>2 DEF StateTypes, Begin, Progress, Cancel, ReadRevision, LookupHit,
     LookupWait, LookupLead, WaitAnswered, WaitRetry, AcquirePermit, RouteAndFilter,
     Finish, Answered
<1>3. CASE q = r
  BY <1>1, <1>3 DEF StateTypes, Begin, Progress, Cancel, ReadRevision, LookupWait,
     LookupLead, WaitAnswered, WaitRetry, AcquirePermit, RouteAndFilter, Finish, Leading
<1> QED BY <1>2, <1>3

\* MetadataCache::lookup: a hit replays a complete, successful answer before the moment a
\* version hidden for its age becomes servable.
THEOREM HitsStayCurrent == Spec => HitsAreCurrent
<1>1. Init => StoredAreCurrent
  BY ConstantResponses DEF Init, StoredAreCurrent, Stored
<1>2. IInv /\ StoredAreCurrent /\ [Next]_vars => StoredAreCurrent'
  BY StoredStep DEF IInv
<1>3. IInv /\ StoredAreCurrent /\ [Next]_vars =>
        [\A r \in Requests :
           pc[r] = "lookup" /\ pc'[r] = "done" =>
             /\ answer'[r].kind = "ok" /\ now < answer'[r].validUntil]_vars
  <2> SUFFICES ASSUME IInv, StoredAreCurrent, Next, NEW r \in Requests,
                      pc[r] = "lookup", pc'[r] = "done"
               PROVE  /\ answer'[r].kind = "ok" /\ now < answer'[r].validUntil
    OBVIOUS
  <2>1. StateTypes
    BY DEF IInv
  <2>2. LookupHit(r)
    BY <2>1, OnlyHitsAnswer
  <2>3. key[r] \in Keys /\ entries[key[r]] \in Entries /\ now \in Nat
    BY <2>1, ConstantsAssumption DEF StateTypes
  <2>4. answer'[r] = entries[key[r]].response
    BY <2>1, <2>2 DEF StateTypes, LookupHit, Answered
  <2>5. now < entries[key[r]].expiresAt /\ Stored(key[r])
    BY <2>2, <2>3, ResponseFields DEF LookupHit, Fresh, Stored, Entries
  <2>6. entries[key[r]].expiresAt \in Int /\ entries[key[r]].response.validUntil \in Int
    BY <2>3, ResponseFields DEF Entries
  <2> QED BY <2>3, <2>4, <2>5, <2>6 DEF StoredAreCurrent
<1> QED BY <1>1, <1>2, <1>3, CacheInvariant, PTL DEF Spec, HitsAreCurrent

-----------------------------------------------------------------------------
(* Sequences, place by place. *)

IsSeq(s) == s \in Seq(Range(s))

\* The places of a sequence are the numbers from one to its length.
LEMMA SeqPlaces ==
  ASSUME NEW s, IsSeq(s)
  PROVE  Len(s) \in Nat /\ DOMAIN s = 1..Len(s)
BY LenProperties DEF IsSeq

\* A sequence of any members is one of its own.
LEMMA SeqIs ==
  ASSUME NEW S, NEW s \in Seq(S)
  PROVE  IsSeq(s)
BY SeqOfRange DEF IsSeq

\* Sequences with the same members at the same places are the same.
LEMMA SameSeq ==
  ASSUME NEW s, NEW t, IsSeq(s), IsSeq(t), Len(s) = Len(t), \A i \in 1..Len(s) : s[i] = t[i]
  PROVE  s = t
<1> DEFINE S == Range(s) \cup Range(t)
<1>1. s \in Seq(S) /\ t \in Seq(S)
  BY SeqMonotonic DEF IsSeq
<1> HIDE DEF S
<1> QED BY <1>1, SeqEqual

\* A function over the numbers up to n is a sequence of length n.
LEMMA MadeSeq ==
  ASSUME NEW n \in Nat, NEW s, s = [i \in 1..n |-> s[i]]
  PROVE  IsSeq(s) /\ Len(s) = n
<1> DEFINE S == {s[i] : i \in 1..n}
<1>1. s \in [1..n -> S]
  OBVIOUS
<1>2. s \in Seq(S)
  <2> HIDE DEF S
  <2> QED BY <1>1, SeqDef
<1>3. IsSeq(s) /\ DOMAIN s = 1..Len(s) /\ Len(s) \in Nat /\ DOMAIN s = 1..n
  BY <1>1, <1>2, SeqIs, SeqPlaces
<1> QED BY <1>3

\* Append keeps every place and adds one.
LEMMA Appended ==
  ASSUME NEW s, IsSeq(s), NEW e
  PROVE  /\ IsSeq(Append(s, e)) /\ Len(Append(s, e)) = Len(s) + 1
         /\ \A i \in 1..Len(s) : Append(s, e)[i] = s[i]
         /\ Append(s, e)[Len(s) + 1] = e
<1> DEFINE S == Range(s) \cup {e}
<1>1. s \in Seq(S) /\ e \in S
  BY SeqMonotonic DEF IsSeq
<1> HIDE DEF S
<1>2. /\ Append(s, e) \in Seq(S) /\ Len(Append(s, e)) = Len(s) + 1
      /\ \A i \in 1..Len(s) : Append(s, e)[i] = s[i]
      /\ Append(s, e)[Len(s) + 1] = e
  BY <1>1, AppendProperties
<1>3. IsSeq(Append(s, e))
  BY <1>2, SeqIs
<1> QED BY <1>2, <1>3

\* A sequence that differs at one place keeps its length and its other members.
LEMMA Excepted ==
  ASSUME NEW s, IsSeq(s), NEW i \in 1..Len(s), NEW e
  PROVE  /\ IsSeq([s EXCEPT ![i] = e]) /\ Len([s EXCEPT ![i] = e]) = Len(s)
         /\ \A j \in 1..Len(s) : [s EXCEPT ![i] = e][j] = IF j = i THEN e ELSE s[j]
<1> DEFINE S == Range(s) \cup {e}
<1>1. s \in Seq(S) /\ e \in S
  BY SeqMonotonic DEF IsSeq
<1> HIDE DEF S
<1>2. /\ [s EXCEPT ![i] = e] \in Seq(S) /\ Len([s EXCEPT ![i] = e]) = Len(s)
      /\ \A j \in 1..Len(s) : [s EXCEPT ![i] = e][j] = IF j = i THEN e ELSE s[j]
  BY <1>1, ExceptSeq
<1>3. IsSeq([s EXCEPT ![i] = e])
  BY <1>2, SeqIs
<1> QED BY <1>2, <1>3

\* The rest of a sequence.
LEMMA RestOfSeq ==
  ASSUME NEW s, IsSeq(s), NEW m \in 0..Len(s)
  PROVE  /\ IsSeq(SubSeq(s, m + 1, Len(s))) /\ Len(SubSeq(s, m + 1, Len(s))) = Len(s) - m
         /\ \A i \in 1..Len(s) - m : SubSeq(s, m + 1, Len(s))[i] = s[m + i]
<1>1. Len(s) \in Nat /\ \A i \in m + 1..Len(s) : s[i] \in Range(s)
  BY SeqPlaces DEF Range
<1>2. /\ SubSeq(s, m + 1, Len(s)) \in Seq(Range(s))
      /\ Len(SubSeq(s, m + 1, Len(s))) =
           IF m + 1 <= Len(s) THEN Len(s) - (m + 1) + 1 ELSE 0
      /\ \A i \in 1..Len(s) - (m + 1) + 1 :
           SubSeq(s, m + 1, Len(s))[i] = s[(m + 1) + i - 1]
  BY <1>1, SubSeqProperties
<1>3. \A i \in 1..Len(s) - m : (m + 1) + i - 1 = m + i /\ i \in 1..Len(s) - (m + 1) + 1
  BY <1>1
<1> DEFINE t == SubSeq(s, m + 1, Len(s))
<1>4. /\ t \in Seq(Range(s))
      /\ Len(t) = IF m + 1 <= Len(s) THEN Len(s) - (m + 1) + 1 ELSE 0
      /\ \A i \in 1..Len(s) - (m + 1) + 1 : t[i] = s[(m + 1) + i - 1]
  BY <1>2
<1> HIDE DEF t
<1>5. IsSeq(t)
  BY <1>4, SeqIs
<1>6. Len(t) = Len(s) - m
  BY <1>1, <1>4
<1>7. \A i \in 1..Len(s) - m : t[i] = s[m + i]
  BY <1>1, <1>3, <1>4
<1> QED BY <1>5, <1>6, <1>7 DEF t

\* All of a sequence but its last member.
LEMMA FrontOfSeq ==
  ASSUME NEW s, IsSeq(s), Len(s) > 0
  PROVE  /\ IsSeq(Front(s)) /\ Len(Front(s)) = Len(s) - 1
         /\ \A i \in 1..Len(s) - 1 : Front(s)[i] = s[i]
<1>1. Len(s) \in Nat /\ \A i \in 1..Len(s) - 1 : s[i] \in Range(s)
  BY SeqPlaces DEF Range
<1>2. /\ Front(s) \in Seq(Range(s))
      /\ Len(Front(s)) = IF 1 <= Len(s) - 1 THEN (Len(s) - 1) - 1 + 1 ELSE 0
      /\ \A i \in 1..(Len(s) - 1) - 1 + 1 : Front(s)[i] = s[1 + i - 1]
  BY <1>1, SubSeqProperties DEF Front
<1>3. IsSeq(Front(s))
  BY <1>2, SeqIs
<1>4. \A i \in 1..Len(s) - 1 : i \in 1..(Len(s) - 1) - 1 + 1 /\ 1 + i - 1 = i
  BY <1>1
<1>5. \A i \in 1..Len(s) - 1 : Front(s)[i] = s[i]
  BY <1>2, <1>4
<1>6. Len(Front(s)) = Len(s) - 1
  <2> DEFINE n == Len(s)
             m == Len(Front(s))
  <2>1. n \in Nat /\ n > 0 /\ m = IF 1 <= n - 1 THEN (n - 1) - 1 + 1 ELSE 0
    BY <1>1, <1>2
  <2> HIDE DEF n, m
  <2>2. m = n - 1
    BY <2>1
  <2> QED BY <2>2 DEF n, m
<1> QED BY <1>3, <1>5, <1>6

\* A sequence without the member at a place.
LEMMA RemovedAt ==
  ASSUME NEW s, IsSeq(s), NEW i \in 1..Len(s)
  PROVE  /\ IsSeq(RemoveAt(s, i)) /\ Len(RemoveAt(s, i)) = Len(s) - 1
         /\ \A j \in 1..Len(s) - 1 : RemoveAt(s, i)[j] = IF j < i THEN s[j] ELSE s[j + 1]
<1> DEFINE left == SubSeq(s, 1, i - 1)
           right == SubSeq(s, i + 1, Len(s))
<1>1. Len(s) \in Nat /\ \A j \in 1..Len(s) : s[j] \in Range(s)
  BY SeqPlaces DEF Range
<1>2. /\ left \in Seq(Range(s)) /\ Len(left) = i - 1 /\ \A j \in 1..i - 1 : left[j] = s[j]
  <2>1. /\ left \in Seq(Range(s)) /\ Len(left) = IF 1 <= i - 1 THEN (i - 1) - 1 + 1 ELSE 0
        /\ \A j \in 1..(i - 1) - 1 + 1 : left[j] = s[1 + j - 1]
    BY <1>1, SubSeqProperties
  <2> QED BY <1>1, <2>1
<1>3. /\ right \in Seq(Range(s)) /\ Len(right) = Len(s) - i
      /\ \A j \in 1..Len(s) - i : right[j] = s[i + j]
  <2>1. /\ right \in Seq(Range(s))
        /\ Len(right) = IF i + 1 <= Len(s) THEN Len(s) - (i + 1) + 1 ELSE 0
        /\ \A j \in 1..Len(s) - (i + 1) + 1 : right[j] = s[(i + 1) + j - 1]
    BY <1>1, SubSeqProperties
  <2> QED BY <1>1, <2>1
<1>4. RemoveAt(s, i) = left \o right
  BY DEF RemoveAt
<1> HIDE DEF left, right
<1>5. /\ RemoveAt(s, i) \in Seq(Range(s))
      /\ Len(RemoveAt(s, i)) = Len(left) + Len(right)
      /\ \A j \in 1..Len(left) + Len(right) :
           RemoveAt(s, i)[j] = IF j <= Len(left) THEN left[j] ELSE right[j - Len(left)]
  <2>1. /\ left \o right \in Seq(Range(s)) /\ Len(left \o right) = Len(left) + Len(right)
        /\ \A j \in 1..Len(left) + Len(right) :
             (left \o right)[j] = IF j <= Len(left) THEN left[j] ELSE right[j - Len(left)]
    BY <1>2, <1>3, ConcatProperties
  <2> QED BY <1>4, <2>1
<1>6. ASSUME NEW j \in 1..Len(s) - 1
      PROVE  RemoveAt(s, i)[j] = IF j < i THEN s[j] ELSE s[j + 1]
  <2>1. CASE j < i
    BY <1>1, <1>2, <1>3, <1>5, <2>1
  <2>2. CASE j >= i
    <3>1. j - (i - 1) \in 1..Len(s) - i /\ i + (j - (i - 1)) = j + 1
      BY <1>1, <2>2
    <3>2. RemoveAt(s, i)[j] = right[j - (i - 1)]
      <4>1. j \in 1..Len(left) + Len(right) /\ ~(j <= Len(left)) /\ Len(left) = i - 1
        BY <1>1, <1>2, <1>3, <2>2
      <4> QED BY <1>5, <4>1
    <3> QED BY <1>3, <2>2, <3>1, <3>2
  <2> QED BY <1>1, <2>1, <2>2
<1>7. IsSeq(RemoveAt(s, i))
  BY <1>5, SeqIs
<1>8. Len(RemoveAt(s, i)) = Len(s) - 1
  <2> DEFINE m == Len(RemoveAt(s, i))
  <2>1. m = Len(left) + Len(right) /\ Len(left) = i - 1 /\ Len(right) = Len(s) - i
    BY <1>2, <1>3, <1>5
  <2> HIDE DEF m
  <2> QED BY <1>1, <2>1 DEF m
<1> QED BY <1>6, <1>7, <1>8
-----------------------------------------------------------------------------
(* The recency list: what the pointers say after each change of them. *)

IsNode(x) ==
  x = [key |-> x.key, weight |-> x.weight, previous |-> x.previous, next |-> x.next]
IsListState(s) ==
  s = [entries |-> s.entries, nodes |-> s.nodes, free |-> s.free, head |-> s.head,
       tail |-> s.tail, weight |-> s.weight]
Holds(s, index) == index \in 1..Len(s.nodes) /\ IsNode(s.nodes[index])

\* The slots hold the same keys and weights, whatever the pointers are.
SameLoad(s, t) ==
  /\ IsListState(t) /\ IsSeq(t.nodes) /\ Len(t.nodes) = Len(s.nodes)
  /\ t.entries = s.entries /\ t.free = s.free /\ t.weight = s.weight
  /\ \A x : Holds(s, x) =>
       /\ Holds(t, x)
       /\ t.nodes[x].key = s.nodes[x].key /\ t.nodes[x].weight = s.nodes[x].weight

\* A pointer forward, or to the first slot, is another; a pointer back, or to the last.
CanPoint(s, index) ==
  IsListState(s) /\ IsSeq(s.nodes) /\ (index = NoIndex \/ Holds(s, index))
Forwarded(s, t, index, to) ==
  /\ SameLoad(s, t) /\ t.tail = s.tail
  /\ t.head = IF index = NoIndex THEN to ELSE s.head
  /\ \A x : Holds(s, x) =>
       /\ t.nodes[x].next = IF x = index THEN to ELSE s.nodes[x].next
       /\ t.nodes[x].previous = s.nodes[x].previous
Backed(s, t, index, to) ==
  /\ SameLoad(s, t) /\ t.head = s.head
  /\ t.tail = IF index = NoIndex THEN to ELSE s.tail
  /\ \A x : Holds(s, x) =>
       /\ t.nodes[x].previous = IF x = index THEN to ELSE s.nodes[x].previous
       /\ t.nodes[x].next = s.nodes[x].next

\* The slot before points forward, or the list begins elsewhere when there is none.
LEMMA ForwardReads ==
  ASSUME NEW s, NEW index, CanPoint(s, index), NEW to
  PROVE  Forwarded(s, PointForward(s, index, to), index, to)
<1> DEFINE t == PointForward(s, index, to)
<1>4. IsListState(s) /\ IsSeq(s.nodes) /\ (index = NoIndex \/ Holds(s, index))
  BY DEF CanPoint
<1>1. Len(s.nodes) \in Nat /\ NoIndex \notin 1..Len(s.nodes)
  BY <1>4, SeqPlaces DEF NoIndex
<1>2. CASE index = NoIndex
  <2>1. /\ IsListState(t) /\ t.head = to /\ t.nodes = s.nodes /\ t.tail = s.tail
        /\ t.entries = s.entries /\ t.free = s.free /\ t.weight = s.weight
    BY <1>2, <1>4 DEF PointForward, IsListState
  <2> HIDE DEF t
  <2>2. SameLoad(s, t)
    BY <1>4, <2>1 DEF SameLoad, Holds
  <2>3. \A x : Holds(s, x) => x # index
    BY <1>1, <1>2 DEF Holds
  <2>4. \A x : Holds(s, x) =>
          /\ t.nodes[x].next = IF x = index THEN to ELSE s.nodes[x].next
          /\ t.nodes[x].previous = s.nodes[x].previous
    BY <2>1, <2>3
  <2>9. Forwarded(s, t, index, to)
    BY <1>2, <2>1, <2>2, <2>4 DEF Forwarded
  <2> QED BY <2>9 DEF t
<1>3. CASE index # NoIndex
  <2>1. index \in 1..Len(s.nodes) /\ IsNode(s.nodes[index])
    BY <1>3, <1>4 DEF Holds
  <2> DEFINE node == [s.nodes[index] EXCEPT !.next = to]
             nodes2 == [s.nodes EXCEPT ![index] = node]
  <2>2. /\ IsNode(node) /\ node.key = s.nodes[index].key
        /\ node.weight = s.nodes[index].weight
        /\ node.previous = s.nodes[index].previous /\ node.next = to
    BY <2>1 DEF IsNode
  <2>3. t = [s EXCEPT !.nodes = nodes2]
    BY <1>3 DEF PointForward
  <2> HIDE DEF node
  <2>4. /\ IsSeq(nodes2) /\ Len(nodes2) = Len(s.nodes)
        /\ \A x \in 1..Len(s.nodes) : nodes2[x] = IF x = index THEN node ELSE s.nodes[x]
    BY <1>4, <2>1, Excepted
  <2> HIDE DEF nodes2
  <2>5. /\ IsListState(t) /\ t.head = s.head /\ t.nodes = nodes2 /\ t.tail = s.tail
        /\ t.entries = s.entries /\ t.free = s.free /\ t.weight = s.weight
    BY <1>4, <2>3 DEF IsListState
  <2> HIDE DEF t
  <2>6. \A x : Holds(s, x) => t.nodes[x] = IF x = index THEN node ELSE s.nodes[x]
    BY <2>4, <2>5 DEF Holds
  <2>7. SameLoad(s, t)
    BY <2>2, <2>4, <2>5, <2>6 DEF SameLoad, Holds
  <2>8. \A x : Holds(s, x) =>
          /\ t.nodes[x].next = IF x = index THEN to ELSE s.nodes[x].next
          /\ t.nodes[x].previous = s.nodes[x].previous
    BY <2>2, <2>6
  <2>9. Forwarded(s, t, index, to)
    BY <1>3, <2>5, <2>7, <2>8 DEF Forwarded
  <2> QED BY <2>9 DEF t
<1> QED BY <1>2, <1>3

\* The slot after points back, or the list ends elsewhere when there is none.
LEMMA BackReads ==
  ASSUME NEW s, NEW index, CanPoint(s, index), NEW to
  PROVE  Backed(s, PointBack(s, index, to), index, to)
<1> DEFINE t == PointBack(s, index, to)
<1>4. IsListState(s) /\ IsSeq(s.nodes) /\ (index = NoIndex \/ Holds(s, index))
  BY DEF CanPoint
<1>1. Len(s.nodes) \in Nat /\ NoIndex \notin 1..Len(s.nodes)
  BY <1>4, SeqPlaces DEF NoIndex
<1>2. CASE index = NoIndex
  <2>1. /\ IsListState(t) /\ t.tail = to /\ t.nodes = s.nodes /\ t.head = s.head
        /\ t.entries = s.entries /\ t.free = s.free /\ t.weight = s.weight
    BY <1>2, <1>4 DEF PointBack, IsListState
  <2> HIDE DEF t
  <2>2. SameLoad(s, t)
    BY <1>4, <2>1 DEF SameLoad, Holds
  <2>3. \A x : Holds(s, x) => x # index
    BY <1>1, <1>2 DEF Holds
  <2>4. \A x : Holds(s, x) =>
          /\ t.nodes[x].previous = IF x = index THEN to ELSE s.nodes[x].previous
          /\ t.nodes[x].next = s.nodes[x].next
    BY <2>1, <2>3
  <2>9. Backed(s, t, index, to)
    BY <1>2, <2>1, <2>2, <2>4 DEF Backed
  <2> QED BY <2>9 DEF t
<1>3. CASE index # NoIndex
  <2>1. index \in 1..Len(s.nodes) /\ IsNode(s.nodes[index])
    BY <1>3, <1>4 DEF Holds
  <2> DEFINE node == [s.nodes[index] EXCEPT !.previous = to]
             nodes2 == [s.nodes EXCEPT ![index] = node]
  <2>2. /\ IsNode(node) /\ node.key = s.nodes[index].key
        /\ node.weight = s.nodes[index].weight
        /\ node.next = s.nodes[index].next /\ node.previous = to
    BY <2>1 DEF IsNode
  <2>3. t = [s EXCEPT !.nodes = nodes2]
    BY <1>3 DEF PointBack
  <2> HIDE DEF node
  <2>4. /\ IsSeq(nodes2) /\ Len(nodes2) = Len(s.nodes)
        /\ \A x \in 1..Len(s.nodes) : nodes2[x] = IF x = index THEN node ELSE s.nodes[x]
    BY <1>4, <2>1, Excepted
  <2> HIDE DEF nodes2
  <2>5. /\ IsListState(t) /\ t.head = s.head /\ t.nodes = nodes2 /\ t.tail = s.tail
        /\ t.entries = s.entries /\ t.free = s.free /\ t.weight = s.weight
    BY <1>4, <2>3 DEF IsListState
  <2> HIDE DEF t
  <2>6. \A x : Holds(s, x) => t.nodes[x] = IF x = index THEN node ELSE s.nodes[x]
    BY <2>4, <2>5 DEF Holds
  <2>7. SameLoad(s, t)
    BY <2>2, <2>4, <2>5, <2>6 DEF SameLoad, Holds
  <2>8. \A x : Holds(s, x) =>
          /\ t.nodes[x].previous = IF x = index THEN to ELSE s.nodes[x].previous
          /\ t.nodes[x].next = s.nodes[x].next
    BY <2>2, <2>6
  <2>9. Backed(s, t, index, to)
    BY <1>3, <2>5, <2>7, <2>8 DEF Backed
  <2> QED BY <2>9 DEF t
<1> QED BY <1>2, <1>3

\* Taking a slot out of the list joins its neighbours, or what says where the list begins and
\* ends.
LEMMA UnlinkReads ==
  ASSUME NEW s, IsListState(s), IsSeq(s.nodes), NEW index, Holds(s, index),
         NEW p, p = s.nodes[index].previous, p = NoIndex \/ Holds(s, p),
         NEW n, n = s.nodes[index].next, n = NoIndex \/ Holds(s, n),
         NEW t, t = Unlink(s, index)
  PROVE  /\ SameLoad(s, t)
         /\ t.head = IF p = NoIndex THEN n ELSE s.head
         /\ t.tail = IF n = NoIndex THEN p ELSE s.tail
         /\ \A x : Holds(s, x) =>
              /\ t.nodes[x].next = IF x = p THEN n ELSE s.nodes[x].next
              /\ t.nodes[x].previous = IF x = n THEN p ELSE s.nodes[x].previous
<1> DEFINE u == PointForward(s, p, n)
<1>1. t = PointBack(u, n, p)
  BY DEF Unlink
<1>2. Forwarded(s, u, p, n)
  BY ForwardReads DEF CanPoint
<1> HIDE DEF u
<1>3. CanPoint(u, n)
  BY <1>2 DEF SameLoad, CanPoint, Forwarded
<1>4. Backed(u, t, n, p)
  BY <1>1, <1>3, BackReads
<1>5. \A x : Holds(s, x) => Holds(u, x)
  BY <1>2 DEF Forwarded, SameLoad
<1>6. SameLoad(s, t)
  BY <1>2, <1>4, <1>5 DEF SameLoad, Forwarded, Backed
<1> QED BY <1>2, <1>4, <1>5, <1>6 DEF Forwarded, Backed

\* A slot that is not in the list becomes its last.
LEMMA LinkLastReads ==
  ASSUME NEW s, IsListState(s), IsSeq(s.nodes), NEW index, Holds(s, index),
         s.tail = NoIndex \/ (Holds(s, s.tail) /\ s.tail # index),
         NEW t, t = LinkLast(s, index)
  PROVE  /\ SameLoad(s, t) /\ t.tail = index
         /\ t.head = IF s.tail = NoIndex THEN index ELSE s.head
         /\ \A x : Holds(s, x) =>
              /\ t.nodes[x].next = IF x = index THEN NoIndex
                                   ELSE IF x = s.tail THEN index ELSE s.nodes[x].next
              /\ t.nodes[x].previous = IF x = index THEN s.tail ELSE s.nodes[x].previous
<1> DEFINE node == [key |-> s.nodes[index].key, weight |-> s.nodes[index].weight,
                    previous |-> s.tail, next |-> NoIndex]
           nodes2 == [s.nodes EXCEPT ![index] = node]
           alone == [s EXCEPT !.nodes[index].previous = s.tail, !.nodes[index].next = NoIndex]
           u == PointForward(alone, s.tail, index)
<1>1. index \in 1..Len(s.nodes) /\ IsNode(s.nodes[index]) /\ DOMAIN s.nodes = 1..Len(s.nodes)
  BY SeqPlaces DEF Holds
<1>2. /\ IsNode(node) /\ node.key = s.nodes[index].key
      /\ node.weight = s.nodes[index].weight
      /\ node.next = NoIndex /\ node.previous = s.tail
  BY DEF IsNode
<1>3. alone = [s EXCEPT !.nodes = nodes2]
  <2> DEFINE old == s.nodes[index]
             first == [s.nodes EXCEPT ![index].previous = s.tail]
  <2>3. first = [s.nodes EXCEPT ![index] = [old EXCEPT !.previous = s.tail]]
    OBVIOUS
  <2>4. [first EXCEPT ![index].next = NoIndex] =
           [s.nodes EXCEPT ![index] = [[old EXCEPT !.previous = s.tail] EXCEPT !.next = NoIndex]]
    BY <1>1, <2>3
  <2>5. [[old EXCEPT !.previous = s.tail] EXCEPT !.next = NoIndex] = node
    <3>1. IsNode(old)
      BY <1>1
    <3> HIDE DEF old
    <3>2. [[old EXCEPT !.previous = s.tail] EXCEPT !.next = NoIndex] =
            [key |-> old.key, weight |-> old.weight, previous |-> s.tail, next |-> NoIndex]
      <4> DEFINE k == old.key
                 w == old.weight
                 p == old.previous
                 n == old.next
      <4>1. old = [key |-> k, weight |-> w, previous |-> p, next |-> n]
        BY <3>1 DEF IsNode
      <4> HIDE DEF k, w, p, n
      <4>2. [old EXCEPT !.previous = s.tail] =
              [key |-> k, weight |-> w, previous |-> s.tail, next |-> n]
        BY <4>1
      <4> DEFINE mid == [old EXCEPT !.previous = s.tail]
      <4>4. mid = [key |-> k, weight |-> w, previous |-> s.tail, next |-> n]
        BY <4>2
      <4> HIDE DEF mid
      <4>5. [mid EXCEPT !.next = NoIndex] =
              [key |-> k, weight |-> w, previous |-> s.tail, next |-> NoIndex]
        BY <4>4
      <4>3. [[old EXCEPT !.previous = s.tail] EXCEPT !.next = NoIndex] =
              [key |-> k, weight |-> w, previous |-> s.tail, next |-> NoIndex]
        BY <4>5 DEF mid
      <4> QED BY <4>3 DEF k, w
    <3> QED BY <3>2 DEF old
  <2>1. nodes2 = [[s.nodes EXCEPT ![index].previous = s.tail] EXCEPT ![index].next = NoIndex]
    BY <2>4, <2>5
  <2>2. alone.nodes = [[s.nodes EXCEPT ![index].previous = s.tail] EXCEPT ![index].next = NoIndex]
    BY DEF IsListState
  <2> HIDE DEF nodes2
  <2> QED BY <2>1, <2>2 DEF IsListState
<1>4. t = [u EXCEPT !.tail = index]
  BY DEF LinkLast
<1> HIDE DEF node, alone
<1>5. /\ IsSeq(nodes2) /\ Len(nodes2) = Len(s.nodes)
      /\ \A x \in 1..Len(s.nodes) : nodes2[x] = IF x = index THEN node ELSE s.nodes[x]
  BY <1>1, Excepted
<1> HIDE DEF nodes2
<1>6. /\ IsListState(alone) /\ alone.head = s.head /\ alone.nodes = nodes2
      /\ alone.tail = s.tail
      /\ alone.entries = s.entries /\ alone.free = s.free /\ alone.weight = s.weight
  BY <1>3 DEF IsListState
<1>7. \A x : Holds(s, x) => alone.nodes[x] = IF x = index THEN node ELSE s.nodes[x]
  BY <1>5, <1>6 DEF Holds
<1>8. SameLoad(s, alone)
  BY <1>2, <1>5, <1>6, <1>7 DEF SameLoad, Holds
<1>9. CanPoint(alone, s.tail)
  BY <1>8 DEF SameLoad, CanPoint
<1>10. Forwarded(alone, u, s.tail, index)
  BY <1>9, ForwardReads
<1> HIDE DEF u
<1>11. /\ IsListState(t) /\ t.head = u.head /\ t.nodes = u.nodes /\ t.tail = index
       /\ t.entries = u.entries /\ t.free = u.free /\ t.weight = u.weight
  BY <1>4, <1>10 DEF IsListState, SameLoad, Forwarded
<1>12. SameLoad(s, t)
  BY <1>8, <1>10, <1>11 DEF SameLoad, Holds, Forwarded
<1>13. \A x : Holds(s, x) => Holds(alone, x)
  BY <1>8 DEF SameLoad
<1>14. ASSUME NEW x, Holds(s, x)
       PROVE  /\ t.nodes[x].next = IF x = index THEN NoIndex
                                   ELSE IF x = s.tail THEN index ELSE s.nodes[x].next
              /\ t.nodes[x].previous = IF x = index THEN s.tail ELSE s.nodes[x].previous
  <2>1. /\ t.nodes[x].next = IF x = s.tail THEN index ELSE alone.nodes[x].next
        /\ t.nodes[x].previous = alone.nodes[x].previous
    BY <1>10, <1>11, <1>13, <1>14 DEF Forwarded
  <2>2. x = index => x # s.tail
    BY <1>1, SeqPlaces DEF NoIndex
  <2> QED BY <1>2, <1>7, <1>14, <2>1, <2>2
<1> QED BY <1>6, <1>10, <1>11, <1>12, <1>14 DEF Forwarded

-----------------------------------------------------------------------------
(* The slots of the list, from the least to the most recently used. *)

SlotAt(c, i) == IF i \in 1..Len(c) THEN c[i] ELSE NoIndex

Chained(s, c) ==
  /\ IsListState(s) /\ IsSeq(s.nodes) /\ IsSeq(c)
  /\ \A i \in 1..Len(c) : Holds(s, c[i])
  /\ \A i, j \in 1..Len(c) : c[i] = c[j] => i = j
  /\ s.head = SlotAt(c, 1) /\ s.tail = SlotAt(c, Len(c))
  /\ \A i \in 1..Len(c) :
       s.nodes[c[i]].previous = SlotAt(c, i - 1) /\ s.nodes[c[i]].next = SlotAt(c, i + 1)

\* Without one of them the others are chained.
LEMMA UnlinkChains ==
  ASSUME NEW s, NEW c, Chained(s, c), NEW i \in 1..Len(c)
  PROVE  SameLoad(s, Unlink(s, c[i])) /\ Chained(Unlink(s, c[i]), RemoveAt(c, i))
<1> DEFINE t == Unlink(s, c[i])
           d == RemoveAt(c, i)
           p == SlotAt(c, i - 1)
           n == SlotAt(c, i + 1)
           old(j) == IF j < i THEN j ELSE j + 1
<1>1. /\ Len(c) \in Nat /\ IsSeq(c) /\ Len(s.nodes) \in Nat
      /\ IsListState(s) /\ IsSeq(s.nodes) /\ Holds(s, c[i])
      /\ p = s.nodes[c[i]].previous /\ n = s.nodes[c[i]].next
  BY SeqPlaces DEF Chained
<1>2. (p = NoIndex \/ Holds(s, p)) /\ (n = NoIndex \/ Holds(s, n))
  BY DEF SlotAt, Chained
<1>3. /\ IsSeq(d) /\ Len(d) = Len(c) - 1
      /\ \A j \in 1..Len(c) - 1 : d[j] = c[old(j)] /\ old(j) \in 1..Len(c)
  <2>1. /\ IsSeq(d) /\ Len(d) = Len(c) - 1
        /\ \A j \in 1..Len(c) - 1 : d[j] = IF j < i THEN c[j] ELSE c[j + 1]
    BY <1>1, RemovedAt
  <2>2. \A j \in 1..Len(c) - 1 : old(j) \in 1..Len(c)
    BY <1>1
  <2> HIDE DEF d
  <2> QED BY <2>1, <2>2
<1> HIDE DEF p, n
<1>4. /\ SameLoad(s, t)
      /\ t.head = IF p = NoIndex THEN n ELSE s.head
      /\ t.tail = IF n = NoIndex THEN p ELSE s.tail
      /\ \A x : Holds(s, x) =>
           /\ t.nodes[x].next = IF x = p THEN n ELSE s.nodes[x].next
           /\ t.nodes[x].previous = IF x = n THEN p ELSE s.nodes[x].previous
  BY <1>1, <1>2, UnlinkReads
<1> HIDE DEF t, d
<1>5. \A k \in 1..Len(c) : Holds(s, c[k]) /\ c[k] # NoIndex
  BY <1>1 DEF Chained, Holds, NoIndex
<1>6. \A k \in 1..Len(c) :
        /\ c[k] = p <=> k = i - 1
        /\ c[k] = n <=> k = i + 1
  BY <1>1, <1>5 DEF p, n, SlotAt, Chained
<1>7. \A j \in 1..Len(d) : Holds(t, d[j])
  BY <1>3, <1>4, <1>5 DEF SameLoad
<1>8. \A j, k \in 1..Len(d) : d[j] = d[k] => j = k
  <2> SUFFICES ASSUME NEW j \in 1..Len(d), NEW k \in 1..Len(d), d[j] = d[k] PROVE j = k
    OBVIOUS
  <2>1. c[old(j)] = c[old(k)] /\ old(j) \in 1..Len(c) /\ old(k) \in 1..Len(c)
    BY <1>3
  <2>2. old(j) = old(k)
    BY <2>1 DEF Chained
  <2> QED BY <1>1, <1>3, <2>2
<1>9. t.head = SlotAt(d, 1) /\ t.tail = SlotAt(d, Len(d))
  <2>1. s.head = SlotAt(c, 1) /\ s.tail = SlotAt(c, Len(c))
    BY DEF Chained
  <2>2. t.head = SlotAt(d, 1)
    <3>1. CASE i = 1
      <4>1. p = NoIndex /\ n = IF Len(c) > 1 THEN c[2] ELSE NoIndex
        BY <1>1, <3>1 DEF p, n, SlotAt
      <4>2. Len(c) > 1 => d[1] = c[2]
        BY <1>1, <1>3, <3>1
      <4> QED BY <1>1, <1>3, <1>4, <4>1, <4>2 DEF SlotAt
    <3>2. CASE i > 1
      <4>1. p # NoIndex /\ s.head = c[1] /\ d[1] = c[1]
        BY <1>1, <1>3, <1>5, <2>1, <3>2 DEF p, SlotAt
      <4> QED BY <1>1, <1>3, <1>4, <3>2, <4>1 DEF SlotAt
    <3> QED BY <1>1, <3>1, <3>2
  <2>3. t.tail = SlotAt(d, Len(d))
    <3>1. CASE i = Len(c)
      <4>1. n = NoIndex /\ p = IF Len(c) > 1 THEN c[Len(c) - 1] ELSE NoIndex
        BY <1>1, <3>1 DEF p, n, SlotAt
      <4>2. Len(c) > 1 => d[Len(d)] = c[Len(c) - 1]
        BY <1>1, <1>3, <3>1
      <4> QED BY <1>1, <1>3, <1>4, <4>1, <4>2 DEF SlotAt
    <3>2. CASE i < Len(c)
      <4>1. n # NoIndex /\ s.tail = c[Len(c)] /\ d[Len(d)] = c[Len(c)]
        BY <1>1, <1>3, <1>5, <2>1, <3>2 DEF n, SlotAt
      <4> QED BY <1>1, <1>3, <1>4, <3>2, <4>1 DEF SlotAt
    <3> QED BY <1>1, <3>1, <3>2
  <2> QED BY <2>2, <2>3
<1>10. ASSUME NEW j \in 1..Len(d)
       PROVE  t.nodes[d[j]].previous = SlotAt(d, j - 1) /\ t.nodes[d[j]].next = SlotAt(d, j + 1)
  <2>1. /\ d[j] = c[old(j)] /\ old(j) \in 1..Len(c) /\ j \in 1..Len(c) - 1
        /\ t.nodes[d[j]].next = IF old(j) = i - 1 THEN n ELSE SlotAt(c, old(j) + 1)
        /\ t.nodes[d[j]].previous = IF old(j) = i + 1 THEN p ELSE SlotAt(c, old(j) - 1)
    <3>1. /\ d[j] = c[old(j)] /\ old(j) \in 1..Len(c) /\ j \in 1..Len(c) - 1
      BY <1>3
    <3> DEFINE m == old(j)
    <3> HIDE DEF m
    <3>2. /\ Holds(s, c[m]) /\ s.nodes[c[m]].next = SlotAt(c, m + 1)
          /\ s.nodes[c[m]].previous = SlotAt(c, m - 1)
          /\ c[m] = p <=> m = i - 1
          /\ c[m] = n <=> m = i + 1
      BY <1>5, <1>6, <3>1 DEF Chained, m
    <3>3. /\ t.nodes[c[m]].next = IF m = i - 1 THEN n ELSE SlotAt(c, m + 1)
          /\ t.nodes[c[m]].previous = IF m = i + 1 THEN p ELSE SlotAt(c, m - 1)
      BY <1>4, <3>2
    <3> QED BY <3>1, <3>3 DEF m
  <2>2. SlotAt(d, j + 1) = IF j + 1 <= Len(c) - 1 THEN c[old(j + 1)] ELSE NoIndex
    BY <1>1, <1>3 DEF SlotAt
  <2>3. SlotAt(d, j - 1) = IF j > 1 THEN c[old(j - 1)] ELSE NoIndex
    BY <1>1, <1>3 DEF SlotAt
  <2>4. t.nodes[d[j]].next = SlotAt(d, j + 1)
    BY <1>1, <2>1, <2>2 DEF n, SlotAt
  <2>5. t.nodes[d[j]].previous = SlotAt(d, j - 1)
    BY <1>1, <2>1, <2>3 DEF p, SlotAt
  <2> QED BY <2>4, <2>5
<1>11. IsListState(t) /\ IsSeq(t.nodes)
  BY <1>4 DEF SameLoad
<1>12. Chained(t, d)
  BY <1>3, <1>7, <1>8, <1>9, <1>10, <1>11 DEF Chained
<1> QED BY <1>4, <1>12 DEF t, d

\* A slot beside the list becomes its last.
LEMMA LinkLastChains ==
  ASSUME NEW s, NEW c, Chained(s, c), NEW index, Holds(s, index),
         \A i \in 1..Len(c) : c[i] # index
  PROVE  SameLoad(s, LinkLast(s, index)) /\ Chained(LinkLast(s, index), Append(c, index))
<1> DEFINE t == LinkLast(s, index)
           d == Append(c, index)
<1>1. /\ Len(c) \in Nat /\ IsSeq(c) /\ Len(s.nodes) \in Nat
      /\ IsListState(s) /\ IsSeq(s.nodes) /\ s.tail = SlotAt(c, Len(c)) /\ s.head = SlotAt(c, 1)
  BY SeqPlaces DEF Chained
<1>2. s.tail = NoIndex \/ (Holds(s, s.tail) /\ s.tail # index)
  BY <1>1 DEF SlotAt, Chained
<1>3. /\ IsSeq(d) /\ Len(d) = Len(c) + 1
      /\ \A j \in 1..Len(c) : d[j] = c[j]
      /\ d[Len(c) + 1] = index
  BY <1>1, Appended
<1>4. /\ SameLoad(s, t) /\ t.tail = index
      /\ t.head = IF s.tail = NoIndex THEN index ELSE s.head
      /\ \A x : Holds(s, x) =>
           /\ t.nodes[x].next = IF x = index THEN NoIndex
                                ELSE IF x = s.tail THEN index ELSE s.nodes[x].next
           /\ t.nodes[x].previous = IF x = index THEN s.tail ELSE s.nodes[x].previous
  BY <1>1, <1>2, LinkLastReads
<1> HIDE DEF t, d
<1>5. \A k \in 1..Len(c) : Holds(s, c[k]) /\ c[k] # NoIndex /\ (c[k] = s.tail <=> k = Len(c))
  BY <1>1 DEF Chained, Holds, NoIndex, SlotAt
<1>6. \A j \in 1..Len(d) : Holds(t, d[j])
  BY <1>1, <1>3, <1>4, <1>5 DEF SameLoad
<1>7. \A j, k \in 1..Len(d) : d[j] = d[k] => j = k
  BY <1>1, <1>3 DEF Chained
<1>8. t.head = SlotAt(d, 1) /\ t.tail = SlotAt(d, Len(d))
  BY <1>1, <1>3, <1>4, <1>5 DEF SlotAt
<1>9. ASSUME NEW j \in 1..Len(d)
      PROVE  t.nodes[d[j]].previous = SlotAt(d, j - 1) /\ t.nodes[d[j]].next = SlotAt(d, j + 1)
  <2>1. CASE j = Len(c) + 1
    <3>1. /\ t.nodes[d[j]].previous = SlotAt(c, Len(c)) /\ t.nodes[d[j]].next = NoIndex
      BY <1>1, <1>3, <1>4, <2>1
    <3>2. SlotAt(d, j - 1) = SlotAt(c, Len(c)) /\ SlotAt(d, j + 1) = NoIndex
      BY <1>1, <1>3, <2>1 DEF SlotAt
    <3> QED BY <3>1, <3>2
  <2>2. CASE j \in 1..Len(c)
    <3>1. /\ t.nodes[d[j]].previous = SlotAt(c, j - 1)
          /\ t.nodes[d[j]].next = IF j = Len(c) THEN index ELSE SlotAt(c, j + 1)
      BY <1>3, <1>4, <1>5, <2>2 DEF Chained
    <3>2. /\ SlotAt(d, j - 1) = SlotAt(c, j - 1)
          /\ SlotAt(d, j + 1) = IF j = Len(c) THEN index ELSE SlotAt(c, j + 1)
      BY <1>1, <1>3, <2>2 DEF SlotAt
    <3> QED BY <3>1, <3>2
  <2> QED BY <1>1, <1>3, <2>1, <2>2
<1>10. IsListState(t) /\ IsSeq(t.nodes)
  BY <1>4 DEF SameLoad
<1>11. Chained(t, d)
  BY <1>3, <1>6, <1>7, <1>8, <1>9, <1>10 DEF Chained
<1> QED BY <1>4, <1>11 DEF t, d

-----------------------------------------------------------------------------
(* What a sequence of items weighs. *)

Weighed(items) == IsSeq(items) /\ \A i \in 1..Len(items) : items[i].weight \in Nat

\* The sums of the weights, as the function that the recursive definition says.
Sums(f, items) ==
  f = [n \in 0..Len(items) |-> IF n = 0 THEN 0 ELSE f[n - 1] + items[n].weight]

\* The weight of a sequence is the last of its running sums, which are all numbers.
LEMMA TotalIsSum ==
  ASSUME NEW items, Weighed(items)
  PROVE  \E f : /\ f[0] = 0 /\ \A n \in 1..Len(items) : f[n] = f[n - 1] + items[n].weight
                /\ \A n \in 0..Len(items) : f[n] \in Nat
                /\ Recency!Total(items) = f[Len(items)]
<1>1. Len(items) \in Nat
  BY SeqPlaces DEF Weighed
<1> DEFINE Upto(f, m) ==
             f = [n \in 0..m |-> IF n = 0 THEN 0 ELSE f[n - 1] + items[n].weight]
           S == {m \in Nat : \E f : Upto(f, m)}
<1>2. Nat \subseteq S
  <2>1. 0 \in S
    <3>1. Upto([n \in 0..0 |-> 0], 0)
      OBVIOUS
    <3> QED BY <3>1
  <2>2. ASSUME NEW m \in Nat, m \in S PROVE m + 1 \in S
    <3>1. PICK f : Upto(f, m)
      BY <2>2
    <3> DEFINE g == [n \in 0..m + 1 |-> IF n = m + 1 THEN f[m] + items[n].weight ELSE f[n]]
    <3>2. ASSUME NEW n \in 0..m + 1
          PROVE  g[n] = IF n = 0 THEN 0 ELSE g[n - 1] + items[n].weight
      BY <3>1
    <3>3. Upto(g, m + 1)
      BY <3>2
    <3>4. \E h : Upto(h, m + 1)
      <4> HIDE DEF Upto, g
      <4> QED BY <3>3
    <3> QED BY <3>4
  <2> HIDE DEF S
  <2> QED BY <2>1, <2>2, SetInduction
<1>3. \E f : Sums(f, items)
  BY <1>1, <1>2 DEF Sums
<1> DEFINE sum == CHOOSE f : Sums(f, items)
<1>4. Recency!Total(items) = sum[Len(items)]
  BY DEF Recency!Total, Sums
<1>5. Sums(sum, items)
  <2> HIDE DEF Sums
  <2> QED BY <1>3
<1> HIDE DEF sum
<1>6. sum[0] = 0 /\ \A n \in 1..Len(items) : sum[n] = sum[n - 1] + items[n].weight
  BY <1>1, <1>5 DEF Sums
<1> DEFINE N == {n \in Nat : n <= Len(items) => sum[n] \in Nat}
<1>7. Nat \subseteq N
  <2>1. 0 \in N
    BY <1>6
  <2>2. ASSUME NEW n \in Nat, n \in N PROVE n + 1 \in N
    BY <1>1, <1>6, <2>2 DEF Weighed
  <2> HIDE DEF N
  <2> QED BY <2>1, <2>2, SetInduction
<1>8. \A n \in 0..Len(items) : sum[n] \in Nat
  BY <1>1, <1>7
<1> QED BY <1>4, <1>6, <1>8

\* No items weigh nothing.
LEMMA TotalOfNone ==
  ASSUME NEW items, IsSeq(items), Len(items) = 0
  PROVE  Weighed(items) /\ Recency!Total(items) = 0
<1>1. Weighed(items)
  BY DEF Weighed
<1> QED BY <1>1, TotalIsSum

\* One more item adds its weight.
LEMMA TotalOfAppended ==
  ASSUME NEW items, Weighed(items), NEW item, item.weight \in Nat
  PROVE  /\ Weighed(Append(items, item))
         /\ Recency!Total(Append(items, item)) = Recency!Total(items) + item.weight
         /\ Recency!Total(items) \in Nat
<1> DEFINE more == Append(items, item)
<1>1. Len(items) \in Nat /\ IsSeq(items)
  BY SeqPlaces DEF Weighed
<1>2. /\ IsSeq(more) /\ Len(more) = Len(items) + 1
      /\ \A i \in 1..Len(items) : more[i] = items[i]
      /\ more[Len(items) + 1] = item
  BY <1>1, Appended
<1> HIDE DEF more
<1>3. Weighed(more)
  BY <1>1, <1>2 DEF Weighed
<1>4. PICK f : /\ f[0] = 0 /\ \A n \in 1..Len(items) : f[n] = f[n - 1] + items[n].weight
               /\ \A n \in 0..Len(items) : f[n] \in Nat
               /\ Recency!Total(items) = f[Len(items)]
  BY TotalIsSum
<1>5. PICK g : /\ g[0] = 0 /\ \A n \in 1..Len(more) : g[n] = g[n - 1] + more[n].weight
               /\ \A n \in 0..Len(more) : g[n] \in Nat
               /\ Recency!Total(more) = g[Len(more)]
  BY <1>3, TotalIsSum
<1> DEFINE S == {n \in Nat : n <= Len(items) => f[n] = g[n]}
<1>6. Nat \subseteq S
  <2>1. 0 \in S
    BY <1>4, <1>5
  <2>2. ASSUME NEW n \in Nat, n \in S PROVE n + 1 \in S
    <3> SUFFICES ASSUME n + 1 <= Len(items) PROVE f[n + 1] = g[n + 1]
      OBVIOUS
    <3>1. n + 1 \in 1..Len(items) /\ n + 1 \in 1..Len(more) /\ (n + 1) - 1 = n /\ f[n] = g[n]
      BY <1>1, <1>2, <2>2
    <3> QED BY <1>2, <1>4, <1>5, <3>1
  <2> HIDE DEF S
  <2> QED BY <2>1, <2>2, SetInduction
<1>7. f[Len(items)] = g[Len(items)]
  BY <1>1, <1>6
<1>8. g[Len(items) + 1] = g[Len(items)] + item.weight
  BY <1>1, <1>2, <1>5
<1>9. Recency!Total(more) = Recency!Total(items) + item.weight /\ Recency!Total(items) \in Nat
  BY <1>1, <1>2, <1>4, <1>5, <1>7, <1>8
<1> QED BY <1>3, <1>9 DEF more

\* One item less takes its weight away.
LEMMA TotalOfRemoved ==
  ASSUME NEW items, Weighed(items), NEW i \in 1..Len(items)
  PROVE  /\ Weighed(RemoveAt(items, i))
         /\ Recency!Total(RemoveAt(items, i)) = Recency!Total(items) - items[i].weight
<1> DEFINE rest == RemoveAt(items, i)
<1>1. Len(items) \in Nat /\ IsSeq(items) /\ \A n \in 1..Len(items) : items[n].weight \in Nat
  BY SeqPlaces DEF Weighed
<1>2. /\ IsSeq(rest) /\ Len(rest) = Len(items) - 1
      /\ \A n \in 1..Len(items) - 1 : rest[n] = IF n < i THEN items[n] ELSE items[n + 1]
  BY <1>1, RemovedAt
<1> HIDE DEF rest
<1>3. Weighed(rest)
  <2>1. ASSUME NEW n \in 1..Len(rest) PROVE rest[n].weight \in Nat
    <3>1. n \in 1..Len(items) /\ n + 1 \in 1..Len(items) /\ n \in 1..Len(items) - 1
      BY <1>1, <1>2
    <3>2. rest[n] = items[n] \/ rest[n] = items[n + 1]
      BY <1>2, <3>1
    <3> QED BY <1>1, <3>1, <3>2
  <2> QED BY <1>2, <2>1 DEF Weighed
<1>4. PICK f : /\ f[0] = 0 /\ \A n \in 1..Len(items) : f[n] = f[n - 1] + items[n].weight
               /\ \A n \in 0..Len(items) : f[n] \in Nat
               /\ Recency!Total(items) = f[Len(items)]
  BY TotalIsSum
<1>5. PICK g : /\ g[0] = 0 /\ \A n \in 1..Len(rest) : g[n] = g[n - 1] + rest[n].weight
               /\ \A n \in 0..Len(rest) : g[n] \in Nat
               /\ Recency!Total(rest) = g[Len(rest)]
  BY <1>3, TotalIsSum
<1> DEFINE S == {n \in Nat : n <= Len(rest) =>
                   g[n] = IF n < i THEN f[n] ELSE f[n + 1] - items[i].weight}
<1>6. Nat \subseteq S
  <2>1. 0 \in S
    BY <1>1, <1>4, <1>5
  <2>2. ASSUME NEW n \in Nat, n \in S PROVE n + 1 \in S
    <3> SUFFICES ASSUME n + 1 <= Len(rest)
                 PROVE  g[n + 1] = IF n + 1 < i THEN f[n + 1]
                                   ELSE f[(n + 1) + 1] - items[i].weight
      OBVIOUS
    <3>1. /\ n + 1 \in 1..Len(rest) /\ (n + 1) - 1 = n /\ n \in 0..Len(rest)
          /\ n + 1 \in 1..Len(items) /\ n + 2 \in 1..Len(items) /\ (n + 2) - 1 = n + 1
          /\ n + 1 \in 1..Len(items) - 1 /\ (n + 1) + 1 = n + 2
      BY <1>1, <1>2
    <3>2. g[n + 1] = g[n] + rest[n + 1].weight
      BY <1>5, <3>1
    <3>3. g[n] = IF n < i THEN f[n] ELSE f[n + 1] - items[i].weight
      BY <2>2, <3>1
    <3>4. /\ f[n + 1] = f[n] + items[n + 1].weight
          /\ f[n + 2] = f[n + 1] + items[n + 2].weight
      BY <1>4, <3>1
    <3>5. rest[n + 1] = IF n + 1 < i THEN items[n + 1] ELSE items[n + 2]
      BY <1>2, <3>1
    <3>6. /\ f[n] \in Nat /\ f[n + 1] \in Nat /\ f[n + 2] \in Nat
          /\ items[n + 1].weight \in Nat /\ items[n + 2].weight \in Nat
          /\ items[i].weight \in Nat
      <4>1. /\ n \in 0..Len(items) /\ n + 1 \in 0..Len(items) /\ n + 2 \in 0..Len(items)
            /\ n + 1 \in 1..Len(items) /\ n + 2 \in 1..Len(items)
        BY <1>1, <1>2, <3>1
      <4> QED BY <1>1, <1>4, <4>1
    <3> DEFINE f0 == f[n]
               f1 == f[n + 1]
               f2 == f[n + 2]
               g0 == g[n]
               g1 == g[n + 1]
               w1 == items[n + 1].weight
               w2 == items[n + 2].weight
               wi == items[i].weight
               wr == rest[n + 1].weight
    <3>7. /\ f0 \in Nat /\ f1 \in Nat /\ f2 \in Nat /\ w1 \in Nat /\ w2 \in Nat /\ wi \in Nat
          /\ f1 = f0 + w1 /\ f2 = f1 + w2 /\ g1 = g0 + wr
          /\ g0 = IF n < i THEN f0 ELSE f1 - wi
          /\ n + 1 < i => wr = w1
          /\ ~(n + 1 < i) => wr = w2
          /\ n + 1 = i => w1 = wi
      BY <3>2, <3>3, <3>4, <3>5, <3>6
    <3> HIDE DEF f0, f1, f2, g0, g1, w1, w2, wi, wr
    <3>8. g1 = IF n + 1 < i THEN f1 ELSE f2 - wi
      BY <3>7
    <3> QED BY <3>1, <3>8 DEF f1, f2, g1, wi
  <2> HIDE DEF S
  <2> QED BY <2>1, <2>2, SetInduction
<1>7. Len(rest) \in Nat /\ Len(rest) = Len(items) - 1 /\ i <= Len(items)
  BY <1>1, <1>2
<1>8. g[Len(rest)] = IF Len(rest) < i THEN f[Len(rest)] ELSE f[Len(rest) + 1] - items[i].weight
  BY <1>6, <1>7
<1>9. CASE Len(rest) < i
  <2>1. i = Len(items) /\ f[i] = f[i - 1] + items[i].weight /\ i - 1 = Len(rest)
    BY <1>1, <1>4, <1>7, <1>9
  <2>2. f[i - 1] \in Nat /\ items[i].weight \in Nat
    BY <1>1, <1>4
  <2>3. Recency!Total(rest) = Recency!Total(items) - items[i].weight
    <3>1. Recency!Total(rest) = f[i - 1]
      BY <1>5, <1>8, <1>9, <2>1
    <3>2. Recency!Total(items) = f[i - 1] + items[i].weight
      BY <1>4, <2>1
    <3> QED BY <2>2, <3>1, <3>2
  <2> QED BY <1>3, <2>3 DEF rest
<1>10. CASE ~(Len(rest) < i)
  <2>1. Recency!Total(rest) = Recency!Total(items) - items[i].weight
    BY <1>1, <1>4, <1>5, <1>7, <1>8, <1>10
  <2> QED BY <1>3, <2>1 DEF rest
<1> QED BY <1>9, <1>10

-----------------------------------------------------------------------------
(* The list with what its slots hold, the map from keys to them and the freed slots. *)

ItemsOf(s, c) ==
  [j \in 1..Len(c) |-> [key |-> s.nodes[c[j]].key, weight |-> s.nodes[c[j]].weight]]

\* A key is mapped to the one slot of the list that holds it.
Mapped(s, c) ==
  /\ s.entries = [k \in CacheKeys |-> s.entries[k]]
  /\ \A k \in CacheKeys : s.entries[k] # NoIndex =>
       \E i \in 1..Len(c) : c[i] = s.entries[k] /\ s.nodes[c[i]].key = k
  /\ \A i \in 1..Len(c) : /\ s.nodes[c[i]].key \in CacheKeys /\ s.nodes[c[i]].weight \in Nat
                          /\ s.entries[s.nodes[c[i]].key] = c[i]

\* Freed slots are not in the list, and none is freed twice.
Spared(s, c) ==
  /\ IsSeq(s.free)
  /\ \A j \in 1..Len(s.free) :
       s.free[j] \in 1..Len(s.nodes) /\ \A i \in 1..Len(c) : c[i] # s.free[j]
  /\ \A j, k \in 1..Len(s.free) : s.free[j] = s.free[k] => j = k

IsList(s, c) ==
  /\ Chained(s, c) /\ Mapped(s, c) /\ Spared(s, c)
  /\ s.weight = Recency!Total(ItemsOf(s, c))

\* The items of a list are as many as its slots, and hold what these hold.
LEMMA ItemsAre ==
  ASSUME NEW s, NEW c, IsSeq(c)
  PROVE  /\ IsSeq(ItemsOf(s, c)) /\ Len(ItemsOf(s, c)) = Len(c)
         /\ \A j \in 1..Len(c) : /\ ItemsOf(s, c)[j].key = s.nodes[c[j]].key
                                 /\ ItemsOf(s, c)[j].weight = s.nodes[c[j]].weight
<1>1. Len(c) \in Nat
  BY SeqPlaces
<1> DEFINE items == ItemsOf(s, c)
<1>2. items = [j \in 1..Len(c) |-> items[j]]
  BY DEF ItemsOf
<1>3. \A j \in 1..Len(c) : items[j] = [key |-> s.nodes[c[j]].key, weight |-> s.nodes[c[j]].weight]
  BY DEF ItemsOf
<1> HIDE DEF items
<1>4. IsSeq(items) /\ Len(items) = Len(c)
  BY <1>1, <1>2, MadeSeq
<1>5. \A j \in 1..Len(c) : /\ items[j].key = s.nodes[c[j]].key
                           /\ items[j].weight = s.nodes[c[j]].weight
  <2> SUFFICES ASSUME NEW j \in 1..Len(c)
               PROVE  /\ items[j].key = s.nodes[c[j]].key
                      /\ items[j].weight = s.nodes[c[j]].weight
    OBVIOUS
  <2> DEFINE node == s.nodes[c[j]]
             item == items[j]
  <2>1. item = [key |-> node.key, weight |-> node.weight]
    BY <1>3
  <2> HIDE DEF node, item
  <2>2. item.key = node.key /\ item.weight = node.weight
    BY <2>1
  <2> QED BY <2>2 DEF node, item
<1> QED BY <1>4, <1>5 DEF items

\* Items are the same when their keys and weights are.
LEMMA SameItems ==
  ASSUME NEW s, NEW c, IsSeq(c), NEW items, IsSeq(items), Len(items) = Len(c),
         \A j \in 1..Len(c) :
           items[j] = [key |-> s.nodes[c[j]].key, weight |-> s.nodes[c[j]].weight]
  PROVE  ItemsOf(s, c) = items
<1>1. IsSeq(ItemsOf(s, c)) /\ Len(ItemsOf(s, c)) = Len(c) /\ Len(c) \in Nat
  BY ItemsAre, SeqPlaces
<1>2. \A j \in 1..Len(c) : ItemsOf(s, c)[j] = items[j]
  BY DEF ItemsOf
<1> QED BY <1>1, <1>2, SameSeq

\* The weights of a list are numbers, and so is their sum.
LEMMA ListWeighs ==
  ASSUME NEW s, NEW c, IsList(s, c)
  PROVE  Weighed(ItemsOf(s, c)) /\ s.weight \in Nat /\ IsSeq(c)
<1>1. IsSeq(c)
  BY DEF IsList, Chained
<1>2. Weighed(ItemsOf(s, c))
  BY <1>1, ItemsAre DEF Weighed, IsList, Mapped
<1>3. \E f : (\A n \in 0..Len(ItemsOf(s, c)) : f[n] \in Nat)
             /\ Recency!Total(ItemsOf(s, c)) = f[Len(ItemsOf(s, c))]
  BY <1>2, TotalIsSum
<1>4. Len(ItemsOf(s, c)) \in Nat
  BY <1>2, SeqPlaces DEF Weighed
<1> QED BY <1>1, <1>2, <1>3, <1>4 DEF IsList

\* remove_index takes a slot out of the list, of the map and of the weight, and frees it.
LEMMA RemoveIndexIs ==
  ASSUME NEW s, NEW c, IsList(s, c), NEW i \in 1..Len(c),
         NEW t, t = RemoveIndex(s, c[i])
  PROVE  /\ IsList(t, RemoveAt(c, i)) /\ Len(t.nodes) = Len(s.nodes)
         /\ ItemsOf(t, RemoveAt(c, i)) = RemoveAt(ItemsOf(s, c), i)
         /\ t.entries[s.nodes[c[i]].key] = NoIndex
         /\ \A k \in CacheKeys : s.entries[k] = NoIndex => t.entries[k] = NoIndex
<1> DEFINE x == c[i]
           u == Unlink(s, x)
           d == RemoveAt(c, i)
           old(j) == IF j < i THEN j ELSE j + 1
           k0 == s.nodes[x].key
           w0 == s.nodes[x].weight
           entries2 == [u.entries EXCEPT ![k0] = NoIndex]
           nodes2 == [u.nodes EXCEPT ![x] = FreeNode]
           free2 == Append(u.free, x)
<1>1. /\ Len(c) \in Nat /\ IsSeq(c) /\ IsSeq(s.nodes) /\ Len(s.nodes) \in Nat
      /\ Chained(s, c) /\ Mapped(s, c) /\ Spared(s, c)
      /\ s.weight = Recency!Total(ItemsOf(s, c))
  BY SeqPlaces DEF IsList, Chained
<1>2. SameLoad(s, u) /\ Chained(u, d)
  BY <1>1, UnlinkChains
<1>3. t = [u EXCEPT !.entries = entries2, !.nodes = nodes2, !.weight = u.weight - w0,
                    !.free = free2]
  BY DEF RemoveIndex
<1>4. IsListState(u)
  BY <1>2 DEF SameLoad
<1> HIDE DEF u, entries2, nodes2, free2, k0, w0
<1>5. /\ IsListState(t) /\ t.entries = entries2 /\ t.nodes = nodes2 /\ t.free = free2
      /\ t.weight = u.weight - w0 /\ t.head = u.head /\ t.tail = u.tail
  BY <1>3, <1>4 DEF IsListState
<1>6. /\ IsSeq(d) /\ Len(d) = Len(c) - 1
      /\ \A j \in 1..Len(d) : d[j] = c[old(j)] /\ old(j) \in 1..Len(c) /\ old(j) # i
  <2>1. /\ IsSeq(d) /\ Len(d) = Len(c) - 1
        /\ \A j \in 1..Len(c) - 1 : d[j] = IF j < i THEN c[j] ELSE c[j + 1]
    BY <1>1, RemovedAt
  <2>2. \A j \in 1..Len(c) - 1 : old(j) \in 1..Len(c) /\ old(j) # i
    BY <1>1
  <2> HIDE DEF d
  <2> QED BY <2>1, <2>2
<1> HIDE DEF d
<1>7. Holds(s, x) /\ IsSeq(u.nodes) /\ Len(u.nodes) = Len(s.nodes) /\ x \in 1..Len(s.nodes)
  BY <1>1, <1>2 DEF Chained, SameLoad, Holds
<1>8. /\ IsSeq(t.nodes) /\ Len(t.nodes) = Len(s.nodes)
      /\ \A y \in 1..Len(s.nodes) : y # x => t.nodes[y] = u.nodes[y]
  <2>1. /\ IsSeq(nodes2) /\ Len(nodes2) = Len(u.nodes)
        /\ \A y \in 1..Len(u.nodes) : nodes2[y] = IF y = x THEN FreeNode ELSE u.nodes[y]
    <3>1. x \in 1..Len(u.nodes) /\ IsSeq(u.nodes)
      BY <1>7
    <3> DEFINE old2 == u.nodes
               new2 == [old2 EXCEPT ![x] = FreeNode]
    <3>2. x \in 1..Len(old2) /\ IsSeq(old2)
      BY <3>1
    <3> HIDE DEF old2, x
    <3>3. /\ IsSeq(new2) /\ Len(new2) = Len(old2)
          /\ \A y \in 1..Len(old2) : new2[y] = IF y = x THEN FreeNode ELSE old2[y]
      BY <3>2, Excepted
    <3> QED BY <3>3 DEF nodes2, old2, x
  <2> QED BY <1>5, <1>7, <2>1
<1>9. \A j \in 1..Len(d) : /\ d[j] \in 1..Len(s.nodes) /\ d[j] # x
                           /\ t.nodes[d[j]] = u.nodes[d[j]]
                           /\ t.nodes[d[j]].key = s.nodes[d[j]].key
                           /\ t.nodes[d[j]].weight = s.nodes[d[j]].weight
  <2> SUFFICES ASSUME NEW j \in 1..Len(d)
               PROVE  /\ d[j] \in 1..Len(s.nodes) /\ d[j] # x
                      /\ t.nodes[d[j]] = u.nodes[d[j]]
                      /\ t.nodes[d[j]].key = s.nodes[d[j]].key
                      /\ t.nodes[d[j]].weight = s.nodes[d[j]].weight
    OBVIOUS
  <2> DEFINE m == old(j)
  <2>1. d[j] = c[m] /\ m \in 1..Len(c) /\ m # i
    BY <1>6
  <2> HIDE DEF m
  <2>2. Holds(s, c[m]) /\ c[m] # x
    BY <1>1, <2>1 DEF Chained
  <2>3. c[m] \in 1..Len(s.nodes)
    BY <2>2 DEF Holds
  <2>4. u.nodes[c[m]].key = s.nodes[c[m]].key /\ u.nodes[c[m]].weight = s.nodes[c[m]].weight
    BY <1>2, <2>2 DEF SameLoad
  <2>5. t.nodes[c[m]] = u.nodes[c[m]]
    BY <1>8, <2>2, <2>3
  <2> QED BY <2>1, <2>2, <2>3, <2>4, <2>5
<1>10. Chained(t, d)
  <2>1. \A j \in 1..Len(d) : Holds(t, d[j])
    BY <1>2, <1>7, <1>8, <1>9 DEF Chained, Holds
  <2>2. /\ t.head = SlotAt(d, 1) /\ t.tail = SlotAt(d, Len(d))
        /\ \A j, m \in 1..Len(d) : d[j] = d[m] => j = m
    BY <1>2, <1>5 DEF Chained
  <2>3. ASSUME NEW j \in 1..Len(d)
        PROVE  /\ t.nodes[d[j]].previous = SlotAt(d, j - 1)
               /\ t.nodes[d[j]].next = SlotAt(d, j + 1)
    <3>1. /\ u.nodes[d[j]].previous = SlotAt(d, j - 1)
          /\ u.nodes[d[j]].next = SlotAt(d, j + 1)
      BY <1>2 DEF Chained
    <3>2. t.nodes[d[j]] = u.nodes[d[j]]
      BY <1>9
    <3> QED BY <3>1, <3>2
  <2>4. IsListState(t) /\ IsSeq(t.nodes) /\ IsSeq(d)
    BY <1>5, <1>6, <1>8
  <2> QED BY <2>1, <2>2, <2>3, <2>4 DEF Chained
<1>11. Mapped(t, d)
  <2>1. /\ u.entries = s.entries /\ s.entries = [k \in CacheKeys |-> s.entries[k]]
        /\ k0 \in CacheKeys /\ s.entries[k0] = x
    BY <1>1, <1>2 DEF Mapped, SameLoad, k0
  <2>2. /\ t.entries = [k \in CacheKeys |-> t.entries[k]]
        /\ \A k \in CacheKeys : t.entries[k] = IF k = k0 THEN NoIndex ELSE s.entries[k]
    BY <1>5, <2>1 DEF entries2
  <2>3. ASSUME NEW k \in CacheKeys, t.entries[k] # NoIndex
        PROVE  \E j \in 1..Len(d) : d[j] = t.entries[k] /\ t.nodes[d[j]].key = k
    <3>1. k # k0 /\ t.entries[k] = s.entries[k]
      BY <2>2, <2>3
    <3>2. PICK m \in 1..Len(c) : c[m] = s.entries[k] /\ s.nodes[c[m]].key = k
      BY <1>1, <2>3, <3>1 DEF Mapped
    <3>3. m # i
      BY <3>1, <3>2 DEF k0
    <3> DEFINE j == IF m < i THEN m ELSE m - 1
    <3>4. j \in 1..Len(d) /\ old(j) = m
      BY <1>1, <1>6, <3>3
    <3> HIDE DEF j
    <3>5. d[j] = c[m]
      BY <1>6, <3>4
    <3> QED BY <1>9, <3>1, <3>2, <3>4, <3>5
  <2>4. ASSUME NEW j \in 1..Len(d)
        PROVE  /\ t.nodes[d[j]].key \in CacheKeys /\ t.nodes[d[j]].weight \in Nat
               /\ t.entries[t.nodes[d[j]].key] = d[j]
    <3> DEFINE m == old(j)
    <3>1. d[j] = c[m] /\ m \in 1..Len(c) /\ m # i
      BY <1>6
    <3> HIDE DEF m
    <3>2. /\ s.nodes[c[m]].key \in CacheKeys /\ s.nodes[c[m]].weight \in Nat
          /\ s.entries[s.nodes[c[m]].key] = c[m] /\ c[m] # x
      BY <1>1, <3>1 DEF Mapped, Chained
    <3>3. s.nodes[c[m]].key # k0
      BY <2>1, <3>2
    <3>4. /\ t.nodes[d[j]].key = s.nodes[c[m]].key
          /\ t.nodes[d[j]].weight = s.nodes[c[m]].weight
      BY <1>9, <3>1
    <3>5. t.entries[s.nodes[c[m]].key] = c[m]
      BY <2>2, <3>2, <3>3
    <3> QED BY <3>1, <3>2, <3>4, <3>5
  <2> QED BY <2>2, <2>3, <2>4 DEF Mapped
<1>12. Spared(t, d)
  <2>1. u.free = s.free /\ IsSeq(s.free) /\ Len(s.free) \in Nat
    BY <1>1, <1>2, SeqPlaces DEF Spared, SameLoad
  <2>2. /\ IsSeq(t.free) /\ Len(t.free) = Len(s.free) + 1
        /\ \A j \in 1..Len(s.free) : t.free[j] = s.free[j]
        /\ t.free[Len(s.free) + 1] = x
    BY <1>5, <2>1, Appended DEF free2
  <2>3. \A j \in 1..Len(s.free) :
          s.free[j] \in 1..Len(s.nodes) /\ \A m \in 1..Len(c) : c[m] # s.free[j]
    BY <1>1 DEF Spared
  <2>4. ASSUME NEW j \in 1..Len(t.free)
        PROVE  t.free[j] \in 1..Len(t.nodes) /\ \A m \in 1..Len(d) : d[m] # t.free[j]
    <3>1. CASE j \in 1..Len(s.free)
      <4>1. t.free[j] = s.free[j] /\ s.free[j] \in 1..Len(t.nodes)
        BY <1>8, <2>2, <2>3, <3>1
      <4>2. ASSUME NEW m \in 1..Len(d) PROVE d[m] # s.free[j]
        <5>1. d[m] = c[old(m)] /\ old(m) \in 1..Len(c)
          BY <1>6
        <5> DEFINE k == old(m)
        <5> HIDE DEF k
        <5>2. d[m] = c[k] /\ k \in 1..Len(c)
          BY <5>1 DEF k
        <5> QED BY <2>3, <3>1, <5>2
      <4> QED BY <4>1, <4>2
    <3>2. CASE j = Len(s.free) + 1
      <4>1. t.free[j] = x
        BY <2>2, <3>2
      <4>2. x \in 1..Len(t.nodes)
        BY <1>7, <1>8
      <4>3. \A m \in 1..Len(d) : d[m] # x
        BY <1>9
      <4> HIDE DEF x
      <4>4. t.free[j] \in 1..Len(t.nodes)
        BY <4>1, <4>2, Zenon
      <4>5. \A m \in 1..Len(d) : d[m] # t.free[j]
        BY <4>1, <4>3, Zenon
      <4> QED BY <4>4, <4>5
    <3>3. j \in 1..Len(s.free) \/ j = Len(s.free) + 1
      <4> DEFINE n == Len(s.free)
                 m == Len(t.free)
      <4>1. n \in Nat /\ m = n + 1 /\ j \in 1..m
        BY <2>1, <2>2
      <4> HIDE DEF n, m
      <4>2. j \in 1..n \/ j = n + 1
        BY <4>1
      <4> QED BY <4>2 DEF n
    <3> QED BY <3>1, <3>2, <3>3, Zenon
  <2>5. \A j \in 1..Len(s.free) : s.free[j] # x
    BY <2>3
  <2>6. \A j, m \in 1..Len(s.free) : s.free[j] = s.free[m] => j = m
    BY <1>1 DEF Spared
  <2>7. \A j, m \in 1..Len(t.free) : t.free[j] = t.free[m] => j = m
    <3> SUFFICES ASSUME NEW j \in 1..Len(t.free), NEW m \in 1..Len(t.free),
                        t.free[j] = t.free[m]
                 PROVE  j = m
      OBVIOUS
    <3>1. /\ j \in 1..Len(s.free) \/ j = Len(s.free) + 1
          /\ m \in 1..Len(s.free) \/ m = Len(s.free) + 1
      BY <2>1, <2>2
    <3> QED BY <2>2, <2>5, <2>6, <3>1
  <2> QED BY <2>2, <2>4, <2>7 DEF Spared
<1> DEFINE items == ItemsOf(s, c)
<1>13. Weighed(items) /\ IsSeq(items) /\ Len(items) = Len(c)
  BY <1>1, ListWeighs, ItemsAre
<1>14. /\ IsSeq(RemoveAt(items, i)) /\ Len(RemoveAt(items, i)) = Len(items) - 1
       /\ \A j \in 1..Len(items) - 1 :
            RemoveAt(items, i)[j] = IF j < i THEN items[j] ELSE items[j + 1]
  BY <1>13, RemovedAt
<1>15. ItemsOf(t, d) = RemoveAt(items, i)
  <2>1. ASSUME NEW j \in 1..Len(d)
        PROVE  RemoveAt(items, i)[j] =
                 [key |-> t.nodes[d[j]].key, weight |-> t.nodes[d[j]].weight]
    <3> DEFINE m == old(j)
    <3>1. d[j] = c[m] /\ m \in 1..Len(c)
      BY <1>6
    <3>2. RemoveAt(items, i)[j] = items[m]
      BY <1>6, <1>13, <1>14
    <3> HIDE DEF m
    <3>3. items[m] = [key |-> s.nodes[c[m]].key, weight |-> s.nodes[c[m]].weight]
      BY <3>1 DEF ItemsOf
    <3> QED BY <1>9, <3>1, <3>2, <3>3
  <2> HIDE DEF items
  <2>2. Len(RemoveAt(items, i)) = Len(d) /\ IsSeq(RemoveAt(items, i))
    BY <1>6, <1>13, <1>14
  <2> QED BY <1>6, <2>1, <2>2, SameItems
<1>16. t.weight = Recency!Total(ItemsOf(t, d))
  <2>1. items[i].weight = w0
    BY <1>1 DEF ItemsOf, w0
  <2>2. Recency!Total(RemoveAt(items, i)) = Recency!Total(items) - items[i].weight
    BY <1>13, TotalOfRemoved
  <2>3. u.weight = s.weight
    BY <1>2 DEF SameLoad
  <2> QED BY <1>1, <1>5, <1>15, <2>1, <2>2, <2>3
<1>17. IsList(t, d)
  BY <1>10, <1>11, <1>12, <1>16 DEF IsList
<1>18. /\ t.entries[k0] = NoIndex
       /\ \A k \in CacheKeys : s.entries[k] = NoIndex => t.entries[k] = NoIndex
  <2>1. /\ u.entries = s.entries /\ s.entries = [k \in CacheKeys |-> s.entries[k]]
        /\ k0 \in CacheKeys
    BY <1>1, <1>2 DEF Mapped, SameLoad, k0
  <2> QED BY <1>5, <2>1 DEF entries2
<1> QED BY <1>8, <1>15, <1>17, <1>18 DEF d, k0

-----------------------------------------------------------------------------
(* Storing a key: eviction from the head, then a slot at the tail. *)

\* The list has no more slots than the vector.
LEMMA ListFits ==
  ASSUME NEW s, NEW c, Chained(s, c)
  PROVE  Len(c) <= Len(s.nodes)
<1>1. Len(c) \in Nat /\ Len(s.nodes) \in Nat /\ DOMAIN c = 1..Len(c)
  BY SeqPlaces DEF Chained
<1>2. c \in [1..Len(c) -> 1..Len(s.nodes)]
  <2>1. IsSeq(c) /\ \A i \in 1..Len(c) : c[i] \in 1..Len(s.nodes)
    BY DEF Chained, Holds
  <2>2. c \in [1..Len(c) -> Range(c)]
    BY <2>1, LenProperties DEF IsSeq
  <2> QED BY <2>1, <2>2
<1>3. c \in Injection(1..Len(c), 1..Len(s.nodes))
  BY <1>2 DEF Injection, IsInjective, Chained
<1>4. /\ IsFiniteSet(1..Len(c)) /\ Cardinality(1..Len(c)) = Len(c)
      /\ IsFiniteSet(1..Len(s.nodes)) /\ Cardinality(1..Len(s.nodes)) = Len(s.nodes)
  <2>1. ASSUME NEW n \in Nat PROVE IsFiniteSet(1..n) /\ Cardinality(1..n) = n
    <3>1. /\ IsFiniteSet(1..n)
          /\ Cardinality(1..n) = IF 1 > n THEN 0 ELSE n - 1 + 1
      BY FS_Interval
    <3> DEFINE size == Cardinality(1..n)
    <3>2. size = IF 1 > n THEN 0 ELSE n - 1 + 1
      BY <3>1
    <3> HIDE DEF size
    <3>3. size = n
      BY <3>2
    <3> QED BY <3>1, <3>3 DEF size
  <2> QED BY <1>1, <2>1
<1> QED BY <1>3, <1>4, FS_Injection

\* What eviction goes on from after each removal, as its recursive definition says.
Evicting(f, s, w, m) == f = [n \in 0..m |-> IF n = 0 THEN s ELSE EvictOldest(f[n - 1], w)]

\* The states that eviction goes through, one for each slot of the vector.
LEMMA EvictionExists ==
  ASSUME NEW s, NEW w, Len(s.nodes) \in Nat
  PROVE  \E f : /\ f[0] = s /\ \A n \in 1..Len(s.nodes) : f[n] = EvictOldest(f[n - 1], w)
                /\ Evicted(s, w) = f[Len(s.nodes)]
<1> DEFINE S == {m \in Nat : \E f : Evicting(f, s, w, m)}
<1>1. Nat \subseteq S
  <2>1. 0 \in S
    <3>1. Evicting([n \in 0..0 |-> s], s, w, 0)
      BY DEF Evicting
    <3> QED BY <3>1
  <2>2. ASSUME NEW m \in Nat, m \in S PROVE m + 1 \in S
    <3>1. PICK f : Evicting(f, s, w, m)
      BY <2>2
    <3> DEFINE g == [n \in 0..m + 1 |-> IF n = m + 1 THEN EvictOldest(f[m], w) ELSE f[n]]
    <3>2. ASSUME NEW n \in 0..m + 1
          PROVE  g[n] = IF n = 0 THEN s ELSE EvictOldest(g[n - 1], w)
      BY <3>1 DEF Evicting
    <3>3. Evicting(g, s, w, m + 1)
      BY <3>2 DEF Evicting
    <3>4. \E h : Evicting(h, s, w, m + 1)
      <4> HIDE DEF g
      <4> QED BY <3>3
    <3> QED BY <3>4
  <2> HIDE DEF S
  <2> QED BY <2>1, <2>2, SetInduction
<1>2. \E f : Evicting(f, s, w, Len(s.nodes))
  BY <1>1
<1> DEFINE after == CHOOSE f : Evicting(f, s, w, Len(s.nodes))
<1>3. Evicted(s, w) = after[Len(s.nodes)]
  BY DEF Evicted, Evicting
<1>4. Evicting(after, s, w, Len(s.nodes))
  BY <1>2
<1> HIDE DEF after
<1>5. after[0] = s /\ \A n \in 1..Len(s.nodes) : after[n] = EvictOldest(after[n - 1], w)
  BY <1>4 DEF Evicting
<1> QED BY <1>3, <1>5

\* Without its first members a sequence is what its other members are.
LEMMA AfterFirstIs ==
  ASSUME NEW items, IsSeq(items)
  PROVE  /\ Recency!AfterFirst(items, 0) = items
         /\ \A m \in 0..Len(items) : /\ IsSeq(Recency!AfterFirst(items, m))
                                     /\ Len(Recency!AfterFirst(items, m)) = Len(items) - m
         /\ \A m \in 0..Len(items) : m < Len(items) =>
              Recency!AfterFirst(items, m + 1) = RemoveAt(Recency!AfterFirst(items, m), 1)
<1>1. Len(items) \in Nat
  BY SeqPlaces
<1> DEFINE after(m) == Recency!AfterFirst(items, m)
<1>2. \A m \in 0..Len(items) : /\ IsSeq(after(m)) /\ Len(after(m)) = Len(items) - m
                               /\ \A i \in 1..Len(items) - m : after(m)[i] = items[m + i]
  BY <1>1, RestOfSeq DEF Recency!AfterFirst
<1> HIDE DEF after
<1>3. after(0) = items
  <2>1. 0 \in 0..Len(items) /\ \A i \in 1..Len(items) : 0 + i = i /\ Len(items) - 0 = Len(items)
    BY <1>1
  <2>2. IsSeq(after(0)) /\ Len(after(0)) = Len(items)
        /\ \A i \in 1..Len(items) : after(0)[i] = items[i]
    BY <1>1, <1>2, <2>1
  <2> QED BY <2>2, SameSeq
<1>4. ASSUME NEW m \in 0..Len(items), m < Len(items) PROVE after(m + 1) = RemoveAt(after(m), 1)
  <2>1. /\ m + 1 \in 0..Len(items) /\ Len(after(m)) = Len(items) - m /\ IsSeq(after(m))
        /\ IsSeq(after(m + 1)) /\ Len(after(m + 1)) = Len(items) - (m + 1)
        /\ 1 \in 1..Len(after(m))
    BY <1>1, <1>2, <1>4
  <2>2. /\ IsSeq(RemoveAt(after(m), 1)) /\ Len(RemoveAt(after(m), 1)) = Len(after(m)) - 1
        /\ \A j \in 1..Len(after(m)) - 1 :
             RemoveAt(after(m), 1)[j] = IF j < 1 THEN after(m)[j] ELSE after(m)[j + 1]
    BY <2>1, RemovedAt
  <2>3. ASSUME NEW j \in 1..Len(after(m + 1)) PROVE after(m + 1)[j] = RemoveAt(after(m), 1)[j]
    <3>1. /\ j \in 1..Len(items) - (m + 1) /\ j + 1 \in 1..Len(items) - m
          /\ j \in 1..Len(after(m)) - 1 /\ (m + 1) + j = m + (j + 1) /\ ~(j < 1)
      BY <1>1, <2>1
    <3>2. after(m + 1)[j] = items[(m + 1) + j] /\ after(m)[j + 1] = items[m + (j + 1)]
      BY <1>2, <2>1, <3>1
    <3> QED BY <2>2, <3>1, <3>2
  <2>4. Len(after(m + 1)) = Len(RemoveAt(after(m), 1))
    BY <1>1, <2>1, <2>2
  <2> QED BY <2>1, <2>2, <2>3, <2>4, SameSeq
<1> QED BY <1>2, <1>3, <1>4 DEF after

\* A list from which the first m have been evicted, and no more than room was needed for.
EvictedTo(t, d, m, items, w) ==
  /\ IsList(t, d) /\ m \in 0..Len(items)
  /\ ItemsOf(t, d) = Recency!AfterFirst(items, m)
  /\ m > 0 => Recency!Total(Recency!AfterFirst(items, m - 1)) + w > CapacityBytes

\* One turn of eviction: the first slot goes, or there is room.
LEMMA EvictOldestIs ==
  ASSUME NEW t, NEW d, NEW m, NEW items, NEW w \in 0..CapacityBytes, IsSeq(items),
         EvictedTo(t, d, m, items, w), NEW n \in Nat,
         \/ m = n \/ Recency!Total(Recency!AfterFirst(items, m)) + w <= CapacityBytes
  PROVE  \E e, k : /\ EvictedTo(EvictOldest(t, w), e, k, items, w)
                   /\ \/ k = n + 1
                      \/ Recency!Total(Recency!AfterFirst(items, k)) + w <= CapacityBytes
                   /\ Len(EvictOldest(t, w).nodes) = Len(t.nodes)
                   /\ \A other \in CacheKeys : t.entries[other] = NoIndex =>
                        EvictOldest(t, w).entries[other] = NoIndex
<1>1. /\ IsList(t, d) /\ m \in 0..Len(items) /\ Len(items) \in Nat /\ Len(d) \in Nat
      /\ IsSeq(d) /\ t.head = SlotAt(d, 1) /\ Weighed(ItemsOf(t, d)) /\ t.weight \in Nat
      /\ t.weight = Recency!Total(ItemsOf(t, d)) /\ CapacityBytes \in Nat
      /\ ItemsOf(t, d) = Recency!AfterFirst(items, m)
  BY ListWeighs, SeqPlaces, LruConstants DEF EvictedTo, IsList, Chained
<1>2. Len(d) = Len(items) - m
  <2>1. Len(ItemsOf(t, d)) = Len(d)
    BY <1>1, ItemsAre
  <2>2. Len(Recency!AfterFirst(items, m)) = Len(items) - m
    BY <1>1, AfterFirstIs
  <2> QED BY <1>1, <2>1, <2>2
<1>3. Len(d) = 0 => t.head = NoIndex /\ Recency!Total(ItemsOf(t, d)) = 0
  BY <1>1, ItemsAre, TotalOfNone DEF SlotAt, Weighed
<1>4. Len(d) > 0 => t.head = d[1] /\ t.head # NoIndex
  <2> SUFFICES ASSUME Len(d) > 0 PROVE t.head = d[1] /\ t.head # NoIndex
    OBVIOUS
  <2>1. 1 \in 1..Len(d)
    BY <1>1
  <2>2. Holds(t, d[1]) /\ IsSeq(t.nodes)
    BY <1>1, <2>1 DEF IsList, Chained
  <2>3. Len(t.nodes) \in Nat /\ d[1] \in 1..Len(t.nodes)
    BY <2>2, SeqPlaces DEF Holds
  <2> QED BY <1>1, <2>1, <2>3 DEF SlotAt, NoIndex
<1>5. CASE Len(d) > 0 /\ t.weight + w > CapacityBytes
  <2> DEFINE u == RemoveIndex(t, d[1])
             e == RemoveAt(d, 1)
  <2>1. EvictOldest(t, w) = u /\ 1 \in 1..Len(d) /\ m < Len(items)
    BY <1>1, <1>2, <1>4, <1>5 DEF EvictOldest
  <2>2. /\ IsList(u, e) /\ Len(u.nodes) = Len(t.nodes)
        /\ ItemsOf(u, e) = RemoveAt(ItemsOf(t, d), 1)
        /\ \A other \in CacheKeys : t.entries[other] = NoIndex => u.entries[other] = NoIndex
    BY <1>1, <2>1, RemoveIndexIs
  <2> HIDE DEF u, e
  <2>3. ItemsOf(u, e) = Recency!AfterFirst(items, m + 1)
    BY <1>1, <2>1, <2>2, AfterFirstIs
  <2>4. Recency!Total(Recency!AfterFirst(items, (m + 1) - 1)) + w > CapacityBytes
    <3>1. (m + 1) - 1 = m
      BY <1>1
    <3> QED BY <1>1, <1>5, <3>1
  <2>5. m + 1 \in 0..Len(items)
    BY <1>1, <2>1
  <2>6. EvictedTo(u, e, m + 1, items, w)
    BY <2>2, <2>3, <2>4, <2>5 DEF EvictedTo
  <2>7. m + 1 = n + 1
    BY <1>1, <1>5
  <2> QED BY <2>1, <2>2, <2>6, <2>7
<1>6. CASE ~(Len(d) > 0 /\ t.weight + w > CapacityBytes)
  <2>1. EvictOldest(t, w) = t
    BY <1>1, <1>3, <1>6 DEF EvictOldest
  <2>2. Recency!Total(Recency!AfterFirst(items, m)) + w <= CapacityBytes
    BY <1>1, <1>3, <1>6
  <2> QED BY <2>1, <2>2
<1> QED BY <1>5, <1>6

\* Eviction ends with room, and takes as few as that needs.
LEMMA EvictedIs ==
  ASSUME NEW s, NEW c, IsList(s, c), NEW w \in 0..CapacityBytes
  PROVE  \E d, m : /\ EvictedTo(Evicted(s, w), d, m, ItemsOf(s, c), w)
                   /\ Recency!Total(Recency!AfterFirst(ItemsOf(s, c), m)) + w <= CapacityBytes
                   /\ \A other \in CacheKeys : s.entries[other] = NoIndex =>
                        Evicted(s, w).entries[other] = NoIndex
<1> DEFINE items == ItemsOf(s, c)
           last == Len(s.nodes)
<1>1. /\ IsSeq(c) /\ IsSeq(s.nodes) /\ last \in Nat /\ Len(c) \in Nat /\ Len(c) <= last
      /\ IsSeq(items) /\ Len(items) = Len(c)
  <2>1. Chained(s, c) /\ IsSeq(c) /\ IsSeq(s.nodes)
    BY DEF IsList, Chained
  <2> QED BY <2>1, SeqPlaces, ListFits, ItemsAre
<1>2. PICK f : /\ f[0] = s /\ \A n \in 1..last : f[n] = EvictOldest(f[n - 1], w)
               /\ Evicted(s, w) = f[last]
  BY <1>1, EvictionExists
<1> HIDE DEF items, last
<1> DEFINE Reached(n, d, m) ==
             /\ EvictedTo(f[n], d, m, items, w)
             /\ \/ m = n
                \/ Recency!Total(Recency!AfterFirst(items, m)) + w <= CapacityBytes
             /\ Len(f[n].nodes) = last
             /\ \A other \in CacheKeys : s.entries[other] = NoIndex => f[n].entries[other] = NoIndex
           S == {n \in Nat : n <= last => \E d, m : Reached(n, d, m)}
<1>3. Nat \subseteq S
  <2>1. 0 \in S
    <3>1. EvictedTo(s, c, 0, items, w)
      BY <1>1, AfterFirstIs DEF EvictedTo, items
    <3>2. Reached(0, c, 0)
      BY <1>2, <3>1 DEF last
    <3> QED BY <3>2
  <2>2. ASSUME NEW n \in Nat, n \in S PROVE n + 1 \in S
    <3> SUFFICES ASSUME n + 1 <= last PROVE \E d, m : Reached(n + 1, d, m)
      OBVIOUS
    <3>1. PICK d, m : Reached(n, d, m)
      BY <1>1, <2>2
    <3>2. f[n + 1] = EvictOldest(f[n], w)
      BY <1>1, <1>2
    <3>3. PICK e, k : /\ EvictedTo(EvictOldest(f[n], w), e, k, items, w)
                      /\ \/ k = n + 1
                         \/ Recency!Total(Recency!AfterFirst(items, k)) + w <= CapacityBytes
                      /\ Len(EvictOldest(f[n], w).nodes) = Len(f[n].nodes)
                      /\ \A other \in CacheKeys : f[n].entries[other] = NoIndex =>
                           EvictOldest(f[n], w).entries[other] = NoIndex
      BY <1>1, <3>1, EvictOldestIs
    <3>4. Reached(n + 1, e, k)
      BY <3>1, <3>2, <3>3
    <3> QED BY <3>4
  <2> HIDE DEF S
  <2> QED BY <2>1, <2>2, SetInduction
<1>4. PICK d, m : Reached(last, d, m)
  BY <1>1, <1>3
<1>5. Recency!Total(Recency!AfterFirst(items, m)) + w <= CapacityBytes
  <2> SUFFICES ASSUME m = last
               PROVE  Recency!Total(Recency!AfterFirst(items, m)) + w <= CapacityBytes
    BY <1>4
  <2>1. m \in 0..Len(items)
    BY <1>4 DEF EvictedTo
  <2>2. IsSeq(Recency!AfterFirst(items, m)) /\ Len(Recency!AfterFirst(items, m)) = 0
    BY <1>1, <2>1, AfterFirstIs
  <2>3. Recency!Total(Recency!AfterFirst(items, m)) = 0
    BY <2>2, TotalOfNone
  <2> QED BY <2>3, LruConstants
<1> QED BY <1>2, <1>4, <1>5 DEF items

-----------------------------------------------------------------------------
(* The pointers, followed from the head, name the slots of the list in their order. *)

Follows(f, s) ==
  f = [n \in 0..Len(s.nodes) |->
         IF n = 0 THEN s.head
         ELSE IF f[n - 1] = NoIndex THEN NoIndex ELSE s.nodes[f[n - 1]].next]

\* Following the pointers for as many steps as the vector has slots finds every slot.
LEMMA ChainIs ==
  ASSUME NEW s, NEW c, Chained(s, c)
  PROVE  ChainOf(s) = ItemsOf(s, c)
<1> DEFINE last == Len(s.nodes)
           from == CHOOSE f : Follows(f, s)
           steps == {n \in 0..last : from[n] # NoIndex}
<1>1. ChainOf(s) = [n \in 1..Cardinality(steps) |-> [key |-> s.nodes[from[n - 1]].key,
                                                     weight |-> s.nodes[from[n - 1]].weight]]
  BY DEF ChainOf, Follows
<1>2. /\ Len(c) \in Nat /\ last \in Nat /\ Len(c) <= last /\ s.head = SlotAt(c, 1)
      /\ \A i \in 1..Len(c) : c[i] # NoIndex /\ s.nodes[c[i]].next = SlotAt(c, i + 1)
  <2>1. /\ IsSeq(c) /\ IsSeq(s.nodes) /\ s.head = SlotAt(c, 1)
        /\ \A i \in 1..Len(c) : c[i] \in 1..Len(s.nodes) /\ s.nodes[c[i]].next = SlotAt(c, i + 1)
    BY DEF Chained, Holds
  <2>2. Len(c) \in Nat /\ last \in Nat /\ Len(c) <= last
    BY <2>1, SeqPlaces, ListFits
  <2> QED BY <2>1, <2>2 DEF NoIndex
<1>3. \A n \in 1..last :
        SlotAt(c, n + 1) = IF SlotAt(c, n) = NoIndex THEN NoIndex ELSE s.nodes[SlotAt(c, n)].next
  BY <1>2 DEF SlotAt
<1>4. \E f : Follows(f, s)
  <2> DEFINE f == [n \in 0..last |-> SlotAt(c, n + 1)]
  <2>1. ASSUME NEW n \in 0..last
        PROVE  f[n] = IF n = 0 THEN s.head
                      ELSE IF f[n - 1] = NoIndex THEN NoIndex ELSE s.nodes[f[n - 1]].next
    <3>1. CASE n = 0
      BY <1>2, <3>1
    <3>2. CASE n # 0
      <4>1. n \in 1..last /\ n - 1 \in 0..last /\ (n - 1) + 1 = n
        BY <1>2, <3>2
      <4>2. f[n] = SlotAt(c, n + 1) /\ f[n - 1] = SlotAt(c, n)
        BY <4>1
      <4> QED BY <1>3, <3>2, <4>1, <4>2
    <3> QED BY <3>1, <3>2
  <2>2. Follows(f, s)
    BY <2>1 DEF Follows
  <2> HIDE DEF f
  <2> QED BY <2>2
<1>5. Follows(from, s)
  BY <1>4
<1> HIDE DEF from, last
<1>6. /\ from[0] = s.head
      /\ \A n \in 1..last : from[n] = IF from[n - 1] = NoIndex THEN NoIndex
                                      ELSE s.nodes[from[n - 1]].next
  <2>1. from = [n \in 0..last |-> IF n = 0 THEN s.head
                                  ELSE IF from[n - 1] = NoIndex THEN NoIndex
                                  ELSE s.nodes[from[n - 1]].next]
    BY <1>5 DEF Follows, last
  <2> DEFINE after(n) == IF n = 0 THEN s.head
                         ELSE IF from[n - 1] = NoIndex THEN NoIndex
                         ELSE s.nodes[from[n - 1]].next
  <2>2. from = [n \in 0..last |-> after(n)]
    BY <2>1
  <2>3. after(0) = s.head /\ \A n \in 1..last : after(n) = IF from[n - 1] = NoIndex THEN NoIndex
                                                          ELSE s.nodes[from[n - 1]].next
    BY <1>2
  <2> HIDE DEF after
  <2>4. \A n \in 0..last : from[n] = after(n)
    BY <2>2
  <2> QED BY <1>2, <2>3, <2>4
<1> DEFINE S == {n \in Nat : n <= last => from[n] = SlotAt(c, n + 1)}
<1>7. Nat \subseteq S
  <2>1. 0 \in S
    BY <1>2, <1>6
  <2>2. ASSUME NEW n \in Nat, n \in S PROVE n + 1 \in S
    <3> SUFFICES ASSUME n + 1 <= last PROVE from[n + 1] = SlotAt(c, (n + 1) + 1)
      OBVIOUS
    <3>1. n + 1 \in 1..last /\ (n + 1) - 1 = n /\ from[n] = SlotAt(c, n + 1)
      BY <1>2, <2>2
    <3> QED BY <1>3, <1>6, <3>1
  <2> HIDE DEF S
  <2> QED BY <2>1, <2>2, SetInduction
<1>8. \A n \in 0..last : from[n] = SlotAt(c, n + 1)
  BY <1>2, <1>7
<1>9. steps = 0..Len(c) - 1
  BY <1>2, <1>8 DEF SlotAt
<1>10. Cardinality(0..Len(c) - 1) = Len(c)
  <2> DEFINE size == Cardinality(0..Len(c) - 1)
  <2>1. size = IF 0 > Len(c) - 1 THEN 0 ELSE (Len(c) - 1) - 0 + 1
    <3>1. 0 \in Int /\ Len(c) - 1 \in Int
      BY <1>2
    <3> QED BY <3>1, FS_Interval
  <2> HIDE DEF size
  <2>2. size = Len(c)
    BY <1>2, <2>1
  <2> QED BY <2>2 DEF size
<1>11. \A n \in 1..Len(c) : from[n - 1] = c[n]
  <2> SUFFICES ASSUME NEW n \in 1..Len(c) PROVE from[n - 1] = c[n]
    OBVIOUS
  <2>1. n - 1 \in 0..last /\ (n - 1) + 1 = n
    BY <1>2
  <2> QED BY <1>8, <2>1 DEF SlotAt
<1> HIDE DEF steps
<1> QED BY <1>1, <1>9, <1>10, <1>11 DEF ItemsOf

\* The list is read from the same slots when others are filled.
LEMMA SameSlots ==
  ASSUME NEW s, NEW c, IsList(s, c), NEW t, IsListState(t), IsSeq(t.nodes),
         Len(s.nodes) <= Len(t.nodes), t.entries = s.entries, t.head = s.head,
         t.tail = s.tail, t.weight = s.weight,
         \A i \in 1..Len(c) : t.nodes[c[i]] = s.nodes[c[i]],
         Spared(t, c)
  PROVE  IsList(t, c) /\ ItemsOf(t, c) = ItemsOf(s, c)
<1>1. /\ Chained(s, c) /\ Mapped(s, c) /\ s.weight = Recency!Total(ItemsOf(s, c))
      /\ Len(s.nodes) \in Nat /\ Len(t.nodes) \in Nat
  BY SeqPlaces DEF IsList, Chained
<1>2. \A i \in 1..Len(c) : t.nodes[c[i]] = s.nodes[c[i]] /\ Holds(t, c[i])
  BY <1>1 DEF Chained, Holds
<1>3. Chained(t, c)
  BY <1>1, <1>2 DEF Chained
<1>4. Mapped(t, c)
  <2>1. ASSUME NEW k \in CacheKeys, t.entries[k] # NoIndex
        PROVE  \E i \in 1..Len(c) : c[i] = t.entries[k] /\ t.nodes[c[i]].key = k
    <3>1. PICK i \in 1..Len(c) : c[i] = s.entries[k] /\ s.nodes[c[i]].key = k
      BY <1>1, <2>1 DEF Mapped
    <3> QED BY <1>2, <3>1
  <2> QED BY <1>1, <1>2, <2>1 DEF Mapped
<1>5. ItemsOf(t, c) = ItemsOf(s, c)
  BY <1>2 DEF ItemsOf
<1> QED BY <1>1, <1>3, <1>4, <1>5 DEF IsList

\* The last freed slot, or a new one, holds the new node and is beside the list.
LEMMA AllocatedIs ==
  ASSUME NEW s, NEW c, IsList(s, c), NEW node, IsNode(node),
         NEW t, t = Allocated(s, node), NEW x, x = AllocatedIndex(s)
  PROVE  /\ IsList(t, c) /\ ItemsOf(t, c) = ItemsOf(s, c)
         /\ Holds(t, x) /\ t.nodes[x] = node /\ t.entries = s.entries
         /\ \A i \in 1..Len(c) : c[i] # x
         /\ \A j \in 1..Len(t.free) : t.free[j] # x
<1>1. /\ IsListState(s) /\ IsSeq(s.nodes) /\ Len(s.nodes) \in Nat
      /\ IsSeq(s.free) /\ Len(s.free) \in Nat /\ IsSeq(c) /\ Len(c) \in Nat
      /\ \A i \in 1..Len(c) : c[i] \in 1..Len(s.nodes) /\ IsNode(s.nodes[c[i]])
  <2>1. IsListState(s) /\ IsSeq(s.nodes) /\ IsSeq(s.free) /\ IsSeq(c)
    BY DEF IsList, Chained, Spared
  <2> QED BY <2>1, SeqPlaces DEF IsList, Chained, Holds
<1>2. CASE s.free = <<>>
  <2> DEFINE nodes2 == Append(s.nodes, node)
  <2>1. t = [s EXCEPT !.nodes = nodes2, !.free = <<>>] /\ x = Len(s.nodes) + 1
    BY <1>2 DEF Allocated, AllocatedIndex
  <2>2. /\ IsSeq(nodes2) /\ Len(nodes2) = Len(s.nodes) + 1
        /\ \A i \in 1..Len(s.nodes) : nodes2[i] = s.nodes[i]
        /\ nodes2[Len(s.nodes) + 1] = node
    BY <1>1, Appended
  <2> HIDE DEF nodes2
  <2>3. /\ IsListState(t) /\ t.nodes = nodes2 /\ t.free = <<>> /\ t.entries = s.entries
        /\ t.head = s.head /\ t.tail = s.tail /\ t.weight = s.weight
    BY <1>1, <2>1 DEF IsListState
  <2>4. IsSeq(t.free) /\ Len(t.free) = 0
    BY <1>1, <1>2, <2>3, EmptySeq
  <2>5. Spared(t, c)
    BY <2>4 DEF Spared
  <2>6. IsList(t, c) /\ ItemsOf(t, c) = ItemsOf(s, c)
    <3>1. \A i \in 1..Len(c) : t.nodes[c[i]] = s.nodes[c[i]]
      BY <1>1, <2>2, <2>3
    <3> QED BY <1>1, <2>2, <2>3, <2>5, <3>1, SameSlots
  <2>7. Holds(t, x) /\ t.nodes[x] = node
    BY <1>1, <2>1, <2>2, <2>3 DEF Holds
  <2>8. \A i \in 1..Len(c) : c[i] # x
    BY <1>1, <2>1
  <2> QED BY <2>3, <2>4, <2>6, <2>7, <2>8
<1>3. CASE s.free # <<>>
  <2> DEFINE nodes2 == [s.nodes EXCEPT ![x] = node]
             free2 == Front(s.free)
  <2>1. x = s.free[Len(s.free)] /\ t = [s EXCEPT !.nodes = nodes2, !.free = free2]
    BY <1>3 DEF Allocated, AllocatedIndex, Last
  <2>2. Len(s.free) > 0
    BY <1>1, <1>3, EmptySeq DEF IsSeq
  <2>3. /\ x \in 1..Len(s.nodes) /\ \A i \in 1..Len(c) : c[i] # x
        /\ \A j \in 1..Len(s.free) - 1 : s.free[j] # x
    BY <1>1, <2>1, <2>2 DEF IsList, Spared
  <2>4. /\ IsSeq(nodes2) /\ Len(nodes2) = Len(s.nodes)
        /\ \A i \in 1..Len(s.nodes) : nodes2[i] = IF i = x THEN node ELSE s.nodes[i]
    <3>1. IsSeq(s.nodes) /\ x \in 1..Len(s.nodes)
      BY <1>1, <2>3
    <3> QED BY <3>1, Excepted
  <2>5. /\ IsSeq(free2) /\ Len(free2) = Len(s.free) - 1
        /\ \A j \in 1..Len(s.free) - 1 : free2[j] = s.free[j]
    BY <1>1, <2>2, FrontOfSeq
  <2> HIDE DEF nodes2, free2
  <2>6. /\ IsListState(t) /\ t.nodes = nodes2 /\ t.free = free2 /\ t.entries = s.entries
        /\ t.head = s.head /\ t.tail = s.tail /\ t.weight = s.weight
    BY <1>1, <2>1 DEF IsListState
  <2>7. Spared(t, c)
    <3>1. /\ \A j \in 1..Len(s.free) : s.free[j] \in 1..Len(s.nodes)
                                       /\ \A i \in 1..Len(c) : c[i] # s.free[j]
          /\ \A j, k \in 1..Len(s.free) : s.free[j] = s.free[k] => j = k
      BY DEF IsList, Spared
    <3>2. \A j \in 1..Len(free2) : j \in 1..Len(s.free) /\ free2[j] = s.free[j]
      BY <1>1, <2>5
    <3>3. \A j \in 1..Len(free2) : free2[j] \in 1..Len(nodes2)
                                   /\ \A i \in 1..Len(c) : c[i] # free2[j]
      BY <2>4, <3>1, <3>2
    <3>4. \A j, k \in 1..Len(free2) : free2[j] = free2[k] => j = k
      BY <3>1, <3>2
    <3> QED BY <2>5, <2>6, <3>3, <3>4 DEF Spared
  <2>8. IsList(t, c) /\ ItemsOf(t, c) = ItemsOf(s, c)
    <3>1. \A i \in 1..Len(c) : t.nodes[c[i]] = s.nodes[c[i]]
      BY <1>1, <2>3, <2>4, <2>6
    <3> QED BY <1>1, <2>4, <2>6, <2>7, <3>1, SameSlots
  <2>9. Holds(t, x) /\ t.nodes[x] = node
    BY <2>3, <2>4, <2>6 DEF Holds
  <2>10. \A j \in 1..Len(t.free) : t.free[j] # x
    BY <2>3, <2>5, <2>6
  <2> QED BY <2>3, <2>6, <2>8, <2>9, <2>10
<1> QED BY <1>2, <1>3

\* The slot that insert fills, linked, mapped and weighed.
StoredIn(r, t, x, k, w) ==
  r = [LinkLast(t, x) EXCEPT !.entries[k] = x, !.weight = @ + w]

\* The new slot becomes the last of the list and of the map.
LEMMA StoredLast ==
  ASSUME NEW t, NEW d, IsList(t, d), NEW x, Holds(t, x), \A i \in 1..Len(d) : d[i] # x,
         \A j \in 1..Len(t.free) : t.free[j] # x,
         NEW k \in CacheKeys, t.entries[k] = NoIndex, t.nodes[x].key = k,
         NEW w \in Nat, t.nodes[x].weight = w,
         NEW r, StoredIn(r, t, x, k, w)
  PROVE  /\ IsList(r, Append(d, x))
         /\ ItemsOf(r, Append(d, x)) = Append(ItemsOf(t, d), Recency!Item(k, w))
<1> DEFINE l == LinkLast(t, x)
           e == Append(d, x)
           entries2 == [l.entries EXCEPT ![k] = x]
           items == ItemsOf(t, d)
           item == Recency!Item(k, w)
<1>1. /\ Chained(t, d) /\ Mapped(t, d) /\ Spared(t, d) /\ t.weight = Recency!Total(items)
      /\ Len(d) \in Nat /\ IsSeq(d) /\ Weighed(items)
  BY ListWeighs, SeqPlaces DEF IsList
<1>2. SameLoad(t, l) /\ Chained(l, e)
  BY <1>1, LinkLastChains
<1>3. r = [l EXCEPT !.entries = entries2, !.weight = l.weight + w]
  BY DEF StoredIn
<1> HIDE DEF l, entries2, items
<1>4. /\ IsListState(r) /\ r.entries = entries2 /\ r.nodes = l.nodes /\ r.free = l.free
      /\ r.weight = l.weight + w /\ r.head = l.head /\ r.tail = l.tail
  BY <1>2, <1>3 DEF SameLoad, IsListState
<1>5. /\ IsSeq(e) /\ Len(e) = Len(d) + 1 /\ \A i \in 1..Len(d) : e[i] = d[i]
      /\ e[Len(d) + 1] = x
  BY <1>1, Appended
<1> HIDE DEF e
<1>6. Chained(r, e)
  BY <1>2, <1>4 DEF Chained, Holds
<1>7. /\ \A i \in 1..Len(d) : /\ r.nodes[d[i]].key = t.nodes[d[i]].key
                              /\ r.nodes[d[i]].weight = t.nodes[d[i]].weight
      /\ r.nodes[x].key = k /\ r.nodes[x].weight = w
      /\ Len(r.nodes) = Len(t.nodes)
  BY <1>1, <1>2, <1>4 DEF SameLoad, Chained
<1>8. /\ r.entries = [other \in CacheKeys |-> r.entries[other]] /\ r.entries[k] = x
      /\ \A other \in CacheKeys : other # k => r.entries[other] = t.entries[other]
  <2>1. l.entries = [other \in CacheKeys |-> t.entries[other]]
    BY <1>1, <1>2 DEF SameLoad, Mapped
  <2> QED BY <1>4, <2>1 DEF entries2
<1>9. Mapped(r, e)
  <2>1. ASSUME NEW other \in CacheKeys, r.entries[other] # NoIndex
        PROVE  \E i \in 1..Len(e) : e[i] = r.entries[other] /\ r.nodes[e[i]].key = other
    <3>1. CASE other = k
      <4>1. Len(d) + 1 \in 1..Len(e)
        BY <1>1, <1>5
      <4> QED BY <1>5, <1>7, <1>8, <3>1, <4>1
    <3>2. CASE other # k
      <4>1. PICK i \in 1..Len(d) : d[i] = t.entries[other] /\ t.nodes[d[i]].key = other
        BY <1>1, <1>8, <2>1, <3>2 DEF Mapped
      <4>2. i \in 1..Len(e) /\ e[i] = d[i]
        BY <1>1, <1>5
      <4> QED BY <1>7, <1>8, <3>2, <4>1, <4>2
    <3> QED BY <3>1, <3>2
  <2>2. ASSUME NEW i \in 1..Len(e)
        PROVE  /\ r.nodes[e[i]].key \in CacheKeys /\ r.nodes[e[i]].weight \in Nat
               /\ r.entries[r.nodes[e[i]].key] = e[i]
    <3>1. CASE i = Len(d) + 1
      BY <1>5, <1>7, <1>8, <3>1
    <3>2. CASE i \in 1..Len(d)
      <4>1. /\ t.nodes[d[i]].key \in CacheKeys /\ t.nodes[d[i]].weight \in Nat
            /\ t.entries[t.nodes[d[i]].key] = d[i] /\ d[i] # NoIndex
        <5>1. Holds(t, d[i]) /\ IsSeq(t.nodes)
          BY <1>1, <3>2 DEF Chained
        <5>2. d[i] # NoIndex
          BY <5>1, SeqPlaces DEF Holds, NoIndex
        <5> QED BY <1>1, <3>2, <5>2 DEF Mapped
      <4>2. t.nodes[d[i]].key # k
        BY <4>1
      <4>3. /\ e[i] = d[i] /\ r.nodes[d[i]].key = t.nodes[d[i]].key
            /\ r.nodes[d[i]].weight = t.nodes[d[i]].weight
        BY <1>5, <1>7, <3>2
      <4>4. r.entries[t.nodes[d[i]].key] = d[i]
        BY <1>8, <4>1, <4>2
      <4> QED BY <4>1, <4>3, <4>4
    <3> QED BY <1>1, <1>5, <3>1, <3>2
  <2> QED BY <1>8, <2>1, <2>2 DEF Mapped
<1>10. Spared(r, e)
  <2>1. r.free = t.free
    BY <1>2, <1>4 DEF SameLoad
  <2>2. ASSUME NEW j \in 1..Len(t.free)
        PROVE  t.free[j] \in 1..Len(r.nodes) /\ \A i \in 1..Len(e) : e[i] # t.free[j]
    <3>1. t.free[j] \in 1..Len(t.nodes) /\ \A i \in 1..Len(d) : d[i] # t.free[j]
      BY <1>1 DEF Spared
    <3>2. ASSUME NEW i \in 1..Len(e) PROVE e[i] # t.free[j]
      <4>1. i \in 1..Len(d) \/ i = Len(d) + 1
        BY <1>1, <1>5
      <4> QED BY <1>5, <3>1, <4>1
    <3> QED BY <1>7, <3>1, <3>2
  <2>3. IsSeq(t.free) /\ \A j, m \in 1..Len(t.free) : t.free[j] = t.free[m] => j = m
    BY <1>1 DEF Spared
  <2> QED BY <2>1, <2>2, <2>3 DEF Spared
<1>11. /\ IsSeq(items) /\ Len(items) = Len(d)
       /\ \A i \in 1..Len(d) : items[i] = [key |-> t.nodes[d[i]].key,
                                           weight |-> t.nodes[d[i]].weight]
  BY <1>1, ItemsAre DEF items, ItemsOf
<1>12. item = [key |-> k, weight |-> w] /\ item.weight = w
  BY DEF Recency!Item
<1> HIDE DEF item
<1>13. ItemsOf(r, e) = Append(items, item)
  <2> DEFINE more == Append(items, item)
  <2>1. /\ IsSeq(more) /\ Len(more) = Len(d) + 1 /\ more[Len(d) + 1] = item
        /\ \A i \in 1..Len(d) : more[i] = items[i]
    BY <1>11, Appended
  <2> HIDE DEF more
  <2>2. ASSUME NEW i \in 1..Len(e)
        PROVE  more[i] = [key |-> r.nodes[e[i]].key, weight |-> r.nodes[e[i]].weight]
    <3>1. CASE i = Len(d) + 1
      BY <1>5, <1>7, <1>12, <2>1, <3>1
    <3>2. CASE i \in 1..Len(d)
      <4>1. more[i] = [key |-> t.nodes[d[i]].key, weight |-> t.nodes[d[i]].weight]
        BY <1>11, <2>1, <3>2
      <4>2. /\ r.nodes[e[i]].key = t.nodes[d[i]].key
            /\ r.nodes[e[i]].weight = t.nodes[d[i]].weight
        BY <1>5, <1>7, <3>2
      <4> QED BY <4>1, <4>2
    <3> QED BY <1>1, <1>5, <3>1, <3>2
  <2>3. IsSeq(e) /\ IsSeq(more) /\ Len(more) = Len(e)
    BY <1>5, <2>1
  <2>4. ItemsOf(r, e) = more
    BY <2>2, <2>3, SameItems
  <2> QED BY <2>4 DEF more
<1>14. r.weight = Recency!Total(ItemsOf(r, e))
  <2>1. Recency!Total(Append(items, item)) = Recency!Total(items) + w
    BY <1>1, <1>12, TotalOfAppended
  <2> QED BY <1>1, <1>2, <1>4, <1>13, <2>1 DEF SameLoad
<1>15. IsList(r, e)
  BY <1>6, <1>9, <1>10, <1>14 DEF IsList
<1> QED BY <1>13, <1>15 DEF e, items, item

-----------------------------------------------------------------------------
(* Each change of the list is the change of the sequence that it stands for. *)

\* RecencyList removes a place as this module does.
LEMMA SameRemoval ==
  \A items, i : Recency!RemoveAt(items, i) = RemoveAt(items, i)
BY DEF Recency!RemoveAt, RemoveAt

\* Without takes out an item with the key when there is one.
LEMMA WithoutIs ==
  ASSUME NEW items, NEW k, \E i \in DOMAIN items : items[i].key = k
  PROVE  \E i \in DOMAIN items :
           items[i].key = k /\ Recency!Without(items, k) = RemoveAt(items, i)
<1> DEFINE i == CHOOSE j \in DOMAIN items : items[j].key = k
<1>1. Recency!Without(items, k) = RemoveAt(items, i)
  <2>1. Recency!Without(items, k) = Recency!RemoveAt(items, i)
    BY DEF Recency!Without
  <2> HIDE DEF i
  <2> QED BY <2>1, SameRemoval
<1>2. i \in DOMAIN items /\ items[i].key = k
  OBVIOUS
<1> HIDE DEF i
<1> QED BY <1>1, <1>2

\* remove takes out the one slot that holds the key, or nothing.
LEMMA RemoveKeyIs ==
  ASSUME NEW s, NEW c, IsList(s, c), NEW k \in CacheKeys, NEW t, t = RemoveKey(s, k)
  PROVE  \E d : /\ IsList(t, d) /\ t.entries[k] = NoIndex
                /\ ItemsOf(t, d) = Recency!Without(ItemsOf(s, c), k)
                /\ s.entries[k] # NoIndex =>
                     \E i \in 1..Len(ItemsOf(s, c)) :
                       /\ ItemsOf(s, c)[i].key = k
                       /\ ItemsOf(t, d) = RemoveAt(ItemsOf(s, c), i)
<1> DEFINE items == ItemsOf(s, c)
<1>1. /\ IsSeq(c) /\ IsSeq(items) /\ Len(items) = Len(c) /\ DOMAIN items = 1..Len(c)
      /\ \A i \in 1..Len(c) : items[i].key = s.nodes[c[i]].key
      /\ Chained(s, c) /\ Mapped(s, c)
  <2>1. IsSeq(c) /\ Chained(s, c) /\ Mapped(s, c)
    BY DEF IsList, Chained
  <2> QED BY <2>1, ItemsAre, SeqPlaces
<1>2. \A i \in 1..Len(c) : c[i] # NoIndex
  <2> SUFFICES ASSUME NEW i \in 1..Len(c) PROVE c[i] # NoIndex
    OBVIOUS
  <2>1. Holds(s, c[i]) /\ IsSeq(s.nodes)
    BY <1>1 DEF Chained
  <2> QED BY <2>1, SeqPlaces DEF Holds, NoIndex
<1>3. \A i \in 1..Len(c) : items[i].key = k => s.entries[k] = c[i]
  BY <1>1 DEF Mapped
<1> HIDE DEF items
<1>4. CASE s.entries[k] = NoIndex
  <2>1. t = s
    BY <1>4 DEF RemoveKey
  <2>2. Recency!Without(items, k) = items
    BY <1>1, <1>2, <1>3, <1>4 DEF Recency!Without
  <2> QED BY <1>4, <2>1, <2>2 DEF items
<1>5. CASE s.entries[k] # NoIndex
  <2>1. PICK i \in 1..Len(c) : c[i] = s.entries[k] /\ s.nodes[c[i]].key = k
    BY <1>1, <1>5 DEF Mapped
  <2>2. \A j \in 1..Len(c) : items[j].key = k => j = i
    BY <1>1, <1>3, <2>1 DEF Chained
  <2>3. items[i].key = k /\ i \in DOMAIN items
    BY <1>1, <2>1
  <2>4. Recency!Without(items, k) = RemoveAt(items, i)
    <3>1. PICK j \in DOMAIN items :
            items[j].key = k /\ Recency!Without(items, k) = RemoveAt(items, j)
      BY <2>3, WithoutIs
    <3>2. j = i
      BY <1>1, <2>2, <3>1
    <3> QED BY <3>1, <3>2
  <2>5. t = RemoveIndex(s, c[i])
    BY <1>5, <2>1 DEF RemoveKey
  <2>6. /\ IsList(t, RemoveAt(c, i)) /\ ItemsOf(t, RemoveAt(c, i)) = RemoveAt(items, i)
        /\ t.entries[k] = NoIndex
    BY <2>1, <2>5, RemoveIndexIs DEF items
  <2> QED BY <1>1, <2>3, <2>4, <2>6 DEF items
<1> QED BY <1>4, <1>5

\* A hit moves its slot to the end, and every other stays where it was.
LEMMA TouchIs ==
  ASSUME NEW s, NEW c, IsList(s, c), NEW i \in 1..Len(c),
         NEW t, t = LinkLast(Unlink(s, c[i]), c[i])
  PROVE  \E d : /\ IsList(t, d)
                /\ ItemsOf(t, d) = Append(RemoveAt(ItemsOf(s, c), i), ItemsOf(s, c)[i])
<1> DEFINE u == Unlink(s, c[i])
           b == RemoveAt(c, i)
           d == Append(b, c[i])
           items == ItemsOf(s, c)
           old(j) == IF j = Len(c) THEN i ELSE IF j < i THEN j ELSE j + 1
<1>1. /\ Chained(s, c) /\ Mapped(s, c) /\ Spared(s, c) /\ s.weight = Recency!Total(items)
      /\ Len(c) \in Nat /\ IsSeq(c) /\ Weighed(items)
  BY ListWeighs, SeqPlaces DEF IsList
<1>2. SameLoad(s, u) /\ Chained(u, b)
  BY <1>1, UnlinkChains
<1>3. /\ IsSeq(b) /\ Len(b) = Len(c) - 1
      /\ \A j \in 1..Len(c) - 1 : b[j] = IF j < i THEN c[j] ELSE c[j + 1]
  BY <1>1, RemovedAt
<1>4. /\ IsSeq(d) /\ Len(d) = Len(b) + 1 /\ \A j \in 1..Len(b) : d[j] = b[j]
      /\ d[Len(b) + 1] = c[i]
  BY <1>3, Appended
<1> HIDE DEF u, b, d, items
<1>5. Holds(u, c[i])
  BY <1>1, <1>2 DEF Chained, SameLoad
<1>6. \A j \in 1..Len(b) : b[j] # c[i]
  <2> SUFFICES ASSUME NEW j \in 1..Len(b) PROVE b[j] # c[i]
    OBVIOUS
  <2>1. j < i \/ j >= i
    BY <1>1, <1>3
  <2>2. \E m \in 1..Len(c) : b[j] = c[m] /\ m # i
    <3>1. CASE j < i
      BY <1>1, <1>3, <3>1
    <3>2. CASE j >= i
      <4>1. j + 1 \in 1..Len(c) /\ j + 1 # i /\ b[j] = c[j + 1]
        BY <1>1, <1>3, <3>2
      <4> QED BY <4>1
    <3> QED BY <2>1, <3>1, <3>2
  <2> QED BY <1>1, <2>2 DEF Chained
<1>7. SameLoad(u, t) /\ Chained(t, d)
  BY <1>2, <1>5, <1>6, LinkLastChains DEF u, d
<1>8. SameLoad(s, t)
  BY <1>2, <1>7 DEF SameLoad
<1>9. /\ Len(d) = Len(c)
      /\ \A j \in 1..Len(c) : d[j] = c[old(j)] /\ old(j) \in 1..Len(c)
  <2>1. Len(d) = Len(c)
    BY <1>1, <1>3, <1>4
  <2>2. \A j \in 1..Len(c) : old(j) \in 1..Len(c)
    BY <1>1
  <2>3. d[Len(c)] = c[i]
    BY <1>1, <1>3, <1>4
  <2>4. \A j \in 1..Len(c) - 1 : d[j] = IF j < i THEN c[j] ELSE c[j + 1]
    BY <1>1, <1>3, <1>4
  <2>5. ASSUME NEW j \in 1..Len(c) PROVE d[j] = c[old(j)]
    <3>1. CASE j = Len(c)
      BY <2>3, <3>1
    <3>2. CASE j # Len(c)
      <4>1. j \in 1..Len(c) - 1
        BY <1>1, <3>2
      <4> QED BY <2>4, <3>2, <4>1
    <3> QED BY <3>1, <3>2
  <2> QED BY <2>1, <2>2, <2>5
<1>10. \A m \in 1..Len(c) : \E j \in 1..Len(c) : old(j) = m
  <2> SUFFICES ASSUME NEW m \in 1..Len(c) PROVE \E j \in 1..Len(c) : old(j) = m
    OBVIOUS
  <2>1. CASE m = i
    <3>1. Len(c) \in 1..Len(c) /\ old(Len(c)) = m
      BY <1>1, <2>1
    <3> QED BY <3>1
  <2>2. CASE m < i
    <3>1. m \in 1..Len(c) /\ old(m) = m
      BY <1>1, <2>2
    <3> QED BY <3>1
  <2>3. CASE m > i
    <3>1. m - 1 \in 1..Len(c) /\ old(m - 1) = m
      BY <1>1, <2>3
    <3> QED BY <3>1
  <2> QED BY <1>1, <2>1, <2>2, <2>3
<1>11. \A j \in 1..Len(d) : \E m \in 1..Len(c) : d[j] = c[m]
  BY <1>9
<1>12. \A m \in 1..Len(c) : \E j \in 1..Len(d) : d[j] = c[m]
  BY <1>9, <1>10
<1>13. \A m \in 1..Len(c) : /\ t.nodes[c[m]].key = s.nodes[c[m]].key
                            /\ t.nodes[c[m]].weight = s.nodes[c[m]].weight
  BY <1>1, <1>8 DEF SameLoad, Chained
<1>14. Mapped(t, d)
  <2>1. t.entries = s.entries
    BY <1>8 DEF SameLoad
  <2>2. ASSUME NEW k \in CacheKeys, t.entries[k] # NoIndex
        PROVE  \E j \in 1..Len(d) : d[j] = t.entries[k] /\ t.nodes[d[j]].key = k
    <3>1. PICK m \in 1..Len(c) : c[m] = s.entries[k] /\ s.nodes[c[m]].key = k
      BY <1>1, <2>1, <2>2 DEF Mapped
    <3>2. PICK j \in 1..Len(d) : d[j] = c[m]
      BY <1>12
    <3> QED BY <1>13, <2>1, <3>1, <3>2
  <2>3. ASSUME NEW j \in 1..Len(d)
        PROVE  /\ t.nodes[d[j]].key \in CacheKeys /\ t.nodes[d[j]].weight \in Nat
               /\ t.entries[t.nodes[d[j]].key] = d[j]
    <3>1. PICK m \in 1..Len(c) : d[j] = c[m]
      BY <1>11
    <3>2. /\ s.nodes[c[m]].key \in CacheKeys /\ s.nodes[c[m]].weight \in Nat
          /\ s.entries[s.nodes[c[m]].key] = c[m]
      BY <1>1 DEF Mapped
    <3> QED BY <1>13, <2>1, <3>1, <3>2
  <2> QED BY <1>1, <2>1, <2>2, <2>3 DEF Mapped
<1>15. Spared(t, d)
  <2>1. t.free = s.free /\ Len(t.nodes) = Len(s.nodes)
    BY <1>8 DEF SameLoad
  <2>2. ASSUME NEW j \in 1..Len(s.free)
        PROVE  s.free[j] \in 1..Len(s.nodes) /\ \A m \in 1..Len(d) : d[m] # s.free[j]
    <3>1. s.free[j] \in 1..Len(s.nodes) /\ \A m \in 1..Len(c) : c[m] # s.free[j]
      BY <1>1 DEF Spared
    <3> QED BY <1>11, <3>1
  <2>3. IsSeq(s.free) /\ \A j, m \in 1..Len(s.free) : s.free[j] = s.free[m] => j = m
    BY <1>1 DEF Spared
  <2> QED BY <2>1, <2>2, <2>3 DEF Spared
<1>16. /\ IsSeq(items) /\ Len(items) = Len(c)
       /\ \A m \in 1..Len(c) : items[m] = [key |-> s.nodes[c[m]].key,
                                           weight |-> s.nodes[c[m]].weight]
  BY <1>1, ItemsAre DEF items, ItemsOf
<1> DEFINE rest == RemoveAt(items, i)
           moved == Append(rest, items[i])
<1>17. /\ IsSeq(rest) /\ Len(rest) = Len(c) - 1
       /\ \A j \in 1..Len(c) - 1 : rest[j] = IF j < i THEN items[j] ELSE items[j + 1]
  BY <1>16, RemovedAt
<1> HIDE DEF rest
<1>18. /\ IsSeq(moved) /\ Len(moved) = Len(rest) + 1 /\ \A j \in 1..Len(rest) : moved[j] = rest[j]
       /\ moved[Len(rest) + 1] = items[i]
  BY <1>17, Appended
<1> HIDE DEF moved
<1>19. ItemsOf(t, d) = moved
  <2>1. \A j \in 1..Len(c) : moved[j] = items[old(j)]
    <3>1. moved[Len(c)] = items[i]
      BY <1>1, <1>17, <1>18
    <3>2. \A j \in 1..Len(c) - 1 : moved[j] = IF j < i THEN items[j] ELSE items[j + 1]
      BY <1>1, <1>17, <1>18
    <3>3. ASSUME NEW j \in 1..Len(c) PROVE moved[j] = items[old(j)]
      <4>1. CASE j = Len(c)
        BY <3>1, <4>1
      <4>2. CASE j # Len(c)
        <5>1. j \in 1..Len(c) - 1
          BY <1>1, <4>2
        <5> QED BY <3>2, <4>2, <5>1
      <4> QED BY <4>1, <4>2
    <3> QED BY <3>3
  <2>2. ASSUME NEW j \in 1..Len(d)
        PROVE  moved[j] = [key |-> t.nodes[d[j]].key, weight |-> t.nodes[d[j]].weight]
    <3> DEFINE m == old(j)
    <3>1. m \in 1..Len(c) /\ d[j] = c[m] /\ moved[j] = items[m]
      BY <1>9, <2>1
    <3> HIDE DEF m
    <3>2. /\ items[m] = [key |-> s.nodes[c[m]].key, weight |-> s.nodes[c[m]].weight]
          /\ t.nodes[d[j]].key = s.nodes[c[m]].key
          /\ t.nodes[d[j]].weight = s.nodes[c[m]].weight
      BY <1>13, <1>16, <3>1
    <3> QED BY <3>1, <3>2
  <2>3. IsSeq(d) /\ IsSeq(moved) /\ Len(moved) = Len(d)
    BY <1>1, <1>4, <1>9, <1>17, <1>18
  <2> QED BY <2>2, <2>3, SameItems
<1>20. t.weight = Recency!Total(moved)
  <2>1. Weighed(rest) /\ Recency!Total(rest) = Recency!Total(items) - items[i].weight
    BY <1>1, <1>16, TotalOfRemoved DEF rest
  <2>2. items[i].weight \in Nat
    BY <1>1, <1>16 DEF Weighed
  <2>3. Recency!Total(moved) = Recency!Total(rest) + items[i].weight
    BY <2>1, <2>2, TotalOfAppended DEF moved
  <2>4. s.weight \in Nat /\ t.weight = s.weight
    BY <1>8, ListWeighs DEF SameLoad
  <2> QED BY <1>1, <2>1, <2>2, <2>3, <2>4
<1>21. IsList(t, d)
  BY <1>7, <1>14, <1>15, <1>19, <1>20 DEF IsList
<1> QED BY <1>19, <1>21 DEF moved, rest, items

\* insert takes the old slot of the key out, evicts, and stores the new one last.
LEMMA InsertIs ==
  ASSUME NEW s, NEW c, IsList(s, c), NEW k \in CacheKeys, NEW w \in Weights,
         NEW fitting, fitting = Evicted(RemoveKey(s, k), w),
         NEW index, index = AllocatedIndex(fitting),
         NEW node, node = [key |-> k, weight |-> w, previous |-> NoIndex, next |-> NoIndex],
         NEW t, StoredIn(t, Allocated(fitting, node), index, k, w)
  PROVE  \E d, n : LET rest == Recency!Without(ItemsOf(s, c), k)
                   IN /\ IsList(t, d) /\ n \in 0..Len(rest)
                      /\ Recency!Total(Recency!AfterFirst(rest, n)) + w <= CapacityBytes
                      /\ n > 0 => Recency!Total(Recency!AfterFirst(rest, n - 1)) + w > CapacityBytes
                      /\ ItemsOf(t, d) = Append(Recency!AfterFirst(rest, n), Recency!Item(k, w))
<1> DEFINE removed == RemoveKey(s, k)
<1>1. w \in 0..CapacityBytes /\ w \in Nat
  BY LruConstants
<1>2. PICK b : /\ IsList(removed, b) /\ removed.entries[k] = NoIndex
               /\ ItemsOf(removed, b) = Recency!Without(ItemsOf(s, c), k)
  BY RemoveKeyIs
<1> HIDE DEF removed
<1>3. PICK e, n : /\ EvictedTo(fitting, e, n, ItemsOf(removed, b), w)
                  /\ Recency!Total(Recency!AfterFirst(ItemsOf(removed, b), n)) + w <= CapacityBytes
                  /\ fitting.entries[k] = NoIndex
  BY <1>1, <1>2, EvictedIs DEF removed
<1>4. IsList(fitting, e) /\ IsNode(node) /\ node.key = k /\ node.weight = w
  BY <1>3 DEF EvictedTo, IsNode
<1> DEFINE a == Allocated(fitting, node)
<1>5. /\ IsList(a, e) /\ ItemsOf(a, e) = ItemsOf(fitting, e)
      /\ Holds(a, index) /\ a.nodes[index] = node /\ a.entries = fitting.entries
      /\ \A i \in 1..Len(e) : e[i] # index
      /\ \A j \in 1..Len(a.free) : a.free[j] # index
  BY <1>4, AllocatedIs
<1> HIDE DEF a
<1>6. StoredIn(t, a, index, k, w)
  BY DEF a
<1>7. /\ IsList(t, Append(e, index))
      /\ ItemsOf(t, Append(e, index)) = Append(ItemsOf(a, e), Recency!Item(k, w))
  BY <1>1, <1>3, <1>4, <1>5, <1>6, StoredLast
<1> QED BY <1>2, <1>3, <1>5, <1>7 DEF EvictedTo

\* The slots that the pointers name are the sequence's members, in its order.
LruInv == \E c : IsList(State, c)

\* The pointers, the map and the freed slots of metadata_cache.rs behave as the sequence that
\* module MetadataCache takes them for, for all keys, weights and every capacity.
THEOREM LruIsSequence == LruSpec => LruImplementsList
<1>1. LruInit => LruInv /\ Recency!Init
  <2> SUFFICES ASSUME LruInit PROVE LruInv /\ Recency!Init
    OBVIOUS
  <2>1. IsSeq(<<>>) /\ Len(<<>>) = 0
    BY EmptySeq, SeqIs
  <2>2. /\ IsListState(State) /\ State.nodes = <<>> /\ State.free = <<>>
        /\ State.head = NoIndex /\ State.tail = NoIndex /\ State.weight = 0
        /\ State.entries = [k \in CacheKeys |-> NoIndex]
    BY DEF State, IsListState, LruInit
  <2>3. Chained(State, <<>>)
    BY <2>1, <2>2 DEF Chained, SlotAt
  <2>4. Mapped(State, <<>>) /\ Spared(State, <<>>)
    BY <2>1, <2>2 DEF Mapped, Spared
  <2>5. IsSeq(ItemsOf(State, <<>>)) /\ Len(ItemsOf(State, <<>>)) = 0
    BY <2>1, ItemsAre
  <2>6. IsList(State, <<>>)
    BY <2>2, <2>3, <2>4, <2>5, TotalOfNone DEF IsList
  <2>7. Chain = <<>>
    <3>1. Chain = ItemsOf(State, <<>>)
      BY <2>3, ChainIs DEF Chain
    <3>2. ItemsOf(State, <<>>) = <<>>
      BY <2>1, <2>5, SameSeq
    <3> QED BY <3>1, <3>2
  <2> QED BY <2>6, <2>7 DEF LruInv, Recency!Init
<1>2. LruInv /\ [LruNext]_lruVars => LruInv' /\ [Recency!Next]_Chain
  <2> SUFFICES ASSUME LruInv, [LruNext]_lruVars PROVE LruInv' /\ [Recency!Next]_Chain
    OBVIOUS
  <2>1. PICK c : IsList(State, c)
    BY DEF LruInv
  <2> DEFINE items == ItemsOf(State, c)
  <2>2. Chain = items /\ Mapped(State, c) /\ Chained(State, c) /\ State.entries = slots
        /\ State.tail = tail
    BY <2>1, ChainIs DEF Chain, IsList, State
  <2>3. ASSUME NEW t, NEW d, IsList(t, d), Becomes(t)
        PROVE  LruInv' /\ Chain' = ItemsOf(t, d)
    <3>1. State' = t
      BY <2>3 DEF Becomes, State, IsList, Chained, IsListState
    <3>2. LruInv'
      BY <2>3, <3>1 DEF LruInv
    <3>3. Chain' = ChainOf(t)
      BY <3>1 DEF Chain
    <3> QED BY <2>3, <3>2, <3>3, ChainIs DEF IsList
  <2>4. IsSeq(items) /\ Len(items) = Len(c) /\ IsSeq(c) /\ DOMAIN items = 1..Len(items)
    BY <2>2, ItemsAre, SeqPlaces DEF Chained
  <2>5. ASSUME NEW k \in CacheKeys, Delete(k) PROVE LruInv' /\ [Recency!Next]_Chain
    <3>1. slots[k] # NoIndex /\ Becomes(RemoveKey(State, k))
      BY <2>5 DEF Delete
    <3>2. PICK d : /\ IsList(RemoveKey(State, k), d)
                   /\ \E i \in 1..Len(items) :
                        /\ items[i].key = k
                        /\ ItemsOf(RemoveKey(State, k), d) = RemoveAt(items, i)
      BY <2>1, <2>2, <3>1, RemoveKeyIs
    <3> HIDE DEF items
    <3>3. LruInv' /\ Chain' = ItemsOf(RemoveKey(State, k), d)
      BY <2>3, <3>1, <3>2
    <3>4. Recency!Drop(k)
      BY <2>2, <2>4, <3>2, <3>3, SameRemoval DEF Recency!Drop
    <3> QED BY <3>3, <3>4 DEF Recency!Next
  <2>6. ASSUME NEW k \in CacheKeys, Touch(k) PROVE LruInv' /\ [Recency!Next]_Chain
    <3> DEFINE t == LinkLast(Unlink(State, slots[k]), slots[k])
    <3>1. slots[k] # NoIndex /\ Becomes(t)
      BY <2>6 DEF Touch
    <3>2. PICK i \in 1..Len(c) : c[i] = slots[k] /\ State.nodes[c[i]].key = k
      BY <2>2, <3>1 DEF Mapped
    <3>3. PICK d : /\ IsList(t, d)
                   /\ ItemsOf(t, d) = Append(RemoveAt(items, i), items[i])
      BY <2>1, <3>2, TouchIs
    <3>4. items[i].key = k
      BY <2>4, <3>2, ItemsAre
    <3> HIDE DEF items, t
    <3>5. LruInv' /\ Chain' = ItemsOf(t, d)
      BY <2>3, <3>1, <3>3
    <3>6. i \in DOMAIN items
      BY <2>4
    <3>7. Recency!Use(k)
      BY <2>2, <3>3, <3>4, <3>5, <3>6, SameRemoval DEF Recency!Use
    <3> QED BY <3>5, <3>7 DEF Recency!Next
  <2>7. ASSUME NEW k \in CacheKeys, NEW w \in Weights, InsertEntry(k, w)
        PROVE  LruInv' /\ [Recency!Next]_Chain
    <3> DEFINE fitting == Evicted(RemoveKey(State, k), w)
               index == AllocatedIndex(fitting)
               node == [key |-> k, weight |-> w, previous |-> NoIndex, next |-> NoIndex]
               t == [LinkLast(Allocated(fitting, node), index)
                       EXCEPT !.entries[k] = index, !.weight = @ + w]
               rest == Recency!Without(items, k)
    <3>1. Becomes(t)
      BY <2>7 DEF InsertEntry
    <3>2. StoredIn(t, Allocated(fitting, node), index, k, w)
      BY DEF StoredIn
    <3> HIDE DEF t
    <3>3. PICK d, n : /\ IsList(t, d) /\ n \in 0..Len(rest)
                      /\ Recency!Total(Recency!AfterFirst(rest, n)) + w <= CapacityBytes
                      /\ n > 0 => Recency!Total(Recency!AfterFirst(rest, n - 1)) + w > CapacityBytes
                      /\ ItemsOf(t, d) = Append(Recency!AfterFirst(rest, n), Recency!Item(k, w))
      BY <2>1, <3>2, InsertIs
    <3> HIDE DEF items
    <3>4. LruInv' /\ Recency!Store(k, w)
      BY <2>2, <2>3, <3>1, <3>3 DEF Recency!Store
    <3> QED BY <3>4 DEF Recency!Next
  <2>8. CASE UNCHANGED lruVars
    <3>1. State' = State
      BY <2>8 DEF lruVars, State
    <3> QED BY <3>1 DEF LruInv, Chain
  <2> QED BY <2>5, <2>6, <2>7, <2>8 DEF LruNext
<1> QED BY <1>1, <1>2, PTL DEF LruSpec, LruImplementsList, Recency!Spec
=============================================================================
