--------------------------- MODULE OsvSyncProofs ---------------------------
(* Proofs about OsvSync, for every set of advisories and runners and every bound. *)
EXTENDS OsvSync, TLAPS

\* A run of sync_ecosystem is in progress.
Running(r) == attempt[r].phase # "idle"

\* The index lags behind the documents, and lists everything older than its newest line.
FeedInv ==
  /\ \A i \in Ids : /\ csv[i] <= docs[i].modified /\ docs[i].modified <= now
                    /\ archive[i].modified <= docs[i].modified
  /\ \A i, j \in Ids : docs[j].modified < csv[i] => docs[j].modified <= csv[j]

\* The index only grows.
HistoryInv ==
  /\ \A t \in Times, i \in Ids : csvAt[t][i] <= csv[i]
  /\ \A t, u \in Times, i \in Ids : t <= u /\ u <= now => csvAt[t][i] <= csvAt[u][i]

\* What content m must hold for watermark w, given the documents d, the index c, and the
\* index h of the instant its run began.
Covers(d, c, h, m, w) ==
  \A i \in Ids :
    /\ d[i].modified < w => d[i].modified <= m[i].modified
    /\ c[i] < w => c[i] <= m[i].modified
    /\ h[i] <= m[i].modified

StoreInv ==
  /\ store.watermark <= now /\ store.lastSuccess <= now
  /\ \A i \in Ids : store.content[i].modified <= docs[i].modified
  /\ store.dataset = "full" =>
       /\ store.lastSuccess > 0
       /\ Covers(docs, csv, csvAt[store.lastSuccess], store.content, store.watermark)
  /\ store.dataset # "full" => \A i \in Ids : store.content[i].modified = 0

\* What the import would write if the documents still to fetch were fetched now.
Prospect(a) == [i \in Ids |-> IF i \in a.pending THEN docs[i] ELSE Imported(a)[i]]

AttemptInv(a) ==
  /\ 0 < a.attemptedAt /\ a.attemptedAt <= now /\ a.high <= now
  /\ a.bootstrap <=> store.dataset # "full"
  /\ \A i \in Ids : a.archived[i].modified <= docs[i].modified
  /\ \A i \in a.fetched : a.document[i].modified <= docs[i].modified
  /\ ~a.bootstrap =>
       \A i \in a.fetched : store.content[i].modified <= a.document[i].modified
  /\ a.phase # "advisories" => /\ a.fetched = {}
                               /\ a.high = IF a.bootstrap THEN 0 ELSE store.watermark
  /\ a.phase = "advisories" =>
       Covers(docs, csv, csvAt[a.attemptedAt], Prospect(a), a.high)

\* SyncRunGuard: at most one.
OneRun == \A q, r \in Runners : Running(q) /\ Running(r) => q = r

IInv == /\ TypeOK /\ FeedInv /\ HistoryInv /\ StoreInv
        /\ OneRun /\ \A r \in Runners : Running(r) => AttemptInv(attempt[r])

-----------------------------------------------------------------------------
\* An absent document is a document.
LEMMA NoDocType == NoDoc \in Docs
  BY ConstantsAssumption DEF NoDoc, Docs, Times, AllKinds

\* A generation without advisories is a content.
LEMMA EmptyContentType == EmptyContent \in [Ids -> Docs]
  BY NoDocType DEF EmptyContent

\* The idle attempt is an attempt.
LEMMA IdleType == Idle \in Attempts
  BY EmptyContentType, ConstantsAssumption DEF Idle, Attempts, Times

\* The stores a server may start from are stores.
LEMMA InitialStoreType == EmptyStore \in Stores /\ LegacyStore \in Stores
<1>1. EmptyStore \in Stores
  BY EmptyContentType, ConstantsAssumption DEF EmptyStore, Stores, Times
<1>2. 1 \in Times
  BY ConstantsAssumption DEF Times
<1>3. LegacyStore \in Stores
  BY <1>1, <1>2 DEF LegacyStore, Stores
<1>4. QED  BY <1>1, <1>3

\* The initial state is typed.
LEMMA TypeInit == Init => TypeOK
  BY EmptyContentType, IdleType, InitialStoreType, ConstantsAssumption DEF Init, TypeOK, Times

\* Replacing one runner's attempt by another attempt.
LEMMA AttemptUpdate ==
  ASSUME attempt \in [Runners -> Attempts], NEW r \in Runners, NEW a \in Attempts
  PROVE  [attempt EXCEPT ![r] = a] \in [Runners -> Attempts]
  OBVIOUS

\* sync_ecosystem begins with a typed attempt.
LEMMA BegunType ==
  ASSUME now \in 1..MaxTime, NEW s \in Stores
  PROVE  Begun(s) \in Attempts
<1> DEFINE b == NeedsBootstrap(s)
<1>1. b \in BOOLEAN
  BY DEF NeedsBootstrap
<1>2. (IF b THEN "archive" ELSE "csv") \in {"idle", "archive", "csv", "advisories"}
  OBVIOUS
<1>3. now \in Times /\ (IF b THEN 0 ELSE s.watermark) \in Times
  BY ConstantsAssumption DEF Times, Stores
<1>4. QED
  BY <1>1, <1>2, <1>3, IdleType DEF Begun, Attempts

\* Fetching a document keeps an attempt typed.
LEMMA FetchedType ==
  ASSUME NEW a \in Attempts, NEW P \in SUBSET Ids, NEW F \in SUBSET Ids, NEW D \in [Ids -> Docs]
  PROVE  [a EXCEPT !.pending = P, !.fetched = F, !.document = D] \in Attempts
  BY DEF Attempts

\* What an import writes is a content.
LEMMA ImportedType ==
  ASSUME store \in Stores, NEW a \in Attempts
  PROVE  Imported(a) \in [Ids -> Docs]
  BY DEF Imported, Base, Stores, Attempts

\* What a commit leaves is a store.
LEMMA CommittedType ==
  ASSUME store \in Stores, NEW a \in Attempts
  PROVE  Committed(a) \in Stores
<1> DEFINE d == IF a.bootstrap THEN "full" ELSE store.dataset
           v == store.revision + (IF ContentChanged(a) THEN 1 ELSE 0)
<1>1. d \in {"none", "legacy", "full"} /\ v \in Nat
  BY DEF Stores
<1>2. Imported(a) \in [Ids -> Docs]
  BY ImportedType
<1>3. a.high \in Times /\ SuccessTime(a) \in Times
  BY DEF Attempts, SuccessTime
<1> HIDE DEF d, v
<1>4. [store EXCEPT !.known = TRUE, !.dataset = d, !.content = Imported(a),
                    !.watermark = a.high, !.lastSuccess = SuccessTime(a),
                    !.status = "healthy", !.revision = v] \in Stores
  BY <1>1, <1>2, <1>3 DEF Stores
<1>5. QED  BY <1>4 DEF Committed, d, v

\* Every step keeps every variable in its type.
LEMMA TypeNext == TypeOK /\ [Next]_vars => TypeOK'
<1> SUFFICES ASSUME TypeOK, [Next]_vars PROVE TypeOK'
  OBVIOUS
<1> USE ConstantsAssumption
<1>1. CASE Tick  BY <1>1 DEF Tick, TypeOK, feed, Times
<1>2. CASE RefreshCsv
  <2>1. \A i \in Ids : docs[i].modified \in Times
    BY DEF TypeOK, Docs
  <2>2. QED  BY <1>2, <2>1 DEF RefreshCsv, TypeOK
<1>3. CASE RefreshArchive  BY <1>3 DEF RefreshArchive, TypeOK
<1>4. ASSUME NEW id \in Ids, NEW kind \in Kinds, Publish(id, kind) PROVE TypeOK'
  <2>1. [modified |-> now, kind |-> kind] \in Docs
    BY DEF TypeOK, Docs, Times
  <2>2. QED  BY <1>4, <2>1 DEF Publish, TypeOK
<1>5. ASSUME NEW r \in Runners, StartSync(r) PROVE TypeOK'
  <2>1. PICK s \in AfterInitialize(store) :
          store' = s /\ attempt' = [attempt EXCEPT ![r] = Begun(s)]
    BY <1>5 DEF StartSync
  <2>2. s \in Stores
    BY DEF AfterInitialize, Migrated, TypeOK, Stores
  <2>3. Begun(s) \in Attempts
    BY <2>2, BegunType DEF TypeOK
  <2>4. QED  BY <1>5, <2>1, <2>2, <2>3, AttemptUpdate DEF StartSync, TypeOK, feed
<1>6. ASSUME NEW r \in Runners, FetchArchive(r) PROVE TypeOK'
  <2>1. [attempt[r] EXCEPT !.phase = "csv", !.archived = archive] \in Attempts
    BY DEF TypeOK, Attempts
  <2>2. attempt' = [attempt EXCEPT ![r] = [attempt[r] EXCEPT !.phase = "csv", !.archived = archive]]
    BY <1>6 DEF FetchArchive
  <2>3. QED  BY <1>6, <2>1, <2>2, AttemptUpdate DEF FetchArchive, TypeOK, feed
<1>7. ASSUME NEW r \in Runners, FetchModifiedCsv(r) PROVE TypeOK'
  <2>1. PICK high \in Times : attempt' = [attempt EXCEPT ![r] = Listed(attempt[r], high)]
    BY <1>7 DEF FetchModifiedCsv
  <2>2. Listed(attempt[r], high) \in Attempts
    BY DEF TypeOK, Attempts, Listed
  <2>3. QED  BY <1>7, <2>1, <2>2, AttemptUpdate DEF FetchModifiedCsv, TypeOK, feed
<1>8. ASSUME NEW r \in Runners, NEW id \in Ids, FetchAdvisory(r, id) PROVE TypeOK'
  <2>1. attempt[r] \in Attempts /\ docs[id] \in Docs
    BY DEF TypeOK
  <2>2. [attempt[r].document EXCEPT ![id] = docs[id]] \in [Ids -> Docs]
    BY <2>1 DEF Attempts
  <2>3. Fetched(attempt[r], id) \in Attempts
    <3>1. attempt[r].pending \ {id} \in SUBSET Ids /\ attempt[r].fetched \cup {id} \in SUBSET Ids
      BY <2>1 DEF Attempts
    <3>2. QED  BY <2>1, <2>2, <3>1, FetchedType, Zenon DEF Fetched
  <2>4. QED  BY <1>8, <2>3, AttemptUpdate DEF FetchAdvisory, TypeOK, feed
<1>9. ASSUME NEW r \in Runners, ImportAndRecordSuccess(r) PROVE TypeOK'
  <2>1. Imported(attempt[r]) \in [Ids -> Docs]
    BY ImportedType DEF TypeOK
  <2>2. attempt[r].high \in Times /\ attempt[r].attemptedAt \in Times
    BY DEF TypeOK, Attempts
  <2>3. Committed(attempt[r]) \in Stores
    BY <2>1, <2>2, CommittedType DEF TypeOK
  <2>4. QED  BY <1>9, <2>3, IdleType, AttemptUpdate DEF ImportAndRecordSuccess, TypeOK, feed
<1>10. ASSUME NEW r \in Runners, ImportRejected(r) \/ RunError(r) PROVE TypeOK'
  <2>1. RecordSyncFailure(r)
    BY <1>10 DEF ImportRejected, RunError
  <2>2. store' \in Stores
    BY <2>1 DEF RecordSyncFailure, StatusAfterFailure, TypeOK, Stores
  <2>3. QED  BY <2>1, <2>2, IdleType, AttemptUpdate DEF RecordSyncFailure, TypeOK, feed
<1>11. ASSUME NEW r \in Runners, Crash(r) PROVE TypeOK'
  BY <1>11, IdleType, AttemptUpdate DEF Crash, TypeOK, feed
<1>12. CASE UNCHANGED vars  BY <1>12 DEF vars, TypeOK
<1>13. QED
  BY <1>1, <1>2, <1>3, <1>4, <1>5, <1>6, <1>7, <1>8, <1>9, <1>10, <1>11, <1>12
     DEF Next, Environment, Sync

\* Every reachable state of the store, of the feed and of each run is well typed.
THEOREM TypeCorrect == Spec => []TypeOK
  BY TypeInit, TypeNext, PTL DEF Spec

-----------------------------------------------------------------------------

\* Modification times are numbers.
LEMMA DocNumbers == \A x \in Docs : x.modified \in Nat
  BY ConstantsAssumption DEF Docs, Times

\* The times in the feed and in the store are numbers.
LEMMA Numbers ==
  ASSUME TypeOK
  PROVE  /\ now \in Nat /\ now <= MaxTime
         /\ \A i \in Ids : /\ docs[i].modified \in Nat /\ archive[i].modified \in Nat
                           /\ csv[i] \in Nat /\ store.content[i].modified \in Nat
         /\ \A t \in Times, i \in Ids : csvAt[t][i] \in Nat
         /\ store.watermark \in Nat /\ store.lastSuccess \in Times
<1>1. \A x \in Docs : x.modified \in Nat
  BY DocNumbers
<1>2. \A t \in Times : t \in Nat
  BY DEF Times
<1>3. store.content \in [Ids -> Docs] /\ store.watermark \in Times /\ store.lastSuccess \in Times
  BY DEF TypeOK, Stores
<1>4. \A i \in Ids : docs[i] \in Docs /\ archive[i] \in Docs /\ store.content[i] \in Docs
  BY <1>3 DEF TypeOK
<1>5. \A t \in Times, i \in Ids : csv[i] \in Times /\ csvAt[t][i] \in Times
  BY DEF TypeOK
<1>6. now \in Nat /\ now <= MaxTime
  BY ConstantsAssumption DEF TypeOK
<1>7. QED  BY <1>1, <1>2, <1>3, <1>4, <1>5, <1>6

\* The times in an attempt are numbers.
LEMMA AttemptNumbers ==
  ASSUME TypeOK, NEW r \in Runners
  PROVE  /\ attempt[r] \in Attempts
         /\ attempt[r].attemptedAt \in Times /\ attempt[r].high \in Nat
         /\ \A i \in Ids : /\ attempt[r].archived[i].modified \in Nat
                           /\ attempt[r].document[i].modified \in Nat
                           /\ Prospect(attempt[r])[i].modified \in Nat
<1>1. attempt[r] \in Attempts
  BY DEF TypeOK
<1>2. Imported(attempt[r]) \in [Ids -> Docs]
  BY <1>1, ImportedType DEF TypeOK
<1>3. Prospect(attempt[r]) \in [Ids -> Docs]
  BY <1>2 DEF Prospect, TypeOK
<1>4. \A i \in Ids : Prospect(attempt[r])[i] \in Docs
  BY <1>3
<1>5. \A i \in Ids : attempt[r].archived[i] \in Docs /\ attempt[r].document[i] \in Docs
  BY <1>1 DEF Attempts
<1>6. \A x \in Docs : x.modified \in Nat
  BY DocNumbers
<1>7. attempt[r].attemptedAt \in Times /\ attempt[r].high \in Nat
  BY <1>1, ConstantsAssumption DEF Attempts, Times
<1>8. QED  BY <1>1, <1>4, <1>5, <1>6, <1>7

\* The invariant holds initially.
LEMMA InitIInv == Init => IInv
<1> SUFFICES ASSUME Init PROVE IInv
  OBVIOUS
<1>1. TypeOK
  BY TypeInit
<1>2. \A i \in Ids : NoDoc.modified = 0 /\ docs[i] = NoDoc /\ archive[i] = NoDoc /\ csv[i] = 0
  BY DEF Init, EmptyContent, NoDoc
<1>3. FeedInv
  BY <1>2 DEF Init, FeedInv
<1>4. HistoryInv
  BY <1>2 DEF Init, HistoryInv
<1>5. /\ store.content = EmptyContent /\ store.watermark = 0
      /\ store.lastSuccess \in {0, 1} /\ store.dataset = "none"
  <2>1. CASE store = EmptyStore  BY <2>1 DEF EmptyStore
  <2>2. CASE store = LegacyStore  BY <2>2 DEF EmptyStore, LegacyStore
  <2>3. QED  BY <2>1, <2>2 DEF Init
<1>6. StoreInv
  BY <1>2, <1>5 DEF Init, StoreInv, EmptyContent
<1>7. \A r \in Runners : ~Running(r)
  BY DEF Init, Running, Idle
<1>8. QED  BY <1>1, <1>3, <1>4, <1>6, <1>7 DEF IInv, OneRun

\* The feed only moves forward, and a document that changes is stamped with the present.
LEMMA EnvironmentMovesForward ==
  ASSUME TypeOK, FeedInv, Environment
  PROVE  /\ now <= now' /\ UNCHANGED <<store, attempt>>
         /\ \A i \in Ids : docs'[i].modified = docs[i].modified \/ docs'[i].modified = now
         /\ \A i \in Ids : csv'[i] = csv[i] \/ csv'[i] = docs[i].modified
         /\ \A t \in Times : t <= now => csvAt'[t] = csvAt[t]
<1> USE Numbers
<1>1. CASE Tick  BY <1>1, ConstantsAssumption DEF Tick, feed, TypeOK, Times
<1>2. CASE RefreshCsv  BY <1>2 DEF RefreshCsv
<1>3. CASE RefreshArchive  BY <1>3 DEF RefreshArchive
<1>4. ASSUME NEW id \in Ids, NEW kind \in Kinds, Publish(id, kind)
      PROVE  /\ UNCHANGED <<now, csv, csvAt, store, attempt>>
             /\ \A i \in Ids : docs'[i].modified = docs[i].modified \/ docs'[i].modified = now
  BY <1>4 DEF Publish, TypeOK
<1>5. CASE \E id \in Ids, kind \in Kinds : Publish(id, kind)
  BY <1>4, <1>5
<1>6. QED  BY <1>1, <1>2, <1>3, <1>5 DEF Environment

\* Publishing, and refreshing index and archive, keep the index behind the documents.
LEMMA FeedStep ==
  ASSUME TypeOK, FeedInv, Environment
  PROVE  FeedInv'
<1> USE Numbers
<1>1. CASE Tick  BY <1>1 DEF Tick, feed, FeedInv
<1>2. CASE RefreshCsv  BY <1>2 DEF RefreshCsv, FeedInv
<1>3. CASE RefreshArchive  BY <1>3 DEF RefreshArchive, FeedInv
<1>4. ASSUME NEW id \in Ids, NEW kind \in Kinds, Publish(id, kind) PROVE FeedInv'
  <2>1. UNCHANGED <<now, csv, archive>> /\ docs[id].modified < now
    BY <1>4 DEF Publish
  <2>2. docs'[id].modified = now /\ \A i \in Ids : i # id => docs'[i] = docs[i]
    BY <1>4 DEF Publish, TypeOK
  <2>3. \A i \in Ids : docs[i].modified <= docs'[i].modified /\ docs'[i].modified <= now
    BY <2>1, <2>2 DEF FeedInv
  <2>4. \A i \in Ids : csv[i] <= now
    BY DEF FeedInv
  <2>5. \A i, j \in Ids : docs'[j].modified < csv[i] => docs'[j].modified <= csv[j]
    BY <2>1, <2>2, <2>4 DEF FeedInv
  <2>6. \A i \in Ids : docs'[i].modified \in Nat
    BY <2>2
  <2>7. QED  BY <2>1, <2>3, <2>5, <2>6 DEF FeedInv
<1>5. QED  BY <1>1, <1>2, <1>3, <1>4 DEF Environment

\* The index only grows, so its history stays in order.
LEMMA HistoryStep ==
  ASSUME TypeOK, FeedInv, HistoryInv, Environment
  PROVE  HistoryInv'
<1> USE Numbers
<1>1. CASE Tick
  <2>1. /\ now' = now + 1 /\ csv' = csv /\ csvAt' = [csvAt EXCEPT ![now + 1] = csv]
        /\ now + 1 \in Times
    BY <1>1, ConstantsAssumption DEF Tick, feed, Times
  <2>2. \A t \in Times : csvAt'[t] = IF t = now + 1 THEN csv ELSE csvAt[t]
    BY <2>1 DEF TypeOK
  <2>3. \A t \in Times : t \in Nat
    BY DEF Times
  <2>4. QED  BY <2>1, <2>2, <2>3 DEF HistoryInv
<1>2. CASE RefreshCsv  BY <1>2 DEF RefreshCsv, HistoryInv, FeedInv
<1>3. CASE RefreshArchive  BY <1>3 DEF RefreshArchive, HistoryInv
<1>4. ASSUME NEW id \in Ids, NEW kind \in Kinds, Publish(id, kind) PROVE HistoryInv'
  BY <1>4 DEF Publish, HistoryInv
<1>5. QED  BY <1>1, <1>2, <1>3, <1>4 DEF Environment

-----------------------------------------------------------------------------
(* The inductive step. *)

\* Nothing the feed or the clock does spoils the store or a run in progress.
LEMMA EnvironmentStep ==
  ASSUME IInv, Environment
  PROVE  IInv'
<1> USE DEF IInv
<1>1. TypeOK'
  BY TypeNext DEF Next
<1>2. FeedInv' /\ HistoryInv'
  BY FeedStep, HistoryStep
<1>3. /\ now <= now' /\ store' = store /\ attempt' = attempt
      /\ \A i \in Ids : docs'[i].modified = docs[i].modified \/ docs'[i].modified = now
      /\ \A i \in Ids : csv'[i] = csv[i] \/ csv'[i] = docs[i].modified
      /\ \A t \in Times : t <= now => csvAt'[t] = csvAt[t]
  BY EnvironmentMovesForward
<1>4. \A i \in Ids : docs'[i].modified \in Nat /\ csv'[i] \in Nat /\ docs[i].modified <= docs'[i].modified
  BY <1>3, Numbers DEF FeedInv
<1>5. now' \in Nat
  BY <1>1 DEF TypeOK
<1>6. StoreInv'
  <2>1. store.watermark <= now' /\ store.lastSuccess <= now'
    BY <1>3, <1>5, Numbers DEF StoreInv, Times
  <2>2. \A i \in Ids : store.content[i].modified <= docs'[i].modified
    BY <1>4, Numbers DEF StoreInv
  <2>3. ASSUME store.dataset = "full"
        PROVE  Covers(docs', csv', csvAt'[store.lastSuccess], store.content, store.watermark)
    <3>1. csvAt'[store.lastSuccess] = csvAt[store.lastSuccess]
      BY <1>3, Numbers DEF StoreInv
    <3>2. Covers(docs, csv, csvAt[store.lastSuccess], store.content, store.watermark)
      BY <2>3 DEF StoreInv
    <3>3. store.watermark <= now
      BY DEF StoreInv
    <3>4. \A i \in Ids : csvAt[store.lastSuccess][i] \in Nat
      BY Numbers
    <3>5. Covers(docs', csv', csvAt[store.lastSuccess], store.content, store.watermark)
      BY <1>3, <1>4, <3>2, <3>3, <3>4, Numbers DEF Covers
    <3>6. QED  BY <3>1, <3>5
  <2>4. QED  BY <1>3, <2>1, <2>2, <2>3 DEF StoreInv
<1>7. OneRun'
  BY <1>3 DEF OneRun, Running
<1>8. ASSUME NEW r \in Runners, Running(r)'
      PROVE  AttemptInv(attempt[r])'
  <2> DEFINE a == attempt[r]
  <2>1. Running(r) /\ AttemptInv(a)
    BY <1>3, <1>8 DEF Running
  <2>2. /\ a \in Attempts /\ a.attemptedAt \in Times /\ a.high \in Nat
        /\ \A i \in Ids : /\ a.archived[i].modified \in Nat /\ a.document[i].modified \in Nat
                          /\ Prospect(a)[i].modified \in Nat
    BY AttemptNumbers
  <2>3. a.fetched \subseteq Ids /\ a.attemptedAt \in Nat
    BY <2>2 DEF Attempts, Times
  <2>4. /\ a.attemptedAt <= now' /\ a.high <= now'
        /\ \A i \in Ids : a.archived[i].modified <= docs'[i].modified
        /\ \A i \in a.fetched : a.document[i].modified <= docs'[i].modified
    BY <1>3, <1>4, <1>5, <2>1, <2>2, <2>3, Numbers DEF AttemptInv
  <2>5. ASSUME a.phase = "advisories"
        PROVE  Covers(docs', csv', csvAt'[a.attemptedAt], Prospect(a)', a.high)
    <3>1. csvAt'[a.attemptedAt] = csvAt[a.attemptedAt]
      BY <1>3, <2>1, <2>2 DEF AttemptInv
    <3>2. Covers(docs, csv, csvAt[a.attemptedAt], Prospect(a), a.high) /\ a.high <= now
      BY <2>1, <2>5 DEF AttemptInv
    <3>3. Imported(a)' = Imported(a)
      BY <1>3 DEF Imported, Base
    <3>4. \A i \in Ids : Prospect(a)'[i] = IF i \in a.pending THEN docs'[i] ELSE Imported(a)[i]
      BY <1>3, <3>3 DEF Prospect
    <3>5. \A i \in Ids : Prospect(a)[i] = IF i \in a.pending THEN docs[i] ELSE Imported(a)[i]
      BY DEF Prospect
    <3>6. \A i \in Ids : /\ Prospect(a)[i].modified <= Prospect(a)'[i].modified
                         /\ Prospect(a)'[i].modified \in Nat
      BY <1>4, <2>2, <3>4, <3>5, Numbers
    <3>7. \A i \in Ids : csvAt[a.attemptedAt][i] \in Nat
      BY <2>2, Numbers
    <3>8. Covers(docs', csv', csvAt[a.attemptedAt], Prospect(a)', a.high)
      BY <1>3, <1>4, <2>2, <3>2, <3>6, <3>7, Numbers DEF Covers
    <3>9. QED  BY <3>1, <3>8
  <2>6. QED  BY <1>3, <2>1, <2>4, <2>5 DEF AttemptInv
<1>9. QED  BY <1>1, <1>2, <1>6, <1>7, <1>8

\* A step of runner r that leaves r idle leaves no run at all.
LEMMA IdleAfter ==
  ASSUME IInv, NEW r \in Runners, Running(r), attempt' = [attempt EXCEPT ![r] = Idle]
  PROVE  \A q \in Runners : ~Running(q)'
<1>1. \A q \in Runners : q # r => attempt'[q] = attempt[q]
  BY DEF IInv, TypeOK
<1>2. attempt'[r] = Idle
  BY DEF IInv, TypeOK
<1>3. QED  BY <1>1, <1>2 DEF IInv, OneRun, Running, Idle

\* A step of the run in progress keeps it the only one.
LEMMA RunGoesOn ==
  ASSUME IInv, NEW r \in Runners, \A q \in Runners : Running(q) => q = r, NEW a,
         attempt' = [attempt EXCEPT ![r] = a]
  PROVE  OneRun' /\ attempt'[r] = a /\ \A q \in Runners : Running(q)' => q = r
<1>1. attempt'[r] = a /\ \A q \in Runners : q # r => attempt'[q] = attempt[q]
  BY DEF IInv, TypeOK
<1>2. QED  BY <1>1 DEF OneRun, Running

\* A run begins from the committed watermark, alone.
LEMMA StartStep ==
  ASSUME IInv, NEW r \in Runners, StartSync(r)
  PROVE  IInv'
<1> USE DEF IInv
<1>1. PICK s \in AfterInitialize(store) :
        store' = s /\ attempt' = [attempt EXCEPT ![r] = Begun(s)]
  BY DEF StartSync
<1>2. UNCHANGED <<now, docs, csv, archive, csvAt>>
  BY DEF StartSync, feed
<1>3. TypeOK'
  BY TypeNext DEF Next, Sync
<1>4. FeedInv' /\ HistoryInv'
  BY <1>2 DEF FeedInv, HistoryInv
<1>5. /\ s.content = store.content /\ s.watermark = store.watermark
      /\ s.lastSuccess = store.lastSuccess
      /\ s.dataset = "full" <=> store.dataset = "full"
  BY DEF AfterInitialize, Migrated, TypeOK, Stores
<1>6. StoreInv'
  BY <1>1, <1>2, <1>5 DEF StoreInv
<1>7. \A q \in Runners : ~Running(q)
  BY DEF StartSync, RunGuardFree, Running
<1>8. /\ OneRun' /\ attempt'[r] = Begun(s)
      /\ \A q \in Runners : Running(q)' => q = r
  BY <1>1, <1>7, RunGoesOn
<1>9. s.dataset = "full" => s.lastSuccess # 0
  BY <1>5 DEF StoreInv
<1>10. AttemptInv(attempt[r])'
  <2> DEFINE a == attempt'[r]
  <2>1. /\ a.phase \in {"archive", "csv"} /\ a.attemptedAt = now /\ a.fetched = {}
        /\ a.bootstrap = NeedsBootstrap(s) /\ a.archived = EmptyContent
        /\ a.high = IF a.bootstrap THEN 0 ELSE s.watermark
    BY <1>8 DEF Begun, Idle
  <2>2. a.bootstrap <=> s.dataset # "full"
    BY <1>9, <2>1 DEF NeedsBootstrap
  <2>3. \A i \in Ids : a.archived[i].modified <= docs[i].modified
    BY <2>1, Numbers DEF EmptyContent, NoDoc
  <2>4. a.high <= now
    BY <1>5, <2>1, Numbers DEF StoreInv
  <2>5. 0 < now
    BY DEF TypeOK
  <2>6. /\ 0 < a.attemptedAt /\ a.attemptedAt <= now' /\ a.high <= now'
        /\ a.bootstrap <=> store'.dataset # "full"
        /\ \A i \in Ids : a.archived[i].modified <= docs'[i].modified
        /\ a.fetched = {} /\ a.phase # "advisories"
        /\ a.high = IF a.bootstrap THEN 0 ELSE store'.watermark
    BY <1>1, <1>2, <2>1, <2>2, <2>3, <2>4, <2>5, Numbers
  <2>7. QED  BY <2>6 DEF AttemptInv
<1>11. \A q \in Runners : Running(q)' => AttemptInv(attempt[q])'
  BY <1>8, <1>10
<1>12. QED  BY <1>3, <1>4, <1>6, <1>8, <1>11

\* The archive holds documents already published.
LEMMA FetchArchiveStep ==
  ASSUME IInv, NEW r \in Runners, FetchArchive(r)
  PROVE  IInv'
<1> USE DEF IInv
<1> DEFINE a == attempt[r]
           b == [a EXCEPT !.phase = "csv", !.archived = archive]
<1>1. /\ UNCHANGED <<now, docs, csv, archive, csvAt, store>>
      /\ a.phase = "archive" /\ attempt' = [attempt EXCEPT ![r] = b]
  BY DEF FetchArchive, feed
<1>2. TypeOK' /\ FeedInv' /\ HistoryInv' /\ StoreInv'
  BY <1>1, TypeNext DEF Next, Sync, FeedInv, HistoryInv, StoreInv
<1>3. AttemptInv(a) /\ a \in Attempts
  BY <1>1, AttemptNumbers DEF Running
<1>4. OneRun' /\ attempt'[r] = b /\ \A q \in Runners : Running(q)' => q = r
  BY <1>1, RunGoesOn DEF OneRun, Running
<1>5. /\ b.phase = "csv" /\ b.archived = archive /\ b.attemptedAt = a.attemptedAt
      /\ b.high = a.high /\ b.bootstrap = a.bootstrap /\ b.fetched = a.fetched
      /\ b.document = a.document
  BY <1>3 DEF Attempts
<1>6. AttemptInv(attempt[r])'
  BY <1>1, <1>3, <1>4, <1>5 DEF AttemptInv, FeedInv
<1>7. \A q \in Runners : Running(q)' => AttemptInv(attempt[q])'
  BY <1>4, <1>6
<1>8. QED  BY <1>2, <1>4, <1>7

\* Once the rows are selected, content and pending documents cover the watermark.
LEMMA FetchModifiedCsvStep ==
  ASSUME IInv, NEW r \in Runners, FetchModifiedCsv(r)
  PROVE  IInv'
<1> USE DEF IInv
<1> DEFINE a == attempt[r]
<1>1. UNCHANGED <<now, docs, csv, archive, csvAt, store>> /\ a.phase = "csv"
  BY DEF FetchModifiedCsv, feed
<1>2. PICK high \in Times : /\ IsHighWatermark(high, a.high)
                            /\ attempt' = [attempt EXCEPT ![r] = Listed(a, high)]
  BY DEF FetchModifiedCsv
<1> DEFINE b == Listed(a, high)
<1>3. TypeOK' /\ FeedInv' /\ HistoryInv' /\ StoreInv'
  BY <1>1, TypeNext DEF Next, Sync, FeedInv, HistoryInv, StoreInv
<1>4. AttemptInv(a) /\ a \in Attempts
  BY <1>1, AttemptNumbers DEF Running
<1>5. OneRun' /\ attempt'[r] = b /\ \A q \in Runners : Running(q)' => q = r
  BY <1>1, <1>2, RunGoesOn DEF OneRun, Running
<1>6. /\ b.phase = "advisories" /\ b.archived = a.archived /\ b.attemptedAt = a.attemptedAt
      /\ b.high = high /\ b.bootstrap = a.bootstrap /\ b.fetched = {}
      /\ b.document = a.document /\ b.pending = {i \in Ids : RowSelected(a, i)}
  BY <1>1, <1>4 DEF Attempts, Listed, AttemptInv
<1>7. high \in Nat /\ high <= now
  BY <1>2, <1>4, Numbers DEF IsHighWatermark, FeedInv, AttemptInv, Times
<1>8. \A i \in Ids : Prospect(b)[i] = IF RowSelected(a, i) THEN docs[i]
                                      ELSE IF a.bootstrap THEN a.archived[i] ELSE store.content[i]
  BY <1>6 DEF Prospect, Imported, Base
<1>9. ASSUME NEW i \in Ids PROVE csv[i] <= Prospect(b)[i].modified
  <2>1. CASE RowSelected(a, i)  BY <1>8, <2>1 DEF FeedInv
  <2>2. CASE ~RowSelected(a, i) /\ a.bootstrap
    BY <1>8, <2>2, Numbers, AttemptNumbers DEF RowSelected, ArchiveLacks
  <2>3. CASE ~RowSelected(a, i) /\ ~a.bootstrap
    <3>1. a.high = store.watermark /\ store.dataset = "full"
      BY <1>1, <1>4, <2>3 DEF AttemptInv
    <3>2. csv[i] = 0 \/ csv[i] < store.watermark
      BY <2>3, <3>1, Numbers DEF RowSelected
    <3>3. csv[i] <= store.content[i].modified
      BY <3>1, <3>2, Numbers DEF StoreInv, Covers
    <3>4. QED  BY <1>8, <2>3, <3>3
  <2>4. QED  BY <2>1, <2>2, <2>3
<1>10. ASSUME NEW i \in Ids, docs[i].modified < high
       PROVE  docs[i].modified <= Prospect(b)[i].modified
  <2>1. CASE \E j \in Ids : high = csv[j]
    <3>1. docs[i].modified <= csv[i]
      BY <1>10, <2>1 DEF FeedInv
    <3>2. Prospect(b)[i].modified \in Nat
      BY <1>8, Numbers, AttemptNumbers
    <3>3. QED  BY <1>9, <3>1, <3>2, Numbers
  <2>2. CASE high = a.high
    <3>1. ~a.bootstrap
      BY <1>1, <1>4, <1>10, <2>2, Numbers DEF AttemptInv
    <3>2. a.high = store.watermark /\ store.dataset = "full"
      BY <1>1, <1>4, <3>1 DEF AttemptInv
    <3>3. docs[i].modified <= store.content[i].modified
      BY <1>10, <2>2, <3>2 DEF StoreInv, Covers
    <3>4. QED  BY <1>8, <3>1, <3>3, Numbers
  <2>3. QED  BY <1>2, <2>1, <2>2 DEF IsHighWatermark
<1>11. \A i \in Ids : csvAt[a.attemptedAt][i] <= Prospect(b)[i].modified
  <2>1. \A i \in Ids : csvAt[a.attemptedAt][i] <= csv[i] /\ csvAt[a.attemptedAt][i] \in Nat
    BY AttemptNumbers, Numbers DEF HistoryInv
  <2>2. \A i \in Ids : Prospect(b)[i].modified \in Nat
    BY <1>8, Numbers, AttemptNumbers
  <2>3. QED  BY <1>9, <2>1, <2>2, Numbers
<1>12. Covers(docs, csv, csvAt[b.attemptedAt], Prospect(b), b.high)
  BY <1>6, <1>9, <1>10, <1>11 DEF Covers
<1>13. AttemptInv(b)
  BY <1>4, <1>6, <1>7, <1>12 DEF AttemptInv
<1>14. AttemptInv(attempt[r])'
  <2>1. Prospect(attempt[r])' = Prospect(b)
    BY <1>1, <1>5 DEF Prospect, Imported, Base
  <2>2. QED  BY <1>1, <1>5, <1>13, <2>1 DEF AttemptInv
<1>15. \A q \in Runners : Running(q)' => AttemptInv(attempt[q])'
  BY <1>5, <1>14
<1>16. QED  BY <1>3, <1>5, <1>15

\* A fetched document is at least as recent as its row promised.
LEMMA FetchAdvisoryStep ==
  ASSUME IInv, NEW r \in Runners, NEW id \in Ids, FetchAdvisory(r, id)
  PROVE  IInv'
<1> USE DEF IInv
<1> DEFINE a == attempt[r]
           b == Fetched(a, id)
<1>1. /\ UNCHANGED <<now, docs, csv, archive, csvAt, store>>
      /\ a.phase = "advisories" /\ id \in a.pending
      /\ attempt' = [attempt EXCEPT ![r] = b]
  BY DEF FetchAdvisory, feed
<1>2. TypeOK' /\ FeedInv' /\ HistoryInv' /\ StoreInv'
  BY <1>1, TypeNext DEF Next, Sync, FeedInv, HistoryInv, StoreInv
<1>3. AttemptInv(a) /\ a \in Attempts
  BY <1>1, AttemptNumbers DEF Running
<1>4. OneRun' /\ attempt'[r] = b /\ \A q \in Runners : Running(q)' => q = r
  BY <1>1, RunGoesOn DEF OneRun, Running
<1>5. /\ b.phase = a.phase /\ b.archived = a.archived /\ b.attemptedAt = a.attemptedAt
      /\ b.high = a.high /\ b.bootstrap = a.bootstrap
      /\ b.pending = a.pending \ {id} /\ b.fetched = a.fetched \cup {id}
      /\ b.document = [a.document EXCEPT ![id] = docs[id]]
  BY <1>3 DEF Attempts, Fetched
<1>6. \A i \in Ids : b.document[i] = IF i = id THEN docs[i] ELSE a.document[i]
  BY <1>3, <1>5 DEF Attempts
<1>7. Prospect(b) = Prospect(a)
  BY <1>1, <1>5, <1>6 DEF Prospect, Imported, Base
<1>8. \A i \in b.fetched : b.document[i].modified <= docs[i].modified
  BY <1>3, <1>5, <1>6, Numbers DEF AttemptInv, Attempts
<1>9. ~b.bootstrap => \A i \in b.fetched : store.content[i].modified <= b.document[i].modified
  BY <1>3, <1>5, <1>6 DEF AttemptInv, StoreInv, Attempts
<1>10. AttemptInv(b)
  BY <1>1, <1>3, <1>5, <1>7, <1>8, <1>9 DEF AttemptInv
<1>11. AttemptInv(attempt[r])'
  <2>1. Prospect(attempt[r])' = Prospect(b)
    BY <1>1, <1>4 DEF Prospect, Imported, Base
  <2>2. QED  BY <1>1, <1>4, <1>10, <2>1 DEF AttemptInv
<1>12. \A q \in Runners : Running(q)' => AttemptInv(attempt[q])'
  BY <1>4, <1>11
<1>13. QED  BY <1>2, <1>4, <1>12

\* The commit makes the prospect of its run the content of the store.
LEMMA ImportStep ==
  ASSUME IInv, NEW r \in Runners, ImportAndRecordSuccess(r)
  PROVE  IInv'
<1> USE DEF IInv
<1> DEFINE a == attempt[r]
<1>1. /\ UNCHANGED <<now, docs, csv, archive, csvAt>>
      /\ a.phase = "advisories" /\ a.pending = {}
      /\ store' = Committed(a) /\ attempt' = [attempt EXCEPT ![r] = Idle]
  BY DEF ImportAndRecordSuccess, feed
<1>2. TypeOK' /\ FeedInv' /\ HistoryInv'
  BY <1>1, TypeNext DEF Next, Sync, FeedInv, HistoryInv
<1>3. AttemptInv(a) /\ a \in Attempts /\ Running(r)
  BY <1>1, AttemptNumbers DEF Running
<1>4. \A q \in Runners : ~Running(q)'
  BY <1>1, <1>3, IdleAfter
<1>5. /\ store'.content = Imported(a) /\ store'.watermark = a.high
      /\ store'.lastSuccess = a.attemptedAt /\ store'.dataset = "full"
  <2>1. store \in Stores
    BY DEF TypeOK
  <2>2. store'.dataset = IF a.bootstrap THEN "full" ELSE store.dataset
    BY <1>1, <2>1 DEF Committed, Stores
  <2>3. QED  BY <1>1, <1>3, <2>1, <2>2 DEF Committed, Stores, SuccessTime, AttemptInv
<1>6. \A i \in Ids : Imported(a)[i] = Prospect(a)[i]
  BY <1>1 DEF Prospect
<1>7. Covers(docs, csv, csvAt[a.attemptedAt], Imported(a), a.high)
  BY <1>1, <1>3, <1>6 DEF AttemptInv, Covers
<1>8. \A i \in Ids : Imported(a)[i].modified <= docs[i].modified
  BY <1>3 DEF Imported, Base, AttemptInv, StoreInv
<1>9. StoreInv'
  BY <1>1, <1>3, <1>5, <1>7, <1>8 DEF StoreInv, AttemptInv
<1>10. QED  BY <1>2, <1>4, <1>9 DEF OneRun

\* A recorded failure touches neither content nor watermark.
LEMMA FailureStep ==
  ASSUME IInv, NEW r \in Runners, ImportRejected(r) \/ RunError(r)
  PROVE  IInv'
<1> USE DEF IInv
<1>1. /\ UNCHANGED <<now, docs, csv, archive, csvAt>>
      /\ store' = [store EXCEPT !.known = TRUE, !.status = StatusAfterFailure(store)]
      /\ attempt' = [attempt EXCEPT ![r] = Idle] /\ Running(r)
  BY DEF ImportRejected, RunError, Rejected, RecordSyncFailure, Running, feed
<1>2. /\ store'.content = store.content /\ store'.watermark = store.watermark
      /\ store'.lastSuccess = store.lastSuccess /\ store'.dataset = store.dataset
  BY <1>1 DEF TypeOK, Stores
<1>3. TypeOK' /\ FeedInv' /\ HistoryInv' /\ StoreInv'
  BY <1>1, <1>2, TypeNext DEF Next, Sync, FeedInv, HistoryInv, StoreInv
<1>4. \A q \in Runners : ~Running(q)'
  BY <1>1, IdleAfter
<1>5. QED  BY <1>3, <1>4 DEF OneRun

\* A crash leaves the store as it was.
LEMMA CrashStep ==
  ASSUME IInv, NEW r \in Runners, Crash(r)
  PROVE  IInv'
<1> USE DEF IInv
<1>1. /\ UNCHANGED <<now, docs, csv, archive, csvAt, store>>
      /\ attempt' = [attempt EXCEPT ![r] = Idle] /\ Running(r)
  BY DEF Crash, Running, feed
<1>2. TypeOK' /\ FeedInv' /\ HistoryInv' /\ StoreInv'
  BY <1>1, TypeNext DEF Next, Sync, FeedInv, HistoryInv, StoreInv
<1>3. \A q \in Runners : ~Running(q)'
  BY <1>1, IdleAfter
<1>4. QED  BY <1>2, <1>3 DEF OneRun

\* A stuttering step leaves everything as it was.
LEMMA StutterStep ==
  ASSUME IInv, UNCHANGED vars
  PROVE  IInv'
<1>1. UNCHANGED <<now, docs, csv, archive, csvAt, store, attempt>>
  BY DEF vars
<1>2. TypeOK'
  BY TypeNext DEF IInv
<1>3. \A r \in Runners : Prospect(attempt[r])' = Prospect(attempt[r])
  BY <1>1 DEF Prospect, Imported, Base
<1>4. \A r \in Runners : AttemptInv(attempt[r]) => AttemptInv(attempt[r])'
  BY <1>1, <1>3 DEF AttemptInv
<1>5. FeedInv' /\ HistoryInv' /\ StoreInv' /\ OneRun'
  BY <1>1 DEF IInv, FeedInv, HistoryInv, StoreInv, OneRun, Running
<1>6. QED  BY <1>1, <1>2, <1>4, <1>5 DEF IInv, Running

\* The inductive invariant of the sync: one run at a time, and what it has gathered always
\* covers the watermark and the success time it will record.
THEOREM SyncInvariant == Spec => []IInv
<1>1. IInv /\ [Next]_vars => IInv'
  BY EnvironmentStep, StartStep, FetchArchiveStep, FetchModifiedCsvStep, FetchAdvisoryStep,
     ImportStep, FailureStep, CrashStep, StutterStep DEF Next, Sync
<1>2. QED  BY InitIInv, <1>1, PTL DEF Spec

\* No advisory the index lists below the high watermark is missing from the store.
THEOREM WatermarkComplete == Spec => []NothingMissedBelowWatermark
<1>1. IInv => NothingMissedBelowWatermark
  BY DEF IInv, StoreInv, Covers, NothingMissedBelowWatermark
<1>2. QED  BY SyncInvariant, <1>1, PTL

\* A store a blocking policy accepts is at most max_staleness behind the index.
THEOREM FreshWhenHealthy == Spec => []HealthyReadIsFresh
<1>1. IInv => HealthyReadIsFresh
  <2> SUFFICES ASSUME IInv, BlockOnStale, StoreHealthy(store), store.dataset = "full",
                      NEW t \in Times, NEW i \in Ids, t + MaxStaleness <= now
               PROVE  csvAt[t][i] <= store.content[i].modified
    BY DEF HealthyReadIsFresh
  <2> USE DEF IInv
  <2>1. now - store.lastSuccess <= MaxStaleness
    BY DEF StoreHealthy
  <2>2. t \in Nat /\ store.lastSuccess \in Nat
    BY Numbers DEF Times
  <2>3. t <= store.lastSuccess /\ store.lastSuccess <= now
    BY <2>1, <2>2, Numbers, ConstantsAssumption DEF StoreInv
  <2>4. csvAt[t][i] <= csvAt[store.lastSuccess][i]
    BY <2>3, Numbers DEF HistoryInv
  <2>5. csvAt[store.lastSuccess][i] <= store.content[i].modified
    BY DEF StoreInv, Covers
  <2>6. QED  BY <2>4, <2>5, Numbers
<1>2. QED  BY SyncInvariant, <1>1, PTL

\* Advisories are only ever replaced by newer editions: overlapping, crashed and failed
\* runs included.
THEOREM AdvisoriesNeverRegress == Spec => NoAdvisoryRegresses
<1> DEFINE Monotone ==
      \A id \in Ids : store.content[id].modified <= store'.content[id].modified
<1>1. ASSUME IInv, [Next]_vars PROVE Monotone
  <2> USE <1>1 DEF IInv
  <2>1. CASE store' = store  BY <2>1, Numbers
  <2>2. ASSUME NEW r \in Runners, StartSync(r) PROVE Monotone
    <3>1. store'.content = store.content
      BY <2>2 DEF StartSync, AfterInitialize, Migrated, TypeOK, Stores
    <3>2. QED  BY <3>1, Numbers
  <2>3. ASSUME NEW r \in Runners, ImportRejected(r) \/ RunError(r) PROVE Monotone
    <3>1. store'.content = store.content
      BY <2>3 DEF ImportRejected, RunError, RecordSyncFailure, TypeOK, Stores
    <3>2. QED  BY <3>1, Numbers
  <2>4. ASSUME NEW r \in Runners, ImportAndRecordSuccess(r) PROVE Monotone
    <3>1. store' = Committed(attempt[r]) /\ Running(r)
      BY <2>4 DEF ImportAndRecordSuccess, Running
    <3>2. store'.content = Imported(attempt[r])
      BY <3>1 DEF Committed, TypeOK, Stores
    <3>3. AttemptInv(attempt[r])
      BY <3>1
    <3>4. \A i \in Ids : store.content[i].modified <= Imported(attempt[r])[i].modified
      <4>1. CASE attempt[r].bootstrap
        <5>1. \A i \in Ids : store.content[i].modified = 0
          BY <3>3, <4>1 DEF AttemptInv, StoreInv
        <5>2. \A i \in Ids : Imported(attempt[r])[i].modified \in Nat
          <6>1. Imported(attempt[r]) \in [Ids -> Docs]
            BY AttemptNumbers, ImportedType DEF TypeOK
          <6>2. QED  BY <6>1, DocNumbers
        <5>3. QED  BY <5>1, <5>2
      <4>2. CASE ~attempt[r].bootstrap
        BY <3>3, <4>2, Numbers DEF AttemptInv, Imported, Base
      <4>3. QED  BY <4>1, <4>2
    <3>5. QED  BY <3>2, <3>4
  <2>5. CASE Environment
    BY <2>1, <2>5, EnvironmentMovesForward
  <2>6. ASSUME NEW r \in Runners,
               FetchArchive(r) \/ FetchModifiedCsv(r) \/ Crash(r)
                 \/ \E id \in Ids : FetchAdvisory(r, id)
        PROVE  Monotone
    BY <2>1, <2>6 DEF FetchArchive, FetchModifiedCsv, FetchAdvisory, Crash
  <2>7. CASE UNCHANGED vars  BY <2>1, <2>7 DEF vars
  <2>8. QED  BY <2>2, <2>3, <2>4, <2>5, <2>6, <2>7 DEF Next, Sync
<1>2. QED  BY SyncInvariant, <1>1, PTL DEF Spec, NoAdvisoryRegresses

-----------------------------------------------------------------------------
(* The content revision. *)

\* What a step may do to the revision, for the content and the generation it leaves.
Tracks ==
  store.dataset # "none" =>
    store'.revision = store.revision +
      (IF store.dataset # store'.dataset \/ store.content # store'.content THEN 1 ELSE 0)

\* A transaction that leaves content and generation alone leaves the revision alone.
LEMMA RevisionStays ==
  ASSUME TypeOK, store'.revision = store.revision, store'.content = store.content,
         store.dataset # "none" => store'.dataset = store.dataset
  PROVE  Tracks
BY DEF Tracks, TypeOK, Stores

\* A commit counts a bootstrap, which changes the generation, and any other change: a
\* bootstrap never runs over a full generation (malicious.rs 1157-1284).
LEMMA CommitTracks ==
  ASSUME IInv, NEW r \in Runners, ImportAndRecordSuccess(r)
  PROVE  Tracks
<1> DEFINE a == attempt[r]
<1> USE DEF IInv
<1>1. store' = Committed(a) /\ AttemptInv(a) /\ a \in Attempts /\ store \in Stores
  BY AttemptNumbers DEF ImportAndRecordSuccess, Running, TypeOK
<1>2. /\ store'.content = Imported(a)
      /\ store'.dataset = IF a.bootstrap THEN "full" ELSE store.dataset
      /\ store'.revision = store.revision + (IF ContentChanged(a) THEN 1 ELSE 0)
  BY <1>1 DEF Committed, Stores
<1>3. a.bootstrap \in BOOLEAN /\ (a.bootstrap <=> store.dataset # "full")
  BY <1>1 DEF AttemptInv, Attempts
<1>4. CASE a.bootstrap
  BY <1>2, <1>3, <1>4 DEF ContentChanged, Tracks
<1>5. CASE ~a.bootstrap
  BY <1>2, <1>3, <1>5 DEF ContentChanged, Base, Tracks
<1> QED  BY <1>3, <1>4, <1>5

\* Caches keyed by the revision are dropped by exactly the transactions that change what
\* policy reads, over failures, crashes, migrations and overlapping runs.
THEOREM RevisionIsExact == Spec => RevisionTracksContent
<1>1. ASSUME IInv, [Next]_vars PROVE Tracks
  <2> USE <1>1 DEF IInv
  <2>1. CASE store' = store
    BY <2>1, RevisionStays
  <2>2. ASSUME NEW r \in Runners, StartSync(r) PROVE Tracks
    <3>1. /\ store'.content = store.content /\ store'.revision = store.revision
          /\ store.dataset # "none" => store'.dataset = store.dataset
      BY <2>2 DEF StartSync, AfterInitialize, Migrated, TypeOK, Stores
    <3> QED  BY <3>1, RevisionStays
  <2>3. ASSUME NEW r \in Runners, ImportRejected(r) \/ RunError(r) PROVE Tracks
    <3>1. /\ store'.content = store.content /\ store'.revision = store.revision
          /\ store'.dataset = store.dataset
      BY <2>3 DEF ImportRejected, RunError, RecordSyncFailure, TypeOK, Stores
    <3> QED  BY <3>1, RevisionStays
  <2>4. ASSUME NEW r \in Runners, ImportAndRecordSuccess(r) PROVE Tracks
    BY <2>4, CommitTracks
  <2>5. CASE Environment
    BY <2>1, <2>5, EnvironmentMovesForward
  <2>6. ASSUME NEW r \in Runners,
               FetchArchive(r) \/ FetchModifiedCsv(r) \/ Crash(r)
                 \/ \E id \in Ids : FetchAdvisory(r, id)
        PROVE  Tracks
    BY <2>1, <2>6 DEF FetchArchive, FetchModifiedCsv, FetchAdvisory, Crash
  <2>7. CASE UNCHANGED vars
    BY <2>1, <2>7 DEF vars
  <2> QED  BY <2>2, <2>3, <2>4, <2>5, <2>6, <2>7 DEF Next, Sync
<1> QED  BY <1>1, SyncInvariant, PTL DEF Spec, RevisionTracksContent, Tracks

-----------------------------------------------------------------------------
(* Failures leave an ecosystem in service. *)

\* FailureKeepsServing says nothing of a store that is still to be migrated, and a failure
\* recorded over one would revoke it; but every run migrates it first.
ServingInv ==
  store.lastSuccess > 0 =>
    /\ store.known /\ store.status = "healthy"
    /\ (\E r \in Runners : Running(r)) => store.dataset # "none"

\* A step that leaves the row of sync_state alone, and starts no run.
LEMMA ServingStays ==
  ASSUME ServingInv, store' = store, \A r \in Runners : Running(r)' => Running(r)
  PROVE  ServingInv'
BY DEF ServingInv

\* The first step of a run migrates (malicious.rs 1775-1861).
LEMMA ServingStart ==
  ASSUME TypeOK, ServingInv, NEW r \in Runners, StartSync(r)
  PROVE  ServingInv'
<1>1. PICK s \in AfterInitialize(store) : store' = s
  BY DEF StartSync
<1>2. store \in Stores
  BY DEF TypeOK
<1>3. CASE s = Migrated(store)
  <2>1. /\ s.known = store.known /\ s.status = store.status
        /\ s.lastSuccess = store.lastSuccess /\ (store.known => s.dataset # "none")
    BY <1>2, <1>3 DEF Migrated, Stores
  <2> QED  BY <1>1, <2>1 DEF ServingInv
<1>4. CASE s = store /\ store.lastSuccess = 0
  BY <1>1, <1>4 DEF ServingInv
<1> QED  BY <1>1, <1>3, <1>4 DEF AfterInitialize

\* record_sync_failure over a store that has ever succeeded.
LEMMA ServingFailure ==
  ASSUME IInv, ServingInv, NEW r \in Runners, ImportRejected(r) \/ RunError(r)
  PROVE  ServingInv'
<1>1. Running(r) /\ RecordSyncFailure(r) /\ store \in Stores
  BY DEF ImportRejected, RunError, Rejected, Running, IInv, TypeOK
<1>2. /\ store'.lastSuccess = store.lastSuccess /\ store'.known
      /\ store'.dataset = store.dataset /\ store'.status = StatusAfterFailure(store)
  BY <1>1 DEF RecordSyncFailure, Stores
<1>3. store.lastSuccess > 0 => store.dataset # "none"
  BY <1>1 DEF ServingInv
<1> QED  BY <1>2, <1>3 DEF ServingInv, StatusAfterFailure

\* No step takes a store that has ever succeeded out of service, nor leaves a run over one
\* that is not migrated.
LEMMA ServingStep == IInv /\ ServingInv /\ [Next]_vars => ServingInv'
<1> SUFFICES ASSUME IInv, ServingInv, [Next]_vars PROVE ServingInv'
  OBVIOUS
<1> USE DEF IInv
<1>1. ASSUME NEW r \in Runners, StartSync(r) PROVE ServingInv'
  BY <1>1, ServingStart
<1>2. ASSUME NEW r \in Runners, ImportRejected(r) \/ RunError(r) PROVE ServingInv'
  BY <1>2, ServingFailure
<1>3. ASSUME NEW r \in Runners, ImportAndRecordSuccess(r) PROVE ServingInv'
  <2>1. /\ store' = Committed(attempt[r]) /\ attempt[r] \in Attempts
        /\ AttemptInv(attempt[r]) /\ store \in Stores
    BY <1>3, AttemptNumbers DEF ImportAndRecordSuccess, Running, TypeOK
  <2>2. /\ store'.known /\ store'.status = "healthy"
        /\ store'.dataset = IF attempt[r].bootstrap THEN "full" ELSE store.dataset
    BY <2>1 DEF Committed, Stores
  <2>3. store'.dataset # "none"
    BY <2>1, <2>2 DEF AttemptInv, Attempts
  <2> QED  BY <2>2, <2>3 DEF ServingInv
<1>4. ASSUME NEW r \in Runners,
             FetchArchive(r) \/ FetchModifiedCsv(r) \/ Crash(r)
               \/ \E id \in Ids : FetchAdvisory(r, id)
      PROVE  ServingInv'
  <2>1. store' = store /\ \A q \in Runners : q # r => attempt'[q] = attempt[q]
    BY <1>4 DEF FetchArchive, FetchModifiedCsv, FetchAdvisory, Crash, TypeOK
  <2>2. Running(r)
    BY <1>4 DEF FetchArchive, FetchModifiedCsv, FetchAdvisory, Crash, Running
  <2> QED  BY <2>1, <2>2, ServingStays DEF Running
<1>5. CASE Environment
  BY <1>5, EnvironmentMovesForward, ServingStays DEF Running
<1>6. CASE UNCHANGED vars
  BY <1>6, ServingStays DEF vars, Running
<1> QED  BY <1>1, <1>2, <1>3, <1>4, <1>5, <1>6 DEF Next, Sync

\* Once a sync has succeeded, failures and crashes of later ones never take the ecosystem
\* out of service, a store from before generations included.
THEOREM FailuresKeepServing == Spec => []FailureKeepsServing
<1>1. Init => ServingInv
  <2> SUFFICES ASSUME Init PROVE ServingInv
    OBVIOUS
  <2>1. \A r \in Runners : ~Running(r)
    BY DEF Init, Running, Idle
  <2>2. store.lastSuccess > 0 => store.known /\ store.status = "healthy"
    <3>1. CASE store = EmptyStore
      BY <3>1 DEF EmptyStore
    <3>2. CASE store = LegacyStore
      BY <3>2 DEF EmptyStore, LegacyStore
    <3> QED  BY <3>1, <3>2 DEF Init
  <2> QED  BY <2>1, <2>2 DEF ServingInv
<1>2. IInv /\ ServingInv => FailureKeepsServing
  BY DEF ServingInv, FailureKeepsServing
<1> QED  BY <1>1, <1>2, ServingStep, SyncInvariant, PTL DEF Spec
=============================================================================
