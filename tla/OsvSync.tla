------------------------------ MODULE OsvSync ------------------------------
(***************************************************************************)
(* Synchronisation of one ecosystem of the local OSV store (malicious.rs): *)
(* bootstrap from all.zip with a CSV catch-up, incremental refresh above a *)
(* stored high watermark, and the sync_state row that says how fresh the   *)
(* committed dataset is.  Every SQLite transaction is one action; each     *)
(* download of a run is an action of its own, so that the feed, the clock, *)
(* failures and crashes can come between any two of them.                  *)
(*                                                                         *)
(* The OSV dump is external: per-advisory documents are published at once, *)
(* the CSV index and the archive are snapshots of them that lag behind.    *)
(* Time 0 is "never" (absent document, NULL watermark, NULL                *)
(* last_success_at); the feed and the proxy read one clock.                *)
(***************************************************************************)
EXTENDS Integers, FiniteSets

CONSTANTS
  Ids,                 \* advisory identifiers of the ecosystem
  Kinds,               \* what the feed publishes, of the AllKinds below
  Runners,             \* tasks that may run a sync (server background, CLI)
  MaxTime,             \* bound on the clock
  MaxStaleness,        \* LocalOsvConfig.max_staleness
  BlockOnStale,        \* LocalOsvConfig.on_stale = Block
  RequireFullDataset   \* vulnerability policy is enabled

AllKinds == {"affected", "withdrawn", "malformed"}

ASSUME ConstantsAssumption ==
  /\ Kinds \subseteq AllKinds
  /\ IsFiniteSet(Ids) /\ IsFiniteSet(Runners)
  /\ MaxTime \in Nat \ {0}
  /\ MaxStaleness \in Nat
  /\ BlockOnStale \in BOOLEAN /\ RequireFullDataset \in BOOLEAN

VARIABLES
  now,       \* the clock
  docs,      \* external: the advisory documents as published
  csv,       \* external: modified_id.csv, the modification time it lists per id
  archive,   \* external: all.zip, the documents it holds
  csvAt,     \* history: what the CSV listed when each instant began
  store,     \* the ecosystem's sync_state row joined with its active generation
  attempt    \* each runner's sync_ecosystem call in progress

feed == <<docs, csv, archive>>
vars == <<now, docs, csv, archive, csvAt, store, attempt>>

Times == 0..MaxTime
Docs  == [modified : Times, kind : AllKinds]
NoDoc == [modified |-> 0, kind |-> "withdrawn"]

Stores ==
  [known : BOOLEAN,                        \* a sync_state row exists
   dataset : {"none", "legacy", "full"},   \* dataset_version of the active generation
   content : [Ids -> Docs],                \* its advisories
   watermark : Times, lastSuccess : Times,
   status : {"healthy", "failed"}, revision : Nat]

Attempts ==
  [phase : {"idle", "archive", "csv", "advisories"},
   bootstrap : BOOLEAN, attemptedAt : Times,
   archived : [Ids -> Docs],   \* bootstrap: the archive downloaded
   pending : SUBSET Ids,       \* CSV rows whose document is still to be fetched
   fetched : SUBSET Ids,       \* ids whose document has been fetched
   document : [Ids -> Docs],   \* the documents fetched
   high : Times]               \* the next high watermark

EmptyContent == [i \in Ids |-> NoDoc]
Idle ==
  [phase |-> "idle", bootstrap |-> FALSE, attemptedAt |-> 0,
   archived |-> EmptyContent, pending |-> {}, fetched |-> {},
   document |-> EmptyContent, high |-> 0]

EmptyStore ==
  [known |-> FALSE, dataset |-> "none", content |-> EmptyContent,
   watermark |-> 0, lastSuccess |-> 0, status |-> "failed", revision |-> 0]

\* A store written before generations existed: a successful malicious-only sync.
LegacyStore == [EmptyStore EXCEPT !.known = TRUE, !.lastSuccess = 1, !.status = "healthy"]

Init ==
  /\ now = 1
  /\ docs = EmptyContent
  /\ csv = [i \in Ids |-> 0]
  /\ archive = EmptyContent
  /\ csvAt = [t \in Times |-> [i \in Ids |-> 0]]
  /\ store \in {EmptyStore, LegacyStore}
  /\ attempt = [r \in Runners |-> Idle]

-----------------------------------------------------------------------------
(* The environment: the clock and the OSV dump. *)

Tick ==
  /\ now < MaxTime
  /\ now' = now + 1
  /\ csvAt' = [csvAt EXCEPT ![now + 1] = csv]
  /\ UNCHANGED <<feed, store, attempt>>

Publish(id, kind) ==
  /\ docs[id].modified < now
  /\ docs' = [docs EXCEPT ![id] = [modified |-> now, kind |-> kind]]
  /\ UNCHANGED <<now, csv, archive, csvAt, store, attempt>>

RefreshCsv ==
  /\ csv' = [i \in Ids |-> docs[i].modified]
  /\ UNCHANGED <<now, docs, archive, csvAt, store, attempt>>

RefreshArchive ==
  /\ archive' = docs
  /\ UNCHANGED <<now, docs, csv, csvAt, store, attempt>>

-----------------------------------------------------------------------------
(* Reads of the sync_state row. *)

\* migrate_legacy_generations: rows written before generations get one of version 0.
Migrated(s) ==
  IF s.known /\ s.dataset = "none" THEN [s EXCEPT !.dataset = "legacy"] ELSE s

\* Nothing is migrated once another ecosystem has a generation, but a legacy success
\* always is: its row is older than every generation.
AfterInitialize(s) == {Migrated(s)} \cup {t \in {s} : t.lastSuccess = 0}

\* sync_ecosystem refreshes incrementally only over a complete dataset.
LegacySuffices(s) == s.lastSuccess = 0
NeedsBootstrap(s) == s.lastSuccess = 0 \/ s.dataset # "full"

\* ensure_store_healthy: what a policy check accepts as a usable store.
StoreHealthy(s) ==
  /\ s.dataset # "none" /\ s.status = "healthy" /\ s.lastSuccess > 0
  /\ RequireFullDataset => s.dataset = "full"
  /\ BlockOnStale => now - s.lastSuccess <= MaxStaleness

-----------------------------------------------------------------------------
(* A run: sync_ecosystem under the sync-run lock. *)

\* SyncRunGuard::acquire, one run at a time over every process.
NoRunGuard(r) == attempt[r].phase = "idle"
RunGuardFree(r) == \A q \in Runners : attempt[q].phase = "idle"

Begun(s) ==
  LET bootstrap == NeedsBootstrap(s) IN
  [Idle EXCEPT !.phase = IF bootstrap THEN "archive" ELSE "csv",
               !.bootstrap = bootstrap,
               !.attemptedAt = now,
               !.high = IF bootstrap THEN 0 ELSE s.watermark]

StartSync(r) ==
  /\ RunGuardFree(r)
  /\ \E s \in AfterInitialize(store) :
       /\ store' = s
       /\ attempt' = [attempt EXCEPT ![r] = Begun(s)]
  /\ UNCHANGED <<now, feed, csvAt>>

FetchArchive(r) ==
  /\ attempt[r].phase = "archive"
  /\ attempt' = [attempt EXCEPT ![r] =
       [attempt[r] EXCEPT !.phase = "csv", !.archived = archive]]
  /\ UNCHANGED <<now, feed, csvAt, store>>

\* What the archive lacks: its document is older than the CSV's row, or is not there at all,
\* which counts as older than any.
ArchiveLacks(a, id) == a.archived[id].modified < csv[id]

\* The rows a run must fetch.  Incrementally parse_modified_id_csv keeps the rows
\* at or above the watermark; a bootstrap catches up on what the archive lacks.
WatermarkExcluded(a, id) ==
  csv[id] > 0 /\ IF a.bootstrap THEN ArchiveLacks(a, id) ELSE csv[id] > a.high
RowSelected(a, id) ==
  csv[id] > 0 /\ IF a.bootstrap THEN ArchiveLacks(a, id) ELSE csv[id] >= a.high

\* The newest modification time of the CSV, or the previous watermark.
IsHighWatermark(high, previous) ==
  /\ high = previous \/ \E i \in Ids : high = csv[i]
  /\ previous <= high /\ \A i \in Ids : csv[i] <= high

Listed(a, high) ==
  [a EXCEPT !.phase = "advisories",
            !.pending = {id \in Ids : RowSelected(a, id)},
            !.high = high]

FetchModifiedCsv(r) ==
  /\ attempt[r].phase = "csv"
  /\ \E high \in Times :
       /\ IsHighWatermark(high, attempt[r].high)
       /\ attempt' = [attempt EXCEPT ![r] = Listed(attempt[r], high)]
  /\ UNCHANGED <<now, feed, csvAt, store>>

Fetched(a, id) ==
  [a EXCEPT !.pending = a.pending \ {id},
            !.fetched = a.fetched \cup {id},
            !.document = [a.document EXCEPT ![id] = docs[id]]]

FetchAdvisory(r, id) ==
  /\ attempt[r].phase = "advisories" /\ id \in attempt[r].pending
  /\ attempt' = [attempt EXCEPT ![r] = Fetched(attempt[r], id)]
  /\ UNCHANGED <<now, feed, csvAt, store>>

\* import_advisories: fetched documents replace the rows of the generation written,
\* which is a new one filled from the archive, or the active one.
Base(a) == IF a.bootstrap THEN a.archived ELSE store.content
Imported(a) == [i \in Ids |-> IF i \in a.fetched THEN a.document[i] ELSE Base(a)[i]]

\* replace_advisory rejects a malformed document and the transaction rolls back; an
\* unchanged advisory is skipped before it is parsed into rows.
Importable(a) ==
  /\ a.bootstrap => \A i \in Ids : a.archived[i].kind # "malformed"
  /\ \A i \in a.fetched : a.document[i].kind # "malformed"

\* content_changed: whether the commit bumps the content revision.
CountsOnlyAffected(a) ==
  a.bootstrap \/ \E i \in Ids : Imported(a)[i] # Base(a)[i] /\ Imported(a)[i].kind = "affected"
ContentChanged(a) == a.bootstrap \/ Imported(a) # Base(a)

\* last_success_at is the instant the attempt began.
SuccessAtCommit(a) == now
SuccessTime(a) == a.attemptedAt

Committed(a) ==
  [store EXCEPT !.known = TRUE,
                !.dataset = IF a.bootstrap THEN "full" ELSE store.dataset,
                !.content = Imported(a),
                !.watermark = a.high,
                !.lastSuccess = SuccessTime(a),
                !.status = "healthy",
                !.revision = store.revision + (IF ContentChanged(a) THEN 1 ELSE 0)]

ImportAndRecordSuccess(r) ==
  /\ attempt[r].phase = "advisories" /\ attempt[r].pending = {}
  /\ Importable(attempt[r])
  /\ store' = Committed(attempt[r])
  /\ attempt' = [attempt EXCEPT ![r] = Idle]
  /\ UNCHANGED <<now, feed, csvAt>>

\* record_sync_failure keeps an ecosystem that has ever succeeded in service.
AlwaysFailed(s) == "failed"
StatusAfterFailure(s) ==
  IF s.dataset # "none" /\ s.lastSuccess > 0 THEN "healthy" ELSE "failed"

RecordSyncFailure(r) ==
  /\ store' = [store EXCEPT !.known = TRUE, !.status = StatusAfterFailure(store)]
  /\ attempt' = [attempt EXCEPT ![r] = Idle]
  /\ UNCHANGED <<now, feed, csvAt>>

Rejected(r) ==
  attempt[r].phase = "advisories" /\ attempt[r].pending = {} /\ ~Importable(attempt[r])

\* The import transaction fails on a malformed document.
ImportRejected(r) == Rejected(r) /\ RecordSyncFailure(r)

\* A download, a parse or a SQLite statement of the run fails.
RunError(r) == attempt[r].phase # "idle" /\ ~Rejected(r) /\ RecordSyncFailure(r)

\* The process dies or the task is aborted: the lock goes, the transaction never was.
Crash(r) ==
  /\ attempt[r].phase # "idle"
  /\ attempt' = [attempt EXCEPT ![r] = Idle]
  /\ UNCHANGED <<now, feed, csvAt, store>>

Sync(r) ==
  \/ StartSync(r) \/ FetchArchive(r) \/ FetchModifiedCsv(r)
  \/ \E id \in Ids : FetchAdvisory(r, id)
  \/ ImportAndRecordSuccess(r) \/ ImportRejected(r) \/ RunError(r) \/ Crash(r)

Environment ==
  \/ Tick \/ RefreshCsv \/ RefreshArchive
  \/ \E id \in Ids, kind \in Kinds : Publish(id, kind)

Next == Environment \/ \E r \in Runners : Sync(r)

Spec == Init /\ [][Next]_vars

(* The background loop asks for a run again and again (as long as no other ecosystem
   keeps failing: module BackgroundSync), and a run goes on by itself until it commits
   or fails; nothing is assumed of the feed, the clock or of failures. *)
RunProgress(r) ==
  \/ StartSync(r) \/ FetchArchive(r) \/ FetchModifiedCsv(r)
  \/ \E id \in Ids : FetchAdvisory(r, id)
  \/ ImportAndRecordSuccess(r) \/ ImportRejected(r)

FairSpec == Spec /\ WF_vars(\E r \in Runners : RunProgress(r))

-----------------------------------------------------------------------------
(* Correctness. *)

\* Every variable holds a value of its kind (the state malicious.rs and SQLite keep).
TypeOK ==
  /\ now \in 1..MaxTime
  /\ docs \in [Ids -> Docs] /\ archive \in [Ids -> Docs]
  /\ csv \in [Ids -> Times]
  /\ csvAt \in [Times -> [Ids -> Times]]
  /\ store \in Stores
  /\ attempt \in [Runners -> Attempts]

\* An advisory the index lists below the high watermark is never fetched again, so the
\* store must already hold it: sync_incremental skips rows strictly below the watermark
\* and nothing published while a run downloads may fall into the gap.
NothingMissedBelowWatermark ==
  store.dataset = "full" =>
    \A id \in Ids : csv[id] < store.watermark => csv[id] <= store.content[id].modified

\* A store ensure_store_healthy accepts under on_stale = block holds everything the OSV
\* index listed max_staleness ago, however long the run that wrote it took.
HealthyReadIsFresh ==
  BlockOnStale /\ StoreHealthy(store) /\ store.dataset = "full" =>
    \A t \in Times, id \in Ids :
      t + MaxStaleness <= now => csvAt[t][id] <= store.content[id].modified

\* Once a sync has succeeded, failed refreshes leave the ecosystem in service until it
\* is stale: record_sync_failure never revokes the status of a committed dataset.
FailureKeepsServing ==
  store.dataset # "none" /\ store.lastSuccess > 0 => store.status = "healthy"

\* No commit replaces an advisory by an older edition of it, whichever runs overlap,
\* crash or fail (SyncRunGuard keeps a slow run from overwriting a faster one).
NoAdvisoryRegresses ==
  [][\A id \in Ids : store.content[id].modified <= store'.content[id].modified]_vars

\* However the store was left by crashes and failures, once they stop and the feed is
\* well formed every advisory the index lists is stored: retries resume by themselves.
WellFormedFeed == \A i \in Ids : "malformed" \notin {docs[i].kind, archive[i].kind}
Undisturbed ==
  \A r \in Runners :
    attempt[r].phase # "idle" /\ attempt'[r].phase = "idle" =>
      ImportAndRecordSuccess(r) \/ ImportRejected(r)
StoreCatchesUp ==
  <>[]WellFormedFeed /\ <>[][Undisturbed]_vars =>
    <>[](/\ store.dataset = "full"
         /\ \A id \in Ids : csv[id] <= store.content[id].modified)

\* The content revision, the metadata cache's key, moves exactly when the content that
\* policy reads moves, and forwards: a refresh that changes nothing keeps caches valid.
RevisionTracksContent ==
  [][store.dataset # "none" =>
       store'.revision = store.revision +
         (IF store.dataset # store'.dataset \/ store.content # store'.content
            THEN 1 ELSE 0)]_vars
=============================================================================
