# Verification of osv-proxy

osv-proxy stands between package managers and seven public registries. It filters
registry metadata and package files by a policy (age, allow and block lists, known
malicious packages, vulnerabilities), taking its knowledge of advisories from a local
SQLite store that it synchronises with the OSV dumps. This directory holds TLA+
specifications of the parts of the program where concurrency, failure, time or the sheer
number of cases make the code hard to test, the TLC configurations that check them on
small instances, and proofs of the safety properties they check for instances of every size.

All paths `src/...` below are the Rust sources of the repository.

## The system

| Component | State it keeps | Operations | What makes it correct |
|---|---|---|---|
| OSV store synchronisation (`malicious.rs`) | SQLite: `sync_state` row per ecosystem, dataset generations, advisories; the sync-run lock | bootstrap from `all.zip`, catch-up and incremental refresh from `modified_id.csv`, import in one transaction, record success or failure, migrate old stores | no advisory of the index is skipped for good; no advisory goes back in time; the recorded freshness is true; failures keep committed data in service |
| Background loop (`server.rs`) | requested ecosystems, failure counter, delay | run a cycle, retry failed ecosystems with backoff, wait for the interval | failures are retried until made good; retries are neither too late nor endless; every ecosystem stays refreshed |
| Policy reads (`malicious.rs`) | eight SQLite permits; nothing per check | `check`, `check_many`, `content_revision`: health query, then queries for listed versions and ranges | answers come from a healthy store; nothing that affects a version is overlooked; bounded concurrency whatever clients do |
| Filtered metadata cache (`metadata_cache.rs`, key in `server.rs`) | entries, recency list, fills in flight, fill permits | look up, wait for or lead a fill, complete, abandon, evict, expire | no stale answer; one fill per key; every waiter is answered; bounded size |
| Runtime budgets and shutdown (`runtime.rs`, `server.rs`) | ingress, egress and background permits; the forced flag and its `Notify` | admit, wait for egress, stream a body, drain, force, stop | limits hold over whole responses; nothing of an overloaded route is served; shutdown ends |
| Policy decision (`policy.rs`) | none; task-local cache metadata | evaluate one artifact or a batch | the documented precedence of rules; fail-closed on errors; a batch decides as a single check does |
| Range and version evaluation (`malicious.rs`, `rubygems.rs`, `maven.rs`) | none | store an advisory, fold range events, merge findings, compare versions | the OSV evaluation rules; comparisons that agree with each other |
| Registry adapters (`npm.rs`, `pypi.rs`, `go.rs`, `cargo.rs`, `nuget.rs`, `rubygems.rs`, `maven.rs`) | none | parse, evaluate, filter, render; look up one artifact and deliver it; answer conditional requests | what is shown can be had and what is hidden cannot; no pointer to a hidden version; a client's copy is the filtered listing |
| Paths and identities (`server.rs`, `artifact.rs`) | none | parse a path, normalise a name, write a link | one package, one name; links lead back |
| Artifact delivery (`artifacts.rs`) | HTTP client, egress policy | validate a URL, resolve, redirect or stream | only what was evaluated is delivered, from where the configuration allows |
| Bounded bodies (`http_body.rs`) | none | check the declared and the running size | a whole body or none, within its limit |
| Configuration and CLI (`config.rs`, `cli.rs`) | none | validate; `check` one version | the command agrees with what the proxy serves |
| Readiness and responses (`readiness.rs`, `response.rs`) | none | evaluate the store's health; format | ready only with a store to read |

How they interact: `registry_handler` takes an ingress permit, and for metadata routes
asks the policy reads for the content revision, makes it part of the cache key, and runs
the route under the cache. A route takes an egress permit per upstream call, parses what
it gets and evaluates every version by policy, which calls the policy reads. The
background loop writes the store that the policy reads read; all they share is the
SQLite file (write-ahead logging, one transaction per import). The forced shutdown
reaches handlers and body streams through `RuntimeControl`.

What is hard about it: downloads of a run last while the feed goes on publishing;
policy reads run on their own connections while imports commit; cached metadata depends
on a revision that moves; any request future may be dropped at any await; several
processes may run a sync; a forced shutdown races with tasks that are about to wait for
it. `PROJECT.json` lists the hazards with their lines.

## The modules

| Module | Models | Abstract or concrete about |
|---|---|---|
| `OsvSync` | `sync_ecosystem` and everything below it, under the run lock | one ecosystem; every download and every transaction is a step |
| `SyncRunLock`, `RunMutex` | `SyncRunGuard`; the mutual exclusion it promises | every lock is a step of its own, over tasks and processes |
| `BackgroundSync` | the loop of `spawn_background_osv_sync_with_policy` and `sync_osv_ecosystems` | one ecosystem of a run is one step that succeeds or fails |
| `CheckerRead` | `check`, `check_many`, `readiness`, `run_sqlite_check` | every SQL statement is a step; the store as seen from one package version |
| `MetadataCache` | `MetadataCache::execute` and `metadata_cache_key` | every critical section and await is a step; the evaluation of a fill reads one revision |
| `LruList`, `RecencyList` | `CacheState`: slots, links and free list; the recency order it promises | one operation of the state per step |
| `ServerRuntime` | `registry_handler` admission, permits, `hold_permits`, `RuntimeControl`, `serve_listener_with_shutdown` | every step of `forced()`; a route is a sequence of upstream calls |
| `PolicyDecision` | `PolicyEngine` and the batches the adapters make of it | functions; a finding is what the engine tells apart |
| `AdvisoryEvaluation` | `replace_advisory`, `exact_hits`, `range_hits`, `evaluate_range_events` | functions; versions are numbers in their order |
| `RangeRuns` | the events of one range as they are read, one more per step | the range of an advisory of any length |
| `VersionOrder`, `VersionRuns` | the orders of NuGet, RubyGems and Maven versions; three versions of a registry as they are compared | functions on parsed segments; versions of any length |
| `Selection` | taking the members of a sequence at some indices | used by `PolicyDecision`, `VersionOrder` and `Routes` |
| `PolicyRuns` | one package under a policy while advisories and time change | the listing and each artifact, decided at every instant |
| `Registry`, `NpmAdapter`, `PypiAdapter`, `CargoAdapter`, `GoAdapter`, `NugetAdapter`, `RubygemsAdapter`, `MavenAdapter` | each adapter: documents to artifacts, filtered listing, lookup by link and by version | functions on documents with what filtering looks at |
| `ConditionalResponse` | `apply_if_none_match`, `filtered_representation_response` | functions on a listing, its tag and a range |
| `ServePath` | requests for listings and artifacts and the `check` command, from the first fetch to the last byte | every upstream answer, store read and decision is a step |
| `EgressPolicy` | `Config::validate`, `ArtifactEgressPolicy`, `SafeResolver`, `deliver` and `fetch` | addresses by class; DNS answers anything |
| `BoundedBody` | `http_body.rs` | one chunk per step |
| `Routes` | the route parsers, the link writers, names and versions of `artifact.rs` | texts of tokens, one more per step |
| `MC*` | instances for TLC: symmetry, sizes, documents | |
| `*Proofs` | theorems about the modules they extend | |
| `NaturalLemmas` | induction and recursion over numbers, with sets and functions in the place of predicates and operators; what is taken from a sequence | used by the proofs only |

The modules meet at their edges. `BackgroundSync` is the caller `OsvSync` assumes in its
fairness; `SyncEcosystem(e)` there is a whole run here. A commit of `OsvSync` is `Commit`
in `CheckerRead` and `CommitSync` in `MetadataCache`; the property `RevisionTracksContent`
is what allows `MetadataCache` to identify content with revision. The answers of
`CheckerRead` are what `RouteAndFilter` reads, and a request of `ServerRuntime` contains a
request of `MetadataCache`. `OsvSync` takes the run lock in one step and `MetadataCache`
its recency list as a sequence; that they may is what `SyncRunLock` and `LruList` show by
refining `RunMutex` and `RecencyList`. `MCBuildingBlocks` runs such parts side by side,
one per behaviour, and the background loop with them. Serving needs a composition: `ServePath` puts the
adapters, `PolicyDecision` and `ConditionalResponse` together with an upstream and a store
that change between any two steps of a request. What it takes of the store is the answer
about a version, which `PolicyRuns` computes from advisories.

### OsvSync

`store` is the `sync_state` row joined with its active generation: `dataset` is
`dataset_version` ("none" without a generation, "legacy" for 0, "full" for 1), `content`
the advisories, `watermark`, `lastSuccess`, `status` and `revision` the columns of the
same names. `attempt[r]` is the stack of a running `sync_ecosystem`: what it has
downloaded and the watermark it will store. `StartSync` takes the lock, migrates an old
store and decides between bootstrap and incremental refresh; `FetchArchive`,
`FetchModifiedCsv` and `FetchAdvisory` are the downloads; `ImportAndRecordSuccess` is the
import transaction with `record_sync_success`; `ImportRejected` and `RunError` are the
error path of `sync_ecosystem` with `record_sync_failure`; `Crash` is a process that dies
or a task aborted at any point (and a failure to record the failure, which leaves the
same state).

The dump is external. Documents are published at once; the CSV index and the archive are
snapshots of all documents taken at some moment and may lag. That documents are never
older than the index that lists them is what the code relies on, and an assumption here.
The feed and the proxy read one monotone clock, in which several advisories and several
steps share an instant.

Left out: `last_attempted_at`, `error_summary` and raw JSON, which nothing else reads;
superseded generations, which no query reads (a unique index keeps one active); archive
size limits, which are errors like any other (`RunError`). The content of an old,
malicious-only store is abstracted to empty, so nothing is claimed about it.

### BackgroundSync

One tick of `delay` is the initial retry delay (5 s). `MaxFailures` is where the counter
stops being told apart: the assumption `multiplier[MaxFailures - 1] >= MaxDelay` says that the
cap has been reached by then, as the code's cap on the exponent does for its constants.
The order of ecosystems in a run is arbitrary here and fixed in the code.

### CheckerRead

`committed` is the history of all stores committed, so that properties can say what was
true between the first and the last statement of a check. Readiness is a check that ends
after the health statement; `readyz` asks it for every ecosystem. An advisory is characterised
by the ways in which it matches the one version considered: the version is listed, or a range
covers it, or both, or neither (absent, withdrawn, about other versions). `Drop` is a
request that goes away: a queued check is cancelled, a running blocking operation is not.

### MetadataCache

A request reads the revision (`ReadRevision`), looks up (`LookupHit`, `LookupWait`,
`LookupLead`), waits (`WaitAnswered`, `WaitRetry`) or fills (`AcquirePermit`,
`RouteAndFilter`, `Finish`). `Cancel` is a dropped future, by a client that went away or by
a forced shutdown; for a leader it is `FillLeader::drop`. `shared[r]` is the watch channel
of the fill that `r` leads; since a request leads at most one fill, leaders name them.
The kinds of response are what the code tells apart: "ok" may be stored, "unfit" may be
shared but not stored (another status, overloaded, a policy error, too large), "stream"
has no buffered body and cannot be shared. `RouteAndFilter` evaluates a fill on one
committed revision; that a single check may tear is the business of `CheckerRead`.
When neither malicious packages nor vulnerabilities are blocked the key holds a constant
revision and no content is read; that configuration is left out. Requests whose revision
cannot be read share fills under one key, which `docs/policy.md` accepts and
`AnswersAreFresh` therefore excludes; their answers are never stored.

### ServerRuntime

`phase` follows a request through `registry_handler` ("routing", "queued" for an egress
permit, "fetching") and its body ("polling" while `hold_permits` is polled, "blocked"
while the client takes nothing and hyper does not poll). Permits are not counters:
`HoldsIngress` and `HoldsEgress` say which requests own one, as ownership does in Rust.
`watch` is how far a call of `RuntimeControl::forced` has come; each poll of the body makes
a new call. That `notify_waiters` wakes every `Notified` created before it, awaited or
not, is tokio's guarantee and external. A route that makes several upstream calls at once
(`buffered` in Maven and RubyGems) is modelled with one at a time. `/readyz` is a request
without upstream calls; `/healthz` is outside. A forced stop ends a body stream as if it
were complete; with a chunked body a client cannot tell, which no document rules out.

### PolicyDecision, AdvisoryEvaluation, PolicyRuns

`Evaluate` is `evaluate_with_malicious_result`: OSV findings first, then the blocklist, then
an allowlist entry that lifts the age gate, then the age. `osv` is what the store said, an
error and a missing result included. `EvaluateArtifacts` is the batch every adapter makes:
it asks only for the artifacts that need it and matches results by position. In
`AdvisoryEvaluation` a document becomes stored occurrences, range events are folded in
stored order (boundaries are compared only when the verdict depends on them, so an
unparsable one may go unnoticed), and findings of one advisory are merged. `PolicyRuns` adds
a clock and documents that come and go, and decides the listing and each artifact at every
instant. Publication times, thresholds and ages are small numbers; CVSS scoring itself
(`score` of a vector) is a library's.

### VersionOrder

A version is the sequence of its parsed segments, a word is its rank. Cutting a text into
segments is left out. `Dropped` says which tokens the loop at the end of
`MavenVersion::parse` removes: the null ones that stand, without a gap, before a dash or the
end. `VersionRuns` takes three versions of a registry at a time. npm, PyPI, Go and Cargo versions are compared by libraries.

### The adapters and ServePath

A document is what filtering looks at: npm's versions with their `dist.tarball` and time and
the dist-tags; PyPI's files with the name that the version is inferred from; Cargo's index
lines; Go's list and one info per version; NuGet's pages, inline or fetched, and leaves with
or without a `catalogEntry`; the compact index of a gem and its versions document; Maven's
metadata and one POM date per version. Names and versions keep exactly the structure that
the code takes apart: dashes of an npm or PyPI file name, the platform of a gem.

`request` is one request of one client (the proxy shares nothing between requests but the
cache, which `MetadataCache` covers), `history` the states of upstream and store since the
listing, so that properties can say which of them a step may have seen. `Fetch` is one
upstream answer; `AnswerListing`, `Decide` and `Judge` read the store; `Deliver` sends
bytes. The time of a request is taken once, when it starts, as in the code. `CopyAfter` is
a client that keeps its copy, as cargo and Maven clients do with a tag and Bundler with a
byte range, and is external.

What the properties of `ServePath` do not see: `DeliveredWasAllowed` and the comparisons of
requests take `Evaluate` for granted on both sides, so a wrong precedence of the policy's rules
shows only in `EntriesLiftOnlyTheirGates`. NuGet's flat container index is a request of its own
in the code; in the model it is decided with the registration, so `PointersNameShown` says
nothing of a change between the two. A client that asks for the rest of a gem's index checks
the digest of what it gets, so `ClientCopyIsCurrent` would not notice a wrong part, only a
wrong digest or tag. Of the names that a gem file may begin with, the code counts against its
limit those that are valid names; in the model all of them are.

### EgressPolicy, BoundedBody

`Request` holds a URL against the configuration, `Connect` the DNS answer, which may be any
set of addresses. Addresses are public, private or unspecified, standing for the classes
of `is_forbidden_ip`. `Init` takes only configurations that `Config::validate` accepts. In
`BoundedBody` the transport delivers no more than was declared and a body that ends early
breaks, as HTTP/1.1 does; `Break` also stands for a body that is not what it should be.

### Routes

A path is a text of tokens: letters, marks, percent escapes and whole words such as
`index` or `nupkg`. `Dispatch` gives the package, version and file that the parser of a
registry finds. A registry's static documents (service index, `config.json`, `versions`,
the list of all projects) name no package and count as "none"; so does a Maven document
that is not under the path of its package, or whose group and artifact are no coordinates
(`validate_coordinate`), which is refused later on. Go's `@latest` and
`.info` are listings of one version, as for the cache. `Legal` says which names registries
give; for others nothing is claimed.

## What the runs check

Run a check in this directory with `tlc -workers 2 -config X.cfg M`, a proof with
`tlapm M.tla`.

| Run | Configuration | What it asks |
|---|---|---|
| `sync_safety` | `MCOsvSync.cfg` | Does any interleaving of two runs, a feed that goes on publishing, failures and crashes lose an advisory below the watermark, accept stale data as fresh, or put an older edition back? |
| `sync_retry` | `MCOsvSyncRetry.cfg` | With withdrawn and malformed advisories: do failures keep committed data in service, does the revision follow the content, and does the store catch up once nothing disturbs it? |
| `metadata_cache` | `MCMetadataCache.cfg` | Do three requests, a sync, the clock and cancellations ever produce a stale answer, two fills of a key, a lost waiter or a replay past its time? |
| `metadata_cache_live` | `MCMetadataCacheLive.cfg` | Is every request answered although leaders vanish? |
| `checker_reads` | `MCCheckerRead.cfg` | What do checks and readiness guarantee although commits fall between their statements, and do permits bound them and come back? |
| `torn_read` | `MCCheckerReadTorn.cfg` | Is an answer the verdict of one committed revision? No: see Findings. |
| `healthy_starved` | `BackgroundSyncStarved.cfg` | Is a healthy ecosystem refreshed while another fails? No: see Findings. |
| `runtime_shutdown` | `ServerRuntime.cfg` | Do permits bound whole responses, is nothing of an overloaded route served, is no wakeup of a forced shutdown lost, and does the server stop? |
| `serve_path` | `MCServePath.cfg` | For each registry, while upstream, advisories and clock go on: is what is delivered allowed, is what a listing shows deliverable and what it hides refused, do pointers name shown versions, does a client's copy stay the filtered listing, and does `check` agree with the listing? |
| `building_blocks` | `MCBuildingBlocks.cfg` | Do the parts behave as the other modules take them: decisions that hold until their metadata says and, with `on_error = block`, that no further advisory turns into "allowed", gates that nothing but their own allowlist entry lifts, batches that agree with single checks, ranges, comparisons of versions, the recency list, the run lock, egress, bodies and routes? And in the background loop: is a failed ecosystem retried, soon, until it succeeds, over refused runs and restarts? |
| `error_hides_finding` | `MCErrorHidesFinding.cfg` | Does `on_error = allow` keep valid findings? No: see Findings. |
| `maven_order` | `MCMavenOrder.cfg` | Do Maven versions have an order by which they can be sorted? No: see Findings. |

Every property has a mutant in `PROJECT.json`: a plausible mistake in one definition
under which the run finds the property violated. The mutated forms stand next to the
definitions they replace (`NoRunGuard` above `RunGuardFree`, for instance) and nothing
else uses them.

The runs of `OsvSync`, `MetadataCache`, `CheckerRead`, `BackgroundSync` and `ServerRuntime`
do not check deadlock: their clocks, commits and requests are bounded, so those models stop
somewhere; that nobody waits for ever is stated by liveness properties. The other runs check
it: a client can always ask again, and every part of `building_blocks` goes on.

### Bounds

- `sync_safety`: two advisories, so that one can be published while the other is being
  fetched, and an index line can be newer than a document not listed yet; two runners, so
  that runs could overlap if the lock let them; three instants, for a watermark, a
  publication after it and a run that takes time; staleness 1, so that data becomes stale
  within the run. `Kinds` is only "affected" there: these properties look at modification
  times, and `sync_retry` runs all kinds with one advisory.
- `metadata_cache`: three requests, for a leader, a waiter and a request that arrives when
  the leader has finished or vanished; two paths of weight 1 and 2 in a cache of capacity
  2, so that entries evict each other and replace themselves; one fill permit, so that
  leaders queue; one commit and two instants. `metadata_cache_live` gives up the second
  path and commits, which play no part in who waits for whom, for the temporal check.
- `checker_reads`: two commits are what it takes to have a different store at each of the
  three statements; one permit for two checks makes them queue.
- `building_blocks`, the loop: an interval of 6 and a maximum of 8 initial delays make each of the
  three limits of the backoff (doubling, half the interval, the maximum) matter for some
  count of failures.
- `runtime_shutdown`: three requests for two ingress permits and one egress permit; a
  request can be refused, one can wait for what another streams.

- `serve_path`: two versions, one old enough from the start and one that comes of age during
  the run, so that a listing shows one, hides one, and later shows both; per registry four
  to six documents, in order and each defective in one of the ways the adapter has a branch
  for; a store that knows nothing, one that knows a malicious version, one that fails;
  `on_error` and missing dates open and closed; one change of upstream or store
  (`MaxWorlds = 2`), which is what it takes for a request to see two states. Go's limit of
  list entries is 2 instead of 1000, NuGet's of registration pages 2 instead of 64 and that of
  the gems a file name may belong to 2 instead of 32, so that each can be exceeded.
- `building_blocks`: three artifacts, of which one comes of age first and one has no date;
  five advisories that reach every branch of storing and matching; all combinations of the
  policy switches. Events: up to four, over five boundaries, in the order of their versions and
  alternating. Orders: all triples of versions
  with up to four segments (two after the first for Maven, with any prefix and value, those
  that have no order among them). List: four keys of weight 1 or 2
  in a capacity of 4, so that one insertion evicts up to two. Lock: two tasks of one process
  and one of another, two stores, one of them under two spellings. Egress: two ecosystems,
  one with two upstreams, which may share hosts. Body: limit 5 of a `usize` of 7. Routes: four
  tokens after each beginning; the beginnings lie beyond the fixed parts of a path, and every
  registry reaches listings and artifacts.

`MaxTime`, `MaxRevision`, `MaxCommits`, `MaxFailures`, `MaxRestarts`, `MaxWorlds`,
`LastTime`, `MaxSent` and `MaxTokens` bound what the
program leaves unbounded. At `MaxTime` an expiry of `Never` stands for no expiry before
the end. Symmetry is used only in runs without liveness properties.

### Fairness

- `OsvSync`: one weak fairness over all steps that bring a run forward, `StartSync`
  included. The background loop starts runs again and again, downloads have timeouts, and
  a run is one task. Nothing is assumed of the feed, the clock, failures or crashes;
  `StoreCatchesUp` speaks of behaviours in which the feed ends up well formed and runs
  end up undisturbed. It relies on the loop asking for this ecosystem, which is so as long
  as no other one fails for ever (`healthy_starved`).
- `MetadataCache`: each request goes on by itself. A permit goes to whoever waits longest
  (tokio's semaphore is first come, first served), so an enabled `AcquirePermit` that stays
  enabled is taken; upstream calls time out, so a fill ends. Every request runs once, so
  the model cannot show a request overtaken by an endless stream of others.
- `CheckerRead`: a queued check gets its permit and the blocking pool runs what it was
  given.
- `BackgroundSync`: the task is polled and time passes. Feeds, other processes and restarts
  are free. In `building_blocks` this is the fairness of the behaviours that are the loop's.
- `ServerRuntime`: only the two timers of the shutdown. Clients, upstreams and even the
  scheduling of requests are free, so `ShutdownCompletes` holds whatever they do.
- The other modules state safety only and need none.

## What is proved

Every invariant and action property of a passing run is a theorem, for all values of the
constants that satisfy the named assumptions of the modules, and both refinements are.
Nothing else is assumed:

| Assumption | What it says |
|---|---|
| `ConstantsAssumption` (`OsvSync`, `BackgroundSync`, `CheckerRead`, `MetadataCache`, `ServerRuntime`) | sets are finite where they are counted, limits and bounds are numbers, positive where the code needs it |
| `LockConstants` | every task belongs to a process, every path has a normalised form |
| `LruConstants` | the caller stores nothing heavier than the capacity, as `metadata_cache.rs` sees to |
| `BodyConstants` | limits lie below `usize::MAX`: a sum that saturates could not be told from a limit of `usize::MAX` |
| `EgressConstants` | URLs are parsed ones: every part of a URL is of its type |
| `PolicyConstants` | times and ages are numbers, a CVSS score is at most 10, a listing is finite |
| `RangeConstants` | boundaries and versions are numbers, that is, can be compared |
| `VersionConstants` | versions are what the parsers return |
| `RouteConstants` | paths are of the seven registries; what they begin with are texts of strings, and what follows are strings |
| `DocumentsAreWellFormed`, `AgesAreNumbers` | an upstream document that is served has the shape its parser accepts, states one thing of a version (`Unambiguous`), and registries are asked to check versions they list (`ChecksListed`) |

### The store and its readers (`OsvSyncProofs`, `CheckerReadProofs`, the end of `BuildingBlocksProofs`)

- **The watermark is complete, healthy data is fresh, advisories never regress**
  (`WatermarkComplete`, `FreshWhenHealthy`, `AdvisoriesNeverRegress`). None of these is
  inductive: whether the next commit is complete depends on what a run has downloaded and
  what the feed published since. `IInv` says of every run in progress that its prospect,
  the content it would commit if the documents still pending were fetched now, covers its
  watermark and the index of the instant it began (`AttemptInv`), and of the feed that its
  index lists everything older than its newest line (`FeedInv`). Publishing changes only
  documents newer than any watermark, and a fetch makes the prospect come true. That there
  is one run at a time (`OneRun`) keeps the store still under a run, and is where the lock
  is needed.
- **The revision is exact, failures keep serving** (`RevisionIsExact`, `FailuresKeepServing`).
  A commit counts a change of the generation, which a bootstrap always is: that a bootstrap
  never runs over a full generation, and an incremental run over nothing else, is part of
  `AttemptInv`. `ServingInv` adds to `FailureKeepsServing` that while a run is on there is a
  generation, since the first step of a run migrates the store: a failure then finds
  committed data, and leaves the status healthy because of it.
- **No failed ecosystem is forgotten, and retries come soon** (`NoFailureIsForgotten`,
  `RetriesAreSoon`). `FailuresStayRequested` speaks of the next cycle and says nothing in
  the middle of one; `CycleCoversBehind` adds that who is behind then has failed in this
  cycle or is still to be synced, so that the failures of the cycle are all there is to ask
  for, and none after a clean one. `SleepIsShort` says that while failures are counted, what is
  left of a sleep is left of a retry delay. The powers of two of the backoff are a recursive
  function here; that there is such a function, and that it gives a number for every
  exponent, follows from `PrimitiveRecursion` and `SetInduction`.
- **Checks answer from a healthy store and report steady matches**
  (`AnswersFromHealthyStore`, `SteadyMatchesReported`). `IInv` says for every stage of a
  check, readiness included, what it has seen between its first statement and the last
  commit. That permits bound the reads (`ReadsAreBounded`) needs only the types.
- **How far an answer can be from a verdict** (`GrowingIsBracketed`, `QuietIsVerdict`). An
  answer need not be the verdict of one revision (Finding 1). If commits during the check only
  add matches, it reports all that its first revision held and nothing that its last does not
  hold; if they leave the matches alone, it is the verdict of a revision. So a check is
  wrong in the way of Finding 1 only if a match is taken away, or moves from one way to the
  other, while it runs.

### The cache and the server (`MetadataCacheProofs`, `ServerRuntimeProofs`)

- **Answers of the metadata cache are fresh, one fill per key, no waiter is lost**
  (`AnswersNeverStale`, `SingleFill`, `WaitersAreLed`). `SharingInv` ties the in-flight map
  to the leaders at work and waiters to leaders of their own key; `FreshnessInv` says that
  what is stored or shared under a key was evaluated at the revision of the key or later,
  and that the revision of the key is no older than its request.
- **Hits are complete and current** (`HitsStayCurrent`). What is stored is an "ok" answer
  together with the expiry of its decisions (`StoredAreCurrent`), and a lookup takes no
  entry whose expiry has come.
- **The list of the cache is a recency sequence** (`LruIsSequence`). The invariant is that
  there is a sequence of slots of which head, tail and the pointers are the chain, which the
  map names by their keys, which no freed slot is in, and whose weights add up to the total
  (`LruInv`, with `IsList` in parts). Each step of the code has a lemma that says what it
  makes of that sequence: `RemoveKeyIs` takes one slot out, `EvictedIs` takes slots from
  the front until the new one fits, `AllocatedIs` finds a slot that is not in it,
  `StoredLast` and `TouchIs` put one at the end. `ChainIs` says that the walk along the
  pointers, by which the refinement maps the state, returns the keys of the sequence.
- **Permits bound what they should, overload is never served, no wakeup is lost**
  (`PermitsBound`, `OverloadsAreRefused`, `WakeupsAreKept`).
  `WakeupInv` relates the flag, the stage of the shutdown and the step each caller of
  `forced()` has reached: who found the flag down twice was registered before the flag
  went up, so `notify_waiters` has told it.

### The building blocks (`BuildingBlocksProofs`)

- **The two locks of a sync run are one mutual exclusion and leave nothing behind**
  (`LockIsMutex`, `NothingIsLeftBehind`). `LockLeavesNothingBehind` is half of the invariant:
  it says nothing of a task that runs without the lock. `RunnersHaveLocks` adds that none
  does, from which who runs on a store is who has its file locked (`HolderIsLocked`), and
  steps of the one are steps of the other.
- **A body is read whole or refused** (`BodiesAreWhole`). `BodyInv` relates what has been
  kept to what has been sent and declared at each stage; `SaturatingComparison` says when a
  sum that saturates still tells what is too large.
- **Egress follows the configuration** (`EgressIsConfigured`). `EgressInv` keeps that the
  configuration is a valid one and, of a call, that its URL passed `ValidateUrl` at every
  stage that sends for it or hands it out. A configuration
  that `validate` accepts puts its own origins among those accepted
  (`ConfiguredIsAccepted`), which is why no configured URL is refused.
- **A batch decides as single checks do** (`BatchesAgree`), **a decision holds until its
  metadata says it lapses** (`DecisionsHold`), **with `on_error = block` no further advisory
  unblocks** (`PublishingNeverUnblocks`; with `allow` one may, see Finding 3). The second
  rests on the earliest of the times at which decisions lapse, the third on findings that only
  grow: the merged finding of an advisory takes the greatest severity of its parts
  (`ConsolidatedGrows`), and a pass needs all findings clean.
- **Every gate is lifted by its own entry and by nothing else** (`GatesAreLiftedOneByOne`).
  `EntriesLiftOnlyTheirGates` states what is decided from the documents alone, without the
  order in which the code asks (advisories, blocklist, allowlist, age): an artifact is allowed
  exactly if it is not blocklisted, nothing that the policy acts on flags it unless its entry
  bypasses OSV, and it is old enough unless its entry bypasses the age gate. A rule that the
  code asked too early or too late would allow or block something else.
- **The fold over range events is membership in their intervals** (`VerdictsAreIntervals`),
  for any number of events. The fold is defined by recursion over the sequence; its value is
  pinned down by `FoldExists`, from `PrimitiveRecursion`, and `RangeInv` (events alternate)
  carries the verdict from one event to the next.
- **Comparisons of versions agree with each other** (`ComparisonsAgree`), for versions of any
  length. Every comparison looks for the first difference of two sequences of comparisons, so
  what there is to show is that the comparisons at one place, padding included, come from a key:
  numbers and words of a NuGet prerelease, segments of a gem with its end, the tokens of a
  Maven version with the tokens that padding stands for. A lemma about first differences then
  carries antisymmetry and transitivity from the keys to the versions. For Maven there is such
  a key for trimmed versions that are `Orderly`, whose words after dots come last in their order
  and after nothing that equals padding. Others have none (Finding 4), and the theorem says
  of them what still holds: the opposite comparison gives the opposite
  (`TrimmedOpposite`), and versions that compare as equal are equal up to padding
  (`EqualTokens`), so that they compare alike with every other.

### Routes (`RouteProofs`)

- **Every path leads where the link to what it names leads, and normalising twice is
  normalising once** (`PathsLeadBack`), for paths of any length over any tokens. The
  invariant is only that a path is a text; what has to be shown is, for each of the seven
  registries, that whatever its parser returns can be written as a link and that the link is
  parsed as what was returned (`NpmAgrees`, `PypiAgrees`, `RubygemsAgrees`, `NugetAgrees`,
  `GoAgrees`, `CargoAgrees`, `MavenAgrees`).
- It rests on a small theory of texts. `Split` cuts at places listed in order; `SplitAt`,
  `SplitJoin` and `JoinSplit` say that cutting undoes joining if no part has the separator,
  and joining undoes cutting. What is taken at some places is an enumeration of them in order
  (`EnumerationExists`, `EnumerationsAgree`); a join is a recursive function, pinned down by
  `FlatExists`, so that a join of any number of parts can be taken part by part. `ReplaceJoin`
  lets decoding and lowering go through a join.
- The normal forms come next: `NormalizePypiTwice` (no mark at either end, none beside
  another), `NugetVersionStays` (numbers without leading zeros, no fourth that is zero),
  `GoEscape` undone by its inverse (`EscapeSpells`, `SpellsMore`), an identity cut at its
  last `@` (`IdentityIs`).
- The provers do not know a literal to be a member of `STRING`. A text is therefore a
  sequence over `Token`, the strings together with the literals of the module.

### Serving (`ServePathProofs`)

- **What is delivered was allowed, a client's copy is the filtered listing, pointers name
  what is shown** (`DeliveryIsAllowed`, `CopyIsCurrent`, `PointersAreNamed`). `ServeInv`
  says that whatever a request has fetched was stated by upstream in some state since it
  began, that what it is about to deliver is an artifact of that, allowed by an answer the
  store gave meanwhile, and that a reply keeps this.
- **What is shown can be had, what is hidden cannot, `check` agrees** (`ShownAreDeliverable`,
  `HiddenAreRefused`, `ChecksAgree`). These compare a listing with a later or an earlier
  request while there is one world. `SteadyInv` says of such histories that the listing was
  made of the documents of that world, and that every open request and the last reply stand
  where the same world takes them. `AskedInv`
  adds the times and versions of requests. What remains is a statement about each adapter,
  without steps: that a listing shows exactly what was decided to be allowed (`Listable`),
  that the lookup of a link finds the artifact that the listing decided about, or the link
  is unservable (`Finds`), and that what the command looks for is what the listing has of the version
  (`Agreeing`). Each of the seven has its lemmas for them (`NpmListable`, `NpmFinds`,
  `NpmChecks` and so on; `AllListable`, `AllFinds`, `AllCheck`). They are where `Unambiguous` is
  needed: upstream that states two dates of one version can be listed by one and served by
  the other.

`NaturalLemmas` holds what the library states for operators and the provers cannot apply:
induction over a set of numbers (`SetInduction`), the existence of a function that repeats a
step (`PrimitiveRecursion`), the least member of a set (`LeastMember`), and the places of
numbers in a set (`RankIsPlace`), by which what is taken from a sequence is found again, in
its order (`TakenInOrder`).

### Only model-checked

The five liveness properties (`StoreCatchesUp`, `EveryRequestAnswered`, `EveryCheckEnds`,
`OutagesEnd`, `ShutdownCompletes`): fairness and ENABLED are out of the prover's reach.

## Findings

1. **A policy check may be the verdict of no revision** (`torn_read`).
   `docs/internal/goal-17-local-osv-metadata-cache.md:150` says that policy reads observe
   only committed revisions. Each statement does, but a check makes three of them in
   autocommit mode. An advisory that covers a version by a range before a commit and lists
   it explicitly after the commit is missed by a check that reads the listed versions
   before and the ranges after it; `check_many` misses the opposite change. A read
   transaction around the three statements would rule it out. What holds without it is
   checked and proved: the store was healthy during the check, and advisories that match
   in the same way throughout are reported.
2. **A failing ecosystem keeps healthy ones from being refreshed** (`healthy_starved`).
   `docs/osv-data.md:51` says that a failure in one ecosystem does not prevent another
   from committing updates. Within a run it does not, but the next runs ask only for the
   failed ecosystems until all of them have succeeded (`server.rs:298`). While one feed
   stays down, the others become stale and are blocked after `max_staleness`.

3. **An error hides a valid finding** (`error_hides_finding`). `docs/policy.md:135` says that
   `on_error = allow` permits an error but does not override a valid matching finding. A
   range that cannot be evaluated is an error of the whole check of a version, and of the
   whole batch of a listing (`malicious.rs:2081`, `286`), so the exact findings of other
   advisories are lost with it and the version is let through.
4. **Maven versions have no order** (`maven_order`).
   `docs/internal/goal-14-maven-java-support.md:29` speaks of Maven-compatible version ordering.
   `compare_versions` (`maven.rs:1129`) compares a word after a dot with the padding of a shorter
   version by its value, but with a token of another prefix by the prefixes alone. So
   `1.foo < 1-alpha < 1`, yet `1 < 1.foo`, for a word that has no rank of its own; and
   `1-foo < 1.0.alpha < 1`, yet `1 < 1-foo`, for a known one after a token that equals padding.
   Versions such as `4.0.0.Beta1` or `9.4.0.v2016` have words of these kinds. Range events are
   compared in this way, and a listing is sorted by it (`maven.rs:520`), for which `sort_by` asks
   for a total order. What holds of all versions, and transitivity on the others
   (`Orderly`), is checked and proved.

## Observations

The models follow the code in these. They are not counted as findings, since the documents do
not settle them:

- With `block_vulnerabilities = false` a vulnerability that cannot be scored still blocks
  under `on_error = block` (`policy.rs:170`); `OsvDecision` has the case. `docs/policy.md:126`
  ("Malformed recognized vector: Follow `on_error`") and lines 135-137 say so too, but line
  129-130, by which the switch retains "`MAL-*` blocking without general vulnerability
  blocking", can be read against it.
- Range events are folded in stored order. For events that are not in the order of their
  versions, several intervals can give a verdict that no interval gives;
  `RangeVerdictIsReference` is about ordered ones.
- An allowlist or blocklist entry is compared with the normalised version: a NuGet entry
  `1.0` matches nothing, since artifacts have `1.0.0` (`policy.rs:294-315`).
- Links that are shown and cannot be served are named in `Unservable`: Go versions with
  uppercase letters (clients escape them, and the route refuses the escape), npm files
  whose name does not follow from the version or whose `dist` has no `tarball` (the listing
  gives them a default link, `npm.rs:278`, the delivery refuses them, `npm.rs:312`), NuGet
  leaves without `packageContent`, gem file names that two gems could have or that begin with
  too many possible names (`rubygems.rs:589`).
- The `check` command takes Go's info for the requested version whatever version it names.
- A NuGet leaf without a `catalogEntry` keeps upstream's links and is absent from the flat
  container index. One PyPI file whose version cannot be inferred makes the whole project a
  404; one unreadable Maven POM fails the listing although its delivery is a 404.
- A batch fails as a whole: one version with an unparsable range makes `check_many` an error
  for every version of the listing, where a download of another version would pass
  (the condition in `BatchAgreesWithSingle`).
- `max_staleness` may be configured shorter than the sync interval; the store then goes
  stale between runs.

## Not modelled, and why

- Parsing and rendering of documents (JSON, HTML, XML, compact index) beyond what filtering
  reads; CVSS vectors; reading configuration files and the environment; printing: formats,
  covered by unit tests.
- Secondary routes: static documents, single registration leaves and pages of NuGet
  (`registration_resource_response` filters one page or leaf as `NugetListing` does all),
  plugin-group metadata of Maven, which is passed through, and checksums, which are digests
  of the filtered body or upstream's.
- The headers that a delivery passes on in either direction.
- Archive limits of the dump: a limit that is exceeded is an error of the run, which
  `OsvSync` has.
- SQL, the schema and indexes: a transaction is atomic and a statement reads one committed
  state, as SQLite's write-ahead log provides.
- A clock set back: the clock of `OsvSync` only moves forward. A dataset dated in the future
  is refused by policy reads until the clock has caught up or a run has dated it anew.

## Plan

Done: all modules of the table above, with the theorems above. What is left are the
pages and leaves of NuGet registrations, and Maven's checksums beside the documents that they
are of.
