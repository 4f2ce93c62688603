-------------------------- MODULE BackgroundSync ---------------------------
(***************************************************************************)
(* The background synchronisation task (server.rs) and the run over the    *)
(* requested ecosystems that it makes (sync_osv_ecosystems in              *)
(* malicious.rs): one ecosystem after the other, a failure of one does not *)
(* stop the others, a cycle with failures is followed by a retry of the    *)
(* failed ones after a growing delay, a clean cycle by a full one after    *)
(* the regular interval.                                                   *)
(*                                                                         *)
(* What a run does to one ecosystem is module OsvSync; here it succeeds or *)
(* fails as its feed, external, is up or down, in any order of the         *)
(* requested ecosystems.  One tick stands for the initial retry delay.     *)
(***************************************************************************)
EXTENDS Integers, FiniteSets

CONSTANTS
  Ecosystems,     \* ALL_OSV_ECOSYSTEMS
  SyncInterval,   \* LocalOsvConfig.sync_interval, in initial delays
  MaxDelay,       \* BackgroundRetryPolicy.maximum, in initial delays
  MaxFailures,    \* bound on the consecutive failures told apart
  MaxRestarts     \* bound on restarts of the server

\* 1 << exponent.
multiplier[exponent \in Nat] ==
  IF exponent = 0 THEN 1 ELSE 2 * multiplier[exponent - 1]

ASSUME LoopConstants ==
  /\ IsFiniteSet(Ecosystems) /\ Ecosystems # {}
  /\ SyncInterval \in Nat \ {0} /\ MaxDelay \in Nat \ {0}
  /\ MaxFailures \in 1..16 /\ multiplier[MaxFailures - 1] >= MaxDelay
  /\ MaxRestarts \in Nat

VARIABLES
  phase,         \* where the loop is
  requested,     \* the ecosystems of the next cycle
  todo, failed,  \* of the cycle running: still to sync, and failed so far
  consecutive,   \* consecutive_failures
  delay,         \* what is left of the sleep
  down,          \* external: the ecosystems whose sync fails
  runnable,      \* no other process holds the sync-run lock and the store opens
  restarts,      \* how often the server was started again
  behind         \* history: ecosystems whose last attempt failed

cycle == <<requested, todo, failed, consecutive, delay>>
outside == <<down, runnable, restarts>>
loopVars == <<phase, cycle, outside, behind>>

LoopInit ==
  /\ phase = "starting"
  /\ requested = Ecosystems /\ todo = {} /\ failed = {}
  /\ consecutive = 0 /\ delay = 0
  /\ down \in SUBSET Ecosystems
  /\ runnable \in BOOLEAN
  /\ restarts = 0
  /\ behind = {}

-----------------------------------------------------------------------------
(* The environment. *)

FeedsChange ==
  /\ down' \in SUBSET Ecosystems
  /\ UNCHANGED <<phase, cycle, runnable, restarts, behind>>

\* `osv sync` on the command line takes or leaves the lock, the store file comes or goes.
OthersInterfere ==
  /\ runnable' = ~runnable
  /\ UNCHANGED <<phase, cycle, down, restarts, behind>>

-----------------------------------------------------------------------------
(* sync_osv_ecosystems. *)

StartCycle ==
  /\ phase = "starting" /\ runnable
  /\ phase' = "running" /\ todo' = requested /\ failed' = {}
  /\ UNCHANGED <<requested, consecutive, delay, outside, behind>>

\* The error of one ecosystem is recorded and the run goes on to the next.
SyncEcosystem(e) ==
  /\ phase = "running" /\ e \in todo
  /\ todo' = todo \ {e}
  /\ failed' = IF e \in down THEN failed \cup {e} ELSE failed
  /\ behind' = IF e \in down THEN behind \cup {e} ELSE behind \ {e}
  /\ UNCHANGED <<phase, requested, consecutive, delay, outside>>

-----------------------------------------------------------------------------
(* The loop of spawn_background_osv_sync_with_policy. *)

Least(s, t) == IF s <= t THEN s ELSE t
Most(s, t) == IF s <= t THEN t ELSE s

\* background_retry_delay: doubled at every failure, capped, and below the interval.
Uncapped(failures) == Least(multiplier[failures - 1], MaxDelay)
RetryDelay(failures) == Least(Uncapped(failures), Most(SyncInterval \div 2, 1))

\* saturating_add, and the exponent stops growing: more failures are not told apart.
Saturated(failures) == Least(failures, MaxFailures)

\* The ecosystems to ask for after a cycle in which some failed.
SkipsFailed(missed) == Ecosystems \ missed
StillRequested(missed) == missed

\* And after a clean one.
SameAgain == requested
Everything == Ecosystems

FullSuccess ==
  /\ phase = "running" /\ todo = {} /\ failed = {}
  /\ phase' = "sleeping" /\ requested' = Everything
  /\ consecutive' = 0 /\ delay' = SyncInterval
  /\ UNCHANGED <<todo, failed, outside, behind>>

PartialFailure ==
  /\ phase = "running" /\ todo = {} /\ failed # {}
  /\ phase' = "sleeping" /\ requested' = StillRequested(failed)
  /\ consecutive' = Saturated(consecutive + 1) /\ delay' = RetryDelay(consecutive')
  /\ UNCHANGED <<todo, failed, outside, behind>>

\* The run lock is taken, or the store cannot be opened: nothing was attempted.
RunRefused ==
  /\ phase = "starting" /\ ~runnable
  /\ phase' = "sleeping"
  /\ consecutive' = Saturated(consecutive + 1) /\ delay' = RetryDelay(consecutive')
  /\ UNCHANGED <<requested, todo, failed, outside, behind>>

Sleep ==
  /\ phase = "sleeping" /\ delay > 0
  /\ delay' = delay - 1
  /\ UNCHANGED <<phase, requested, todo, failed, consecutive, outside, behind>>

Wake ==
  /\ phase = "sleeping" /\ delay = 0
  /\ phase' = "starting"
  /\ UNCHANGED <<cycle, outside, behind>>

Loop ==
  \/ StartCycle \/ (\E e \in Ecosystems : SyncEcosystem(e))
  \/ FullSuccess \/ PartialFailure \/ RunRefused \/ Sleep \/ Wake

\* The server stops, perhaps in the middle of a run, and is started again.
Restart ==
  /\ restarts < MaxRestarts /\ restarts' = restarts + 1
  /\ phase' = "starting" /\ requested' = Ecosystems /\ todo' = {} /\ failed' = {}
  /\ consecutive' = 0 /\ delay' = 0
  /\ UNCHANGED <<down, runnable, behind>>

LoopNext == FeedsChange \/ OthersInterfere \/ Loop \/ Restart

LoopSpec == LoopInit /\ [][LoopNext]_loopVars
FairLoopSpec == LoopSpec /\ WF_loopVars(Loop)   \* the task is polled and downloads time out
-----------------------------------------------------------------------------
(* Correctness. *)

\* The loop's variables, and a counter of failures that never overflows.
LoopTypeOK ==
  /\ phase \in {"starting", "running", "sleeping"}
  /\ requested \in SUBSET Ecosystems /\ todo \in SUBSET requested
  /\ failed \in SUBSET requested
  /\ consecutive \in 0..MaxFailures /\ delay \in Nat
  /\ down \in SUBSET Ecosystems /\ runnable \in BOOLEAN
  /\ restarts \in 0..MaxRestarts
  /\ behind \in SUBSET Ecosystems

\* Over partial failures, refused runs and restarts, an ecosystem whose last attempt
\* failed is asked for again in the next cycle: no failure is forgotten until it is made
\* good, and the loop sleeps for the long interval only when none is left.
FailuresStayRequested ==
  /\ behind \subseteq requested
  /\ phase = "sleeping" /\ consecutive = 0 => behind = {}

\* While an ecosystem is behind, the loop never sleeps longer than the maximum delay nor
\* as long as a regular interval (background_retry_delay).
RetriesComeSoon ==
  phase = "sleeping" /\ behind # {} =>
    /\ delay <= MaxDelay
    /\ SyncInterval > 1 => delay < SyncInterval

\* Once feeds are back and runs can start, every ecosystem is synced again and again and
\* none stays behind.
OutagesEnd ==
  <>[](down = {} /\ runnable) =>
    /\ <>[](behind = {})
    /\ \A e \in Ecosystems : []<>(phase = "running" /\ e \in todo)

\* What docs/osv-data.md:51 says of the ecosystems: a failure in one does not prevent
\* another from committing updates, so one whose feed is up goes on being synced.
HealthyEcosystemsRefreshed ==
  \A e \in Ecosystems :
    <>[](e \notin down /\ runnable) => []<>(phase = "running" /\ e \in todo)
=============================================================================
