---------------------------- MODULE CheckerRead ----------------------------
(***************************************************************************)
(* Policy reads of the local OSV store (SqliteMaliciousChecker in          *)
(* malicious.rs): a check waits for one of the SQLite permits, verifies    *)
(* that the store is healthy, and then reads the advisories that list the  *)
(* version and the ranges that cover it.  These are three statements on a  *)
(* connection in autocommit mode: each reads the last committed state, and *)
(* a sync may commit between any two of them.  The readiness endpoint asks *)
(* in the same way and stops at the first statement.                       *)
(*                                                                         *)
(* The store is seen from one package version: what matters of an advisory *)
(* is the ways in which it matches that version.                           *)
(***************************************************************************)
EXTENDS Integers, FiniteSets

CONSTANTS
  Ids,           \* advisory identifiers
  Checks,        \* calls of check, check_many or readiness; each runs once
  Concurrency,   \* SQLITE_CHECK_CONCURRENCY
  MaxCommits     \* bound on the committed transactions

ASSUME ConstantsAssumption ==
  /\ IsFiniteSet(Ids) /\ IsFiniteSet(Checks)
  /\ Concurrency \in Nat \ {0} /\ MaxCommits \in Nat

VARIABLES
  revision,    \* how many transactions have been committed
  committed,   \* history: the store each of them left
  phase,       \* where a check is
  batch,       \* whether it is a check_many
  dropped,     \* whether the request that made it is gone
  hits,        \* the advisories found so far
  from, to     \* history: the revisions at its first and its last statement

vars == <<revision, committed, phase, batch, dropped, hits, from, to>>

\* An advisory matches a version that it lists, or that one of its ranges covers; a
\* withdrawn or absent advisory, or one about other versions, matches in no way.
Ways == {"listed", "inRange"}
Stores == [healthy : BOOLEAN, matches : [Ids -> SUBSET Ways]]
EmptyStore == [healthy |-> FALSE, matches |-> [i \in Ids |-> {}]]

Phases ==
  {"idle", "queued", "health", "first", "second", "answered", "ready", "refused", "cancelled"}
Ended == {"answered", "ready", "refused", "cancelled"}
Reading == {"health", "first", "second"}

Init ==
  /\ revision = 0
  /\ committed = [t \in 0..MaxCommits |-> EmptyStore]
  /\ phase = [c \in Checks |-> "idle"]
  /\ batch \in [Checks -> BOOLEAN]
  /\ dropped = [c \in Checks |-> FALSE]
  /\ hits = [c \in Checks |-> {}]
  /\ from = [c \in Checks |-> 0] /\ to = [c \in Checks |-> 0]

\* A sync commits new content and records success, or only the status changes (a first
\* sync fails, a store becomes stale).
Commit ==
  /\ revision < MaxCommits
  /\ revision' = revision + 1
  /\ \E store \in Stores :
       /\ store.healthy \/ store.matches = committed[revision].matches
       /\ committed' = [committed EXCEPT ![revision + 1] = store]
  /\ UNCHANGED <<phase, batch, dropped, hits, from, to>>

-----------------------------------------------------------------------------
(* run_sqlite_check. *)

Request(c) ==
  /\ phase[c] = "idle"
  /\ phase' = [phase EXCEPT ![c] = "queued"]
  /\ UNCHANGED <<revision, committed, batch, dropped, hits, from, to>>

\* The permit moves into the blocking operation: it is free again when that returns,
\* whether or not the request still waits for the answer.
HeldByRequest(c) == phase[c] \in Reading /\ ~dropped[c]
LeakedByDrop(c) == phase[c] \in Reading \/ dropped[c]
HoldsPermit(c) == phase[c] \in Reading

AcquirePermit(c) ==
  /\ phase[c] = "queued"
  /\ Cardinality({d \in Checks : HoldsPermit(d)}) < Concurrency
  /\ phase' = [phase EXCEPT ![c] = "health"]
  /\ from' = [from EXCEPT ![c] = revision]
  /\ UNCHANGED <<revision, committed, batch, dropped, hits, to>>

\* The request goes away: a check still queued is cancelled, a running one runs on.
Drop(c) ==
  /\ phase[c] \in {"queued"} \cup Reading /\ ~dropped[c]
  /\ dropped' = [dropped EXCEPT ![c] = TRUE]
  /\ phase' = [phase EXCEPT ![c] = IF phase[c] = "queued" THEN "cancelled" ELSE phase[c]]
  /\ UNCHANGED <<revision, committed, batch, hits, from, to>>

-----------------------------------------------------------------------------
(* check_with_connection and check_many_with_connection_tracked. *)

Refuse(c) ==
  /\ phase' = [phase EXCEPT ![c] = "refused"]
  /\ to' = [to EXCEPT ![c] = revision]
  /\ UNCHANGED <<revision, committed, batch, dropped, hits, from>>

AlwaysUsable == TRUE
StoreUsable == committed[revision].healthy

CheckHealth(c) ==
  /\ phase[c] = "health" /\ StoreUsable
  /\ phase' = [phase EXCEPT ![c] = "first"]
  /\ UNCHANGED <<revision, committed, batch, dropped, hits, from, to>>

RefuseUnhealthy(c) == phase[c] = "health" /\ ~StoreUsable /\ Refuse(c)

\* readiness asks no more than that.
Ready(c) ==
  /\ phase[c] = "health" /\ StoreUsable
  /\ phase' = [phase EXCEPT ![c] = "ready"]
  /\ to' = [to EXCEPT ![c] = revision]
  /\ UNCHANGED <<revision, committed, batch, dropped, hits, from>>

\* check reads the listed versions first; check_many loads the ranges of a package first.
FirstWay(c) == IF batch[c] THEN "inRange" ELSE "listed"
ReadsFirstWayAgain(c) == FirstWay(c)
SecondWay(c) == IF batch[c] THEN "listed" ELSE "inRange"
Matching(t, way) == {i \in Ids : way \in committed[t].matches[i]}

ReadFirst(c) ==
  /\ phase[c] = "first"
  /\ hits' = [hits EXCEPT ![c] = Matching(revision, FirstWay(c))]
  /\ phase' = [phase EXCEPT ![c] = "second"]
  /\ UNCHANGED <<revision, committed, batch, dropped, from, to>>

\* consolidate_local_findings keeps one finding per advisory.
ReadSecond(c) ==
  /\ phase[c] = "second"
  /\ hits' = [hits EXCEPT ![c] = hits[c] \cup Matching(revision, SecondWay(c))]
  /\ phase' = [phase EXCEPT ![c] = "answered"]
  /\ to' = [to EXCEPT ![c] = revision]
  /\ UNCHANGED <<revision, committed, batch, dropped, from>>

\* A statement fails, or a range cannot be evaluated: the whole check is an error.
ReadError(c) == phase[c] \in Reading /\ Refuse(c)

Runs(c) ==
  \/ AcquirePermit(c) \/ CheckHealth(c) \/ Ready(c) \/ RefuseUnhealthy(c)
  \/ ReadFirst(c) \/ ReadSecond(c)

Next ==
  \/ Commit
  \/ \E c \in Checks : Request(c) \/ Runs(c) \/ ReadError(c) \/ Drop(c)

Spec == Init /\ [][Next]_vars

\* The blocking pool runs every operation it was given, and the semaphore is first come
\* first served.
FairSpec == Spec /\ \A c \in Checks : WF_vars(Runs(c))

-----------------------------------------------------------------------------
(* Correctness. *)

\* Every variable holds a value of its kind.
TypeOK ==
  /\ revision \in 0..MaxCommits
  /\ committed \in [0..MaxCommits -> Stores]
  /\ phase \in [Checks -> Phases]
  /\ batch \in [Checks -> BOOLEAN] /\ dropped \in [Checks -> BOOLEAN]
  /\ hits \in [Checks -> SUBSET Ids]
  /\ from \in [Checks -> 0..MaxCommits] /\ to \in [Checks -> 0..MaxCommits]

Affected(t) == {i \in Ids : committed[t].matches[i] # {}}

\* An answer comes from a store that was healthy while the check ran, and names only
\* advisories that matched from then on: never "no findings" out of a missing or failed
\* dataset, never a finding of a generation replaced before the health check, and never
\* "ready" without a store to read.
AnswersComeFromHealthyStore ==
  \A c \in Checks : phase[c] \in {"answered", "ready"} =>
    \E h \in from[c]..to[c] :
      /\ committed[h].healthy
      /\ \A i \in hits[c] : \E t \in h..to[c] : i \in Affected(t)

\* Both checks look at both ways to match, in opposite orders: an advisory that matched
\* in one and the same way all along is reported, however many syncs committed.
SteadyMatchesAreReported ==
  \A c \in Checks : phase[c] = "answered" =>
    \A i \in Ids, way \in Ways :
      (\A t \in from[c]..to[c] : way \in committed[t].matches[i]) => i \in hits[c]

\* However requests come and go, no more SQLite operations run than there are permits
\* (the test at malicious.rs:3085 asserts it for checks that are awaited).
PermitsBoundReads == Cardinality({c \in Checks : phase[c] \in Reading}) <= Concurrency

\* Every check ends, also behind checks whose requests are gone.
EveryCheckEnds == \A c \in Checks : phase[c] = "queued" ~> phase[c] \in Ended

\* What docs/internal/goal-17-local-osv-metadata-cache.md:150 says: policy reads observe
\* only committed revisions, so an answer is the verdict of one of them.
VerdictOfOneRevision ==
  \A c \in Checks : phase[c] = "answered" =>
    \E t \in from[c]..to[c] : hits[c] = Affected(t)
=============================================================================
