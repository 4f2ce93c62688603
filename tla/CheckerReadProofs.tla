------------------------- MODULE CheckerReadProofs -------------------------
(* TLAPS proofs about CheckerRead, for any advisories, checks and permits. *)
EXTENDS CheckerRead, FiniteSetTheorems, TLAPS

(* What a check has established by revision u: it saw a healthy store, and what it has
   found so far matched since then. *)
SeenHealthy(c, u) ==
  \E h \in from[c]..u :
    /\ committed[h].healthy
    /\ \A i \in hits[c] : \E t \in h..u : i \in Affected(t)

\* An advisory that matched in this way at every revision so far has been found.
SteadyFound(c, way, u) ==
  \A i \in Ids : (\A t \in from[c]..u : way \in committed[t].matches[i]) => i \in hits[c]

InTime ==
  \A c \in Checks :
    /\ phase[c] \in Reading => from[c] <= revision
    /\ phase[c] \in {"answered", "ready"} => from[c] <= to[c] /\ to[c] <= revision
NothingFoundYet ==
  \A c \in Checks : phase[c] \in {"idle", "queued", "health", "first"} => hits[c] = {}
ReadersSawHealth ==
  \A c \in Checks : phase[c] \in {"first", "second"} => SeenHealthy(c, revision)
AnswersSawHealth ==
  \A c \in Checks : phase[c] \in {"answered", "ready"} => SeenHealthy(c, to[c])
FirstWayFound ==
  \A c \in Checks : phase[c] = "second" => SteadyFound(c, FirstWay(c), revision)
BothWaysFound ==
  \A c \in Checks : phase[c] = "answered" =>
    \A way \in Ways : SteadyFound(c, way, to[c])

IInv ==
  /\ TypeOK /\ InTime /\ NothingFoundYet
  /\ ReadersSawHealth /\ AnswersSawHealth /\ FirstWayFound /\ BothWaysFound
-----------------------------------------------------------------------------
\* Every step keeps every variable in its type.
LEMMA TypesStep == TypeOK /\ [Next]_vars => TypeOK'
<1> SUFFICES ASSUME TypeOK, [Next]_vars PROVE TypeOK'
  OBVIOUS
<1> USE ConstantsAssumption DEF TypeOK, Phases, Reading
<1>1. CASE Commit
  BY <1>1 DEF Commit
<1>2. ASSUME NEW c \in Checks, Request(c) PROVE TypeOK'
  BY <1>2 DEF Request
<1>3. ASSUME NEW c \in Checks, AcquirePermit(c) PROVE TypeOK'
  BY <1>3 DEF AcquirePermit
<1>4. ASSUME NEW c \in Checks, CheckHealth(c) PROVE TypeOK'
  BY <1>4 DEF CheckHealth
<1>5. ASSUME NEW c \in Checks, Refuse(c) PROVE TypeOK'
  BY <1>5 DEF Refuse
<1>6. ASSUME NEW c \in Checks, ReadFirst(c) PROVE TypeOK'
  BY <1>6 DEF ReadFirst, Matching
<1>7. ASSUME NEW c \in Checks, ReadSecond(c) PROVE TypeOK'
  BY <1>7 DEF ReadSecond, Matching
<1>8. ASSUME NEW c \in Checks, Drop(c) PROVE TypeOK'
  BY <1>8 DEF Drop
<1>9. ASSUME NEW c \in Checks, Ready(c) PROVE TypeOK'
  BY <1>9 DEF Ready
<1>10. CASE UNCHANGED vars
  BY <1>10 DEF vars
<1> QED
  BY <1>1, <1>2, <1>3, <1>4, <1>5, <1>6, <1>7, <1>8, <1>9, <1>10
     DEF Next, Runs, RefuseUnhealthy, ReadError

-----------------------------------------------------------------------------
(* A commit adds a revision and leaves the earlier ones as they were. *)

\* What a commit leaves of the history and of the checks: all of it.
LEMMA CommitKeepsHistory ==
  ASSUME TypeOK, Commit
  PROVE  /\ revision \in Nat /\ revision' = revision + 1
         /\ \A t \in 0..revision : committed'[t] = committed[t]
         /\ \A t \in 0..revision, i \in Ids : i \in Affected(t)' <=> i \in Affected(t)
         /\ phase' = phase /\ hits' = hits /\ from' = from /\ to' = to /\ batch' = batch
<1>1. /\ revision \in Nat /\ revision' = revision + 1
      /\ phase' = phase /\ hits' = hits /\ from' = from /\ to' = to /\ batch' = batch
  BY ConstantsAssumption DEF TypeOK, Commit
<1>2. ASSUME NEW t \in 0..revision PROVE committed'[t] = committed[t]
  BY <1>1, ConstantsAssumption DEF TypeOK, Commit
<1> QED BY <1>1, <1>2 DEF Affected

\* A commit between two statements of a check spoils nothing it has established.
LEMMA CommitStep == IInv /\ Commit => IInv'
<1> SUFFICES ASSUME IInv, Commit PROVE IInv'
  OBVIOUS
<1> USE CommitKeepsHistory DEF IInv
<1>1. TypeOK'
  BY TypesStep DEF Next
<1>2. InTime' /\ NothingFoundYet'
  BY DEF InTime, NothingFoundYet, TypeOK
<1>3. ASSUME NEW c \in Checks, NEW u \in 0..revision, SeenHealthy(c, u)
      PROVE  SeenHealthy(c, u)' /\ (u = revision => SeenHealthy(c, revision)')
  <2>1. PICK h \in from[c]..u :
          /\ committed[h].healthy
          /\ \A i \in hits[c] : \E t \in h..u : i \in Affected(t)
    BY <1>3 DEF SeenHealthy
  <2>2. from[c] \in Nat /\ hits[c] \subseteq Ids /\ h \in 0..revision
    BY DEF TypeOK
  <2>3. committed'[h].healthy
    BY <2>1, <2>2
  <2>4. \A i \in hits'[c] : \E t \in h..u : i \in Affected(t)'
    BY <2>1, <2>2
  <2>5. SeenHealthy(c, u)'
    BY <2>2, <2>3, <2>4 DEF SeenHealthy
  <2>6. ASSUME u = revision PROVE SeenHealthy(c, revision)'
    <3>1. h \in from'[c]..revision'
      BY <2>2, <2>6
    <3>2. \A i \in hits'[c] : \E t \in h..revision' : i \in Affected(t)'
      BY <2>2, <2>4, <2>6
    <3> QED BY <2>3, <3>1, <3>2 DEF SeenHealthy
  <2> QED BY <2>5, <2>6
<1>4. ReadersSawHealth' /\ AnswersSawHealth'
  BY <1>3 DEF ReadersSawHealth, AnswersSawHealth, InTime, TypeOK
<1>5. ASSUME NEW c \in Checks, NEW u \in 0..revision, NEW way \in Ways,
             SteadyFound(c, way, u)
      PROVE  SteadyFound(c, way, u)' /\ (u = revision => SteadyFound(c, way, revision)')
  <2>1. from[c] \in Nat
    BY DEF TypeOK
  <2>2. SteadyFound(c, way, u)'
    BY <1>5, <2>1 DEF SteadyFound
  <2>3. ASSUME u = revision PROVE SteadyFound(c, way, revision)'
    BY <1>5, <2>1, <2>3 DEF SteadyFound
  <2> QED BY <2>2, <2>3
<1>6. FirstWayFound' /\ BothWaysFound'
  BY <1>5 DEF FirstWayFound, BothWaysFound, InTime, TypeOK, FirstWay, Ways
<1> QED BY <1>1, <1>2, <1>4, <1>6
-----------------------------------------------------------------------------
(* A step of one check leaves the others and the history alone. *)

OnlyChanges(c) ==
  /\ revision' = revision /\ committed' = committed /\ batch' = batch
  /\ \A d \in Checks \ {c} :
       phase'[d] = phase[d] /\ hits'[d] = hits[d] /\ from'[d] = from[d] /\ to'[d] = to[d]

\* The parts of the invariant that speak of one check.
Sound(c) ==
  /\ phase[c] \in Reading => from[c] <= revision
  /\ phase[c] \in {"answered", "ready"} => from[c] <= to[c] /\ to[c] <= revision
  /\ phase[c] \in {"idle", "queued", "health", "first"} => hits[c] = {}
  /\ phase[c] \in {"first", "second"} => SeenHealthy(c, revision)
  /\ phase[c] \in {"answered", "ready"} => SeenHealthy(c, to[c])
  /\ phase[c] = "second" => SteadyFound(c, FirstWay(c), revision)
  /\ phase[c] = "answered" => \A way \in Ways : SteadyFound(c, way, to[c])

\* The invariant, seen check by check.
LEMMA InvIsSound == IInv <=> TypeOK /\ \A c \in Checks : Sound(c)
BY DEF IInv, Sound, InTime, NothingFoundYet, ReadersSawHealth, AnswersSawHealth,
       FirstWayFound, BothWaysFound

\* A check is not disturbed by a step of another one.
LEMMA OthersStaySound ==
  ASSUME NEW c \in Checks, OnlyChanges(c), NEW d \in Checks \ {c}, Sound(d)
  PROVE  Sound(d)'
<1> USE DEF OnlyChanges
<1>1. \A t : Affected(t)' = Affected(t)
  BY DEF Affected
<1>2. \A u : SeenHealthy(d, u)' <=> SeenHealthy(d, u)
  BY <1>1 DEF SeenHealthy
<1>3. \A u, way : SteadyFound(d, way, u)' <=> SteadyFound(d, way, u)
  BY DEF SteadyFound
<1>4. FirstWay(d)' = FirstWay(d)
  BY DEF FirstWay
<1> QED BY <1>2, <1>3, <1>4 DEF Sound

\* So a step of one check has only that check to answer for.
LEMMA CheckStep ==
  ASSUME IInv, NEW c \in Checks, OnlyChanges(c), [Next]_vars, Sound(c)'
  PROVE  IInv'
<1>1. \A d \in Checks \ {c} : Sound(d)'
  BY InvIsSound, OthersStaySound
<1>2. TypeOK'
  BY TypesStep, InvIsSound
<1>3. \A d \in Checks : Sound(d)'
  BY <1>1
<1> QED
  BY <1>2, <1>3 DEF IInv, Sound, InTime, NothingFoundYet, ReadersSawHealth,
     AnswersSawHealth, FirstWayFound, BothWaysFound

-----------------------------------------------------------------------------
(* The steps of one check. *)

\* A read adds what matches now to what it has found, and misses no steady match.
LEMMA ReadStep ==
  ASSUME IInv, NEW c \in Checks, ReadFirst(c) \/ ReadSecond(c)
  PROVE  OnlyChanges(c) /\ Sound(c)'
<1>1. TypeOK /\ Sound(c) /\ revision \in Nat /\ from[c] \in Nat /\ from[c] <= revision
  BY InvIsSound, ConstantsAssumption DEF TypeOK, Sound, ReadFirst, ReadSecond, Reading
<1>2. OnlyChanges(c)
  BY <1>1 DEF OnlyChanges, ReadFirst, ReadSecond, TypeOK
<1>3. /\ from' = from /\ revision' = revision /\ committed' = committed /\ batch' = batch
      /\ \A t : Affected(t)' = Affected(t)
  BY DEF ReadFirst, ReadSecond, Affected
<1>4. SeenHealthy(c, revision)'
  <2>1. PICK h \in from[c]..revision :
          /\ committed[h].healthy
          /\ \A i \in hits[c] : \E t \in h..revision : i \in Affected(t)
    BY <1>1 DEF Sound, SeenHealthy, ReadFirst, ReadSecond
  <2>2. \A i \in hits'[c] : i \in hits[c] \/ i \in Affected(revision)
    <3>1. PICK way \in Ways : hits'[c] \subseteq hits[c] \cup Matching(revision, way)
      BY <1>1 DEF TypeOK, ReadFirst, ReadSecond, Ways, FirstWay, SecondWay
    <3>2. Matching(revision, way) \subseteq Affected(revision)
      BY DEF Matching, Affected
    <3> QED BY <3>1, <3>2
  <2>3. revision \in h..revision
    BY <1>1, <2>1
  <2> QED BY <1>3, <2>1, <2>2, <2>3 DEF SeenHealthy
<1>5. CASE ReadFirst(c)
  <2>1. phase'[c] = "second" /\ hits'[c] = Matching(revision, FirstWay(c))
    BY <1>1, <1>5 DEF ReadFirst, TypeOK
  <2>2. SteadyFound(c, FirstWay(c), revision)'
    BY <1>1, <1>3, <2>1 DEF SteadyFound, Matching, FirstWay
  <2> QED BY <1>1, <1>2, <1>3, <1>4, <2>1, <2>2 DEF Sound, Reading
<1>6. CASE ReadSecond(c)
  <2>1. /\ phase[c] = "second" /\ phase'[c] = "answered" /\ to'[c] = revision
        /\ hits'[c] = hits[c] \cup Matching(revision, SecondWay(c))
    BY <1>1, <1>6 DEF ReadSecond, TypeOK
  <2>2. SteadyFound(c, FirstWay(c), revision)
    BY <1>1, <2>1 DEF Sound
  <2>3. ASSUME NEW way \in Ways PROVE SteadyFound(c, way, revision)'
    <3>1. way = FirstWay(c) \/ way = SecondWay(c)
      BY DEF Ways, FirstWay, SecondWay
    <3> QED BY <1>1, <1>3, <2>1, <2>2, <3>1 DEF SteadyFound, Matching
  <2>4. SeenHealthy(c, to[c])'
    BY <1>3, <1>4, <2>1
  <2>5. \A way \in Ways : SteadyFound(c, way, to[c])'
    BY <1>3, <2>1, <2>3
  <2> QED BY <1>1, <1>2, <1>3, <2>1, <2>4, <2>5 DEF Sound, Reading
<1> QED BY <1>2, <1>5, <1>6

\* The health check is the healthy instant that an answer refers to.
LEMMA HealthStep ==
  ASSUME IInv, NEW c \in Checks, CheckHealth(c) \/ Ready(c)
  PROVE  OnlyChanges(c) /\ Sound(c)'
<1>1. TypeOK /\ Sound(c) /\ revision \in Nat /\ from[c] \in Nat /\ from[c] <= revision
  BY InvIsSound, ConstantsAssumption DEF TypeOK, Sound, CheckHealth, Ready, Reading
<1>2. OnlyChanges(c) /\ phase[c] = "health"
  BY <1>1 DEF OnlyChanges, CheckHealth, Ready, TypeOK
<1>3. /\ hits' = hits /\ from' = from /\ revision' = revision /\ committed' = committed
      /\ hits[c] = {}
  BY <1>1, <1>2 DEF CheckHealth, Ready, Sound
<1>4. committed[revision].healthy /\ revision \in from[c]..revision
  BY <1>1 DEF CheckHealth, Ready, StoreUsable
<1>5. SeenHealthy(c, revision)'
  BY <1>3, <1>4 DEF SeenHealthy
<1>6. CASE CheckHealth(c)
  <2>1. phase'[c] = "first"
    BY <1>1, <1>6 DEF CheckHealth, TypeOK
  <2> QED BY <1>1, <1>2, <1>3, <1>5, <2>1 DEF Sound, Reading
<1>7. CASE Ready(c)
  <2>1. phase'[c] = "ready" /\ to'[c] = revision
    BY <1>1, <1>7 DEF Ready, TypeOK
  <2>2. SeenHealthy(c, to[c])'
    BY <1>3, <1>5, <2>1
  <2> QED BY <1>1, <1>2, <1>3, <2>1, <2>2 DEF Sound, Reading
<1> QED BY <1>6, <1>7

\* The steps before and after the reads.
LEMMA QuietStep ==
  ASSUME IInv, NEW c \in Checks,
         Request(c) \/ AcquirePermit(c) \/ Refuse(c) \/ Drop(c)
  PROVE  OnlyChanges(c) /\ Sound(c)'
<1>1. TypeOK /\ Sound(c) /\ revision \in Nat
  BY InvIsSound, ConstantsAssumption DEF TypeOK
<1>2. OnlyChanges(c)
  BY <1>1 DEF OnlyChanges, Request, AcquirePermit, Refuse, Drop, TypeOK
<1>3. CASE Request(c)
  BY <1>1, <1>2, <1>3 DEF Request, Sound, TypeOK, Reading
<1>4. CASE AcquirePermit(c)
  BY <1>1, <1>2, <1>4 DEF AcquirePermit, Sound, TypeOK, Reading
<1>5. CASE Refuse(c)
  BY <1>1, <1>2, <1>5 DEF Refuse, Sound, TypeOK, Reading
<1>6. CASE Drop(c)
  <2>1. CASE phase[c] = "queued"
    BY <1>1, <1>2, <1>6, <2>1 DEF Drop, Sound, TypeOK, Reading
  <2>2. CASE phase[c] # "queued"
    <3>1. /\ phase' = phase /\ hits' = hits /\ from' = from /\ to' = to
          /\ revision' = revision /\ committed' = committed /\ batch' = batch
      BY <1>1, <1>6, <2>2 DEF Drop, TypeOK
    <3>2. phase[c] \notin {"answered", "ready"}
      BY <1>6 DEF Drop, Reading
    <3>3. SeenHealthy(c, revision)' <=> SeenHealthy(c, revision)
      BY <3>1 DEF SeenHealthy, Affected
    <3>4. SteadyFound(c, FirstWay(c), revision)' <=> SteadyFound(c, FirstWay(c), revision)
      BY <3>1 DEF SteadyFound, FirstWay
    <3>5. phase'[c] \notin {"answered", "ready"}
      BY <3>1, <3>2
    <3> QED BY <1>1, <1>2, <3>1, <3>3, <3>4, <3>5 DEF Sound, Reading
  <2> QED BY <2>1, <2>2
<1> QED BY <1>2, <1>3, <1>4, <1>5, <1>6

-----------------------------------------------------------------------------
(* The theorems. *)

\* The invariant holds initially: no check has begun.
LEMMA InitInv == Init => IInv
BY ConstantsAssumption
   DEF Init, IInv, TypeOK, Stores, EmptyStore, Phases, Reading, InTime, NothingFoundYet,
       ReadersSawHealth, AnswersSawHealth, FirstWayFound, BothWaysFound

\* The invariant is inductive.
LEMMA InvStep == IInv /\ [Next]_vars => IInv'
<1> SUFFICES ASSUME IInv, [Next]_vars PROVE IInv'
  OBVIOUS
<1>1. CASE Commit
  BY <1>1, CommitStep
<1>2. ASSUME NEW c \in Checks, Request(c) \/ AcquirePermit(c) \/ Refuse(c) \/ Drop(c)
      PROVE  IInv'
  BY <1>2, QuietStep, CheckStep
<1>3. ASSUME NEW c \in Checks, CheckHealth(c) \/ Ready(c) PROVE IInv'
  BY <1>3, HealthStep, CheckStep
<1>4. ASSUME NEW c \in Checks, ReadFirst(c) \/ ReadSecond(c) PROVE IInv'
  BY <1>4, ReadStep, CheckStep
<1>5. CASE UNCHANGED vars
  <2>1. \A d, u : SeenHealthy(d, u)' <=> SeenHealthy(d, u)
    BY <1>5 DEF vars, SeenHealthy, Affected
  <2>2. \A d, way, u : SteadyFound(d, way, u)' <=> SteadyFound(d, way, u)
    BY <1>5 DEF vars, SteadyFound
  <2>3. \A d : FirstWay(d)' = FirstWay(d)
    BY <1>5 DEF vars, FirstWay
  <2>4. TypeOK'
    BY TypesStep DEF IInv
  <2>5. \A d \in Checks : Sound(d)'
    BY <1>5, <2>1, <2>2, <2>3, InvIsSound DEF vars, Sound
  <2> QED
    BY <2>4, <2>5 DEF IInv, Sound, InTime, NothingFoundYet, ReadersSawHealth,
       AnswersSawHealth, FirstWayFound, BothWaysFound
<1> QED
  BY <1>1, <1>2, <1>3, <1>4, <1>5 DEF Next, Runs, RefuseUnhealthy, ReadError

\* The inductive invariant of the policy reads: what a check has found or may not have
\* missed at each of its statements (check_with_connection in malicious.rs).
THEOREM ReadInvariant == Spec => []IInv
<1> QED BY InitInv, InvStep, PTL DEF Spec

\* ensure_store_healthy comes first: every answer is made of what a healthy store, and
\* the commits after it, held while the check ran.
THEOREM AnswersFromHealthyStore == Spec => []AnswersComeFromHealthyStore
<1>1. IInv => AnswersComeFromHealthyStore
  BY DEF IInv, AnswersSawHealth, SeenHealthy, AnswersComeFromHealthyStore
<1> QED BY <1>1, ReadInvariant, PTL

\* check and check_many, whatever commits between their statements: an advisory that
\* keeps matching in the same way is never missed.
THEOREM SteadyMatchesReported == Spec => []SteadyMatchesAreReported
<1>1. IInv => SteadyMatchesAreReported
  BY DEF IInv, BothWaysFound, SteadyFound, SteadyMatchesAreReported
<1> QED BY <1>1, ReadInvariant, PTL

-----------------------------------------------------------------------------
(* What an answer says of the revisions it was read from.  It need not be the verdict of one
   of them (VerdictOfOneRevision is violated); it is if no commit while the check ran changed
   what matches, and it lies between the first and the last verdict if none took a match
   away. *)

\* While the check ran, no commit took away a way in which an advisory matches.
OnlyAdded(c) ==
  \A t, u \in from[c]..to[c] : t <= u =>
    \A i \in Ids : committed[t].matches[i] \subseteq committed[u].matches[i]
\* While the check ran, commits changed the status of the store at most.
Quiet(c) == \A t \in from[c]..to[c] : committed[t].matches = committed[from[c]].matches

GrowingAnswersAreBracketed ==
  \A c \in Checks : phase[c] = "answered" /\ OnlyAdded(c) =>
    Affected(from[c]) \subseteq hits[c] /\ hits[c] \subseteq Affected(to[c])
QuietAnswersAreVerdicts ==
  \A c \in Checks : phase[c] = "answered" /\ Quiet(c) => hits[c] = Affected(from[c])

\* Of a store that only grows, check and check_many report at least what it held at their
\* first statement, and at most what it holds at their last.
LEMMA GrowingAnswer == IInv => GrowingAnswersAreBracketed
<1> SUFFICES ASSUME IInv, NEW c \in Checks, phase[c] = "answered", OnlyAdded(c)
             PROVE  Affected(from[c]) \subseteq hits[c] /\ hits[c] \subseteq Affected(to[c])
  BY DEF GrowingAnswersAreBracketed
<1> DEFINE first == from[c]
           last == to[c]
<1>1. /\ SteadyMatchesAreReported /\ AnswersComeFromHealthyStore
  BY DEF IInv, AnswersSawHealth, SeenHealthy, AnswersComeFromHealthyStore,
         BothWaysFound, SteadyFound, SteadyMatchesAreReported
<1>2. first \in Nat /\ last \in Nat /\ hits[c] \subseteq Ids
  BY ConstantsAssumption DEF IInv, TypeOK
<1>3. \A t \in first..last : \A i \in Ids : committed[t].matches[i] \subseteq Ways
  <2>1. \A t \in first..last : t \in 0..MaxCommits
    BY <1>2, ConstantsAssumption DEF IInv, TypeOK
  <2> QED BY <2>1 DEF IInv, TypeOK, Stores
<1>4. \E h \in first..last : \A i \in hits[c] : \E t \in h..last : i \in Affected(t)
  BY <1>1 DEF AnswersComeFromHealthyStore
<1>5. first <= last /\ first \in first..last /\ last \in first..last
  BY <1>2, <1>4
<1>6. ASSUME NEW i \in Affected(first) PROVE i \in hits[c]
  <2>1. PICK way \in Ways : i \in Ids /\ way \in committed[first].matches[i]
    BY <1>3, <1>5 DEF Affected
  <2>2. \A t \in first..last : way \in committed[t].matches[i]
    BY <1>2, <1>5, <2>1 DEF OnlyAdded
  <2> QED BY <1>1, <2>1, <2>2 DEF SteadyMatchesAreReported
<1>7. ASSUME NEW i \in hits[c] PROVE i \in Affected(last)
  <2>1. PICK t \in first..last : i \in Affected(t)
    BY <1>2, <1>4, <1>7
  <2>2. committed[t].matches[i] \subseteq committed[last].matches[i] /\ i \in Ids
    BY <1>2, <1>5, <1>7, <2>1 DEF OnlyAdded
  <2> QED BY <2>1, <2>2 DEF Affected
<1> QED BY <1>6, <1>7

\* So it is in every run (check_with_connection and check_many_with_connection_tracked).
THEOREM GrowingIsBracketed == Spec => []GrowingAnswersAreBracketed
<1> QED BY GrowingAnswer, ReadInvariant, PTL

\* The finding that policy reads mix revisions needs a commit that changes what matches: if
\* none falls between the statements of a check, its answer is the verdict of a revision.
THEOREM QuietIsVerdict == Spec => []QuietAnswersAreVerdicts
<1>1. IInv => QuietAnswersAreVerdicts
  <2> SUFFICES ASSUME IInv, NEW c \in Checks, phase[c] = "answered", Quiet(c)
               PROVE  hits[c] = Affected(from[c])
    BY DEF QuietAnswersAreVerdicts
  <2>1. OnlyAdded(c)
    BY DEF OnlyAdded, Quiet
  <2>2. Affected(from[c]) \subseteq hits[c] /\ hits[c] \subseteq Affected(to[c])
    BY <2>1, GrowingAnswer DEF GrowingAnswersAreBracketed
  <2>3. \E h \in from[c]..to[c] : TRUE
    BY DEF IInv, AnswersSawHealth, SeenHealthy
  <2>4. from[c] \in Nat /\ to[c] \in Nat
    BY ConstantsAssumption DEF IInv, TypeOK
  <2>5. to[c] \in from[c]..to[c]
    BY <2>3, <2>4
  <2>6. committed[to[c]].matches = committed[from[c]].matches
    BY <2>5 DEF Quiet
  <2> QED BY <2>2, <2>6 DEF Affected
<1> QED BY <1>1, ReadInvariant, PTL

-----------------------------------------------------------------------------
(* The permits. *)

\* Between states in which at most one check more reads, the readers stay finitely many.
LEMMA ReadersGrowByOne ==
  ASSUME NEW S, IsFiniteSet(S), NEW T, NEW c, T \subseteq S \cup {c}
  PROVE  Cardinality(T) \in Nat /\ Cardinality(T) <= Cardinality(S) + 1
<1>1. /\ IsFiniteSet(S \cup {c})
      /\ Cardinality(S \cup {c}) = IF c \in S THEN Cardinality(S) ELSE Cardinality(S) + 1
  BY FS_AddElement
<1>2. Cardinality(S) \in Nat
  BY FS_CardinalityType
<1>3. Cardinality(S \cup {c}) <= Cardinality(S) + 1 /\ Cardinality(S \cup {c}) \in Nat
  BY <1>1, <1>2
<1>4. IsFiniteSet(T) /\ Cardinality(T) <= Cardinality(S \cup {c})
  BY <1>1, FS_Subset
<1>5. Cardinality(T) \in Nat
  BY <1>4, FS_CardinalityType
<1> QED  BY <1>2, <1>3, <1>4, <1>5

\* Requests may go away and reads may fail or finish in any order: no more operations run
\* on the store than there are permits (malicious.rs 412-429).
THEOREM ReadsAreBounded == Spec => []PermitsBoundReads
<1> DEFINE Readers == {c \in Checks : phase[c] \in Reading}
<1>1. Init => PermitsBoundReads
  <2> SUFFICES ASSUME Init PROVE PermitsBoundReads
    OBVIOUS
  <2>1. Readers = {}
    BY DEF Init, Reading
  <2> QED  BY <2>1, FS_EmptySet, ConstantsAssumption DEF PermitsBoundReads
<1>2. TypeOK /\ PermitsBoundReads /\ [Next]_vars => PermitsBoundReads'
  <2> SUFFICES ASSUME TypeOK, PermitsBoundReads, [Next]_vars PROVE PermitsBoundReads'
    OBVIOUS
  <2>1. IsFiniteSet(Readers)
    BY FS_Subset, ConstantsAssumption
  <2>2. Readers' \subseteq Checks
    OBVIOUS
  <2>3. ASSUME NEW c \in Checks, AcquirePermit(c) PROVE PermitsBoundReads'
    <3>1. Cardinality(Readers) < Concurrency
      BY <2>3 DEF AcquirePermit, HoldsPermit
    <3>2. Readers' \subseteq Readers \cup {c}
      BY <2>3 DEF AcquirePermit, TypeOK, Reading
    <3>3. Cardinality(Readers') \in Nat /\ Cardinality(Readers') <= Cardinality(Readers) + 1
      BY <2>1, <3>2, ReadersGrowByOne
    <3> QED
      BY <2>1, <3>1, <3>3, FS_CardinalityType, ConstantsAssumption DEF PermitsBoundReads
  <2>4. CASE Readers' \subseteq Readers
    <3>1. Cardinality(Readers') <= Cardinality(Readers) /\ Cardinality(Readers') \in Nat
      BY <2>1, <2>4, FS_Subset, FS_CardinalityType
    <3> QED
      BY <2>1, <3>1, FS_CardinalityType, ConstantsAssumption DEF PermitsBoundReads
  <2>5. CASE Commit
    BY <2>5, <2>4 DEF Commit
  <2>6. ASSUME NEW c \in Checks,
               \/ Request(c) \/ CheckHealth(c) \/ Ready(c) \/ RefuseUnhealthy(c)
               \/ ReadFirst(c) \/ ReadSecond(c) \/ ReadError(c) \/ Drop(c)
        PROVE  Readers' \subseteq Readers
    BY <2>6
    DEF Request, CheckHealth, Ready, RefuseUnhealthy, Refuse, ReadFirst, ReadSecond,
        ReadError, Drop, TypeOK, Reading
  <2>7. CASE UNCHANGED vars
    BY <2>7, <2>4 DEF vars
  <2> QED  BY <2>3, <2>4, <2>5, <2>6, <2>7 DEF Next, Runs
<1>3. IInv => TypeOK
  BY DEF IInv
<1> QED  BY <1>1, <1>2, <1>3, ReadInvariant, PTL DEF Spec
=============================================================================
