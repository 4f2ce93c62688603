--------------------------- MODULE PolicyDecision ---------------------------
(***************************************************************************)
(* The policy engine of src/src/policy.rs: what is decided about one       *)
(* artifact from the configuration, the clock and what the OSV store says  *)
(* of it, how long a decision may be cached, and how a listing's artifacts *)
(* are decided in one batch.                                               *)
(*                                                                         *)
(* The package is fixed, so an artifact is a version with the time it was  *)
(* published.  A finding is an advisory that matches the version: `mal`    *)
(* tells MAL- identifiers from others, `score` is the effective CVSS base  *)
(* score and `failed` says that its evaluation went wrong.                 *)
(***************************************************************************)
EXTENDS Selection, Sequences, SequencesExt

CONSTANT AnyVersion  \* "*", the version of a blocklist entry that means all of them

Unknown == -1        \* no publication time, no score, no rule, no expiry

NoEntry == [version |-> AnyVersion, bypassOsv |-> FALSE, bypassAge |-> FALSE]

\* The first entry for exactly this version.
FindAllowlistEntry(policy, a) ==
  LET i == SelectInSeq(policy.allowlist, LAMBDA e : e.version = a.version)
  IN IF i = 0 THEN NoEntry ELSE policy.allowlist[i]

Allowlisted(policy, a) == FindAllowlistEntry(policy, a) # NoEntry

Blocklisted(policy, a) == {AnyVersion, a.version} \cap policy.blocklist # {}

ShouldCheckOsv(policy, a) ==
  /\ policy.blockMalicious \/ policy.blockVulnerabilities
  /\ ~FindAllowlistEntry(policy, a).bypassOsv

-----------------------------------------------------------------------------
(* Findings that block. *)

BlockingMalicious(policy, hits) == {h \in hits : policy.blockMalicious /\ h.mal}

\* An unscored finding counts only while the threshold is zero.
BlockingVulnerabilities(policy, hits) ==
  {h \in hits : /\ policy.blockVulnerabilities /\ ~h.mal /\ ~h.failed
                /\ policy.threshold = 0 \/ h.score >= policy.threshold}

\* The finding a decision names: the highest score, then the lowest identifier.
Worst(hits) ==
  CHOOSE h \in hits : \A g \in hits : h.score > g.score \/ (h.score = g.score /\ h.id <= g.id)
FirstOf(hits) == CHOOSE h \in hits : \A g \in hits : h.id <= g.id

-----------------------------------------------------------------------------
(* evaluate_with_malicious_result.  `osv` is what the store said of the artifact:
   findings, an error, or nothing at all. *)

Findings(hits) == [kind |-> "found", hits |-> hits]
CheckFailed == [kind |-> "error", hits |-> {}]
NotChecked == [kind |-> "missing", hits |-> {}]

Blocked(reason, rule, eligible) ==
  [allowed |-> FALSE, reason |-> reason, rule |-> rule, eligible |-> eligible]
Allow(reason) == [allowed |-> TRUE, reason |-> reason, rule |-> Unknown, eligible |-> Unknown]
Pass == Allow("pass")

OsvErrorReason(policy) == IF policy.blockMalicious THEN "malicious" ELSE "vulnerable"

\* As the findings would decide if a finding that cannot be scored were passed over.
OsvDecisionFailureless(policy, osv) ==
  LET blocking == BlockingMalicious(policy, osv.hits) \cup BlockingVulnerabilities(policy, osv.hits)
  IN IF blocking = {} THEN Pass ELSE Blocked("malicious", FirstOf(blocking).id, Unknown)

\* What the findings decide; Pass when none of them blocks.
OsvDecision(policy, osv) ==
  LET malicious == BlockingMalicious(policy, osv.hits)
      vulnerable == BlockingVulnerabilities(policy, osv.hits)
      failed == {h \in osv.hits : h.failed}
  IN CASE malicious # {} -> Blocked("malicious", FirstOf(malicious).id, Unknown)
       [] malicious = {} /\ vulnerable # {} ->
            Blocked("vulnerable", Worst(vulnerable).id, Unknown)
       [] malicious \cup vulnerable = {} /\ failed # {} /\ policy.onErrorBlock ->
            Blocked("vulnerable", FirstOf(failed).id, Unknown)
       [] malicious \cup vulnerable = {} /\ osv.kind # "found" /\ policy.onErrorBlock ->
            Blocked(OsvErrorReason(policy), Unknown, Unknown)
       [] OTHER -> Pass

EligibleAt(policy, a) == a.published + policy.minimumAge
TooYoung(policy, a, now) == a.published # Unknown /\ EligibleAt(policy, a) > now

\* The age gate, for an artifact whose allowlist entry does not lift it.
AgeDecision(policy, a, now) ==
  IF TooYoung(policy, a, now) THEN Blocked("too_young", Unknown, EligibleAt(policy, a))
  ELSE IF a.published = Unknown /\ policy.missingBlock
       THEN Blocked("missing_publish_time", Unknown, Unknown)
       ELSE Allow(IF Allowlisted(policy, a) THEN "allowlisted" ELSE "allowed")

\* As an artifact would be decided if its allowlist entry were looked at first.
ListDecisionAllowlistFirst(policy, a, now) ==
  IF FindAllowlistEntry(policy, a).bypassAge THEN Allow("allowlisted")
  ELSE IF Blocklisted(policy, a) THEN Blocked("manually_blocked", Unknown, Unknown)
       ELSE AgeDecision(policy, a, now)

ListDecision(policy, a, now) ==
  IF Blocklisted(policy, a) THEN Blocked("manually_blocked", Unknown, Unknown)
  ELSE IF FindAllowlistEntry(policy, a).bypassAge THEN Allow("allowlisted")
       ELSE AgeDecision(policy, a, now)

\* As an artifact would be decided if the store were always asked.
EvaluateUnchecked(policy, a, now, osv) ==
  IF OsvDecision(policy, osv) # Pass THEN OsvDecision(policy, osv) ELSE ListDecision(policy, a, now)

Evaluate(policy, a, now, osv) ==
  LET byOsv == IF ShouldCheckOsv(policy, a) THEN OsvDecision(policy, osv) ELSE Pass
  IN IF byOsv # Pass THEN byOsv ELSE ListDecision(policy, a, now)

-----------------------------------------------------------------------------
(* What evaluations leave in the task-local cache metadata: whether the response may be
   stored, and the first instant at which one of its decisions lapses. *)

Cacheable(policy, a, osv) == ShouldCheckOsv(policy, a) => osv.kind = "found"

ValidUntil(decision) == decision.eligible

\* As an entry would be kept if it lasted until the last of its decisions lapses.
LastLapse(times) ==
  IF times \ {Unknown} = {} THEN Unknown
  ELSE CHOOSE t \in times \ {Unknown} : \A u \in times \ {Unknown} : t >= u

Earliest(times) ==
  IF times \ {Unknown} = {} THEN Unknown
  ELSE CHOOSE t \in times \ {Unknown} : \A u \in times \ {Unknown} : t <= u

-----------------------------------------------------------------------------
(* The batch of a listing, as every adapter makes it: only the artifacts that are to be
   checked are sent to check_many, its results are matched to them by position, and an
   error or a batch of the wrong length is an error for each of them. *)

Indices(policy, artifacts) ==
  {i \in DOMAIN artifacts : ShouldCheckOsv(policy, artifacts[i])}

Checked(policy, artifacts) == AtIndices(artifacts, Indices(policy, artifacts))

\* As the results would be matched if they were taken from the end of the answer.
BatchIndexFromEnd(policy, artifacts, i) ==
  Cardinality({j \in Indices(policy, artifacts) : j >= i})

BatchIndex(policy, artifacts, i) ==
  Cardinality({j \in Indices(policy, artifacts) : j <= i})

\* `answer` is what check_many returned for Checked(policy, artifacts).
BatchResult(policy, artifacts, answer, i) ==
  IF i \notin Indices(policy, artifacts) THEN NotChecked
  ELSE IF ~answer.ok \/ DOMAIN answer.results # DOMAIN Checked(policy, artifacts)
       THEN CheckFailed
       ELSE Findings(answer.results[BatchIndex(policy, artifacts, i)])

EvaluateArtifacts(policy, artifacts, now, answer) ==
  [i \in DOMAIN artifacts |->
     Evaluate(policy, artifacts[i], now, BatchResult(policy, artifacts, answer, i))]
=============================================================================
