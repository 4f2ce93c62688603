----------------------------- MODULE PolicyRuns -----------------------------
(***************************************************************************)
(* One package under one policy while advisories about it come and go and  *)
(* time passes: what policy.rs decides from what malicious.rs answers.     *)
(* Its listing has the artifacts in Artifacts.                             *)
(***************************************************************************)
EXTENDS AdvisoryEvaluation

CONSTANTS Policies,         \* the policies a proxy may be configured with
          Advisories,   \* the documents an ecosystem may publish
          Artifacts,    \* the artifacts of the package
          LastTime      \* bound on the clock

\* A CVSS base score is at most 10; a publication time or a minimum age is not negative.
ASSUME PolicyConstants ==
  /\ \A p \in Policies : p.minimumAge \in Nat /\ p.threshold \in Int
  /\ \A doc \in Advisories : \A i \in DOMAIN doc.affected :
       doc.affected[i].severity \in Malformed..10
  /\ Len(Artifacts) \in Nat /\ DOMAIN Artifacts = 1..Len(Artifacts)
  /\ \A i \in DOMAIN Artifacts : Artifacts[i].published \in Nat \cup {Unknown}
  /\ LastTime \in Nat

VARIABLES policy, docs, time
policyVars == <<policy, docs, time>>

PolicyInit == policy \in Policies /\ docs = {} /\ time = 1

\* replace_advisory in a committed sync.
Publish(doc) == doc \notin docs /\ docs' = docs \cup {doc} /\ UNCHANGED <<policy, time>>
Withdraw(doc) == doc \in docs /\ docs' = docs \ {doc} /\ UNCHANGED <<policy, time>>
TimePasses == time < LastTime /\ time' = time + 1 /\ UNCHANGED <<policy, docs>>

PolicyNext == (\E doc \in Advisories : Publish(doc) \/ Withdraw(doc)) \/ TimePasses

PolicySpec == PolicyInit /\ [][PolicyNext]_policyVars

-----------------------------------------------------------------------------
\* The decisions of a listing, and of one artifact by itself, as the proxy takes them now.
Versions(artifacts) == [i \in DOMAIN artifacts |-> artifacts[i].version]
ListedAt(published, t) ==
  EvaluateArtifacts(policy, Artifacts, t,
                    CheckMany(Stored(published), Versions(Checked(policy, Artifacts))))
Listed == ListedAt(docs, time)
Alone(a) == Evaluate(policy, a, time, Check(Stored(docs), a.version))

\* Until when a cached listing may be served, as far as its decisions go.
ListedUntil == Earliest({ValidUntil(decision) : decision \in Range(Listed)})

\* A cached listing is right until the instant that its metadata names: while the store stays
\* as it is, no decision changes before it (policy.rs 11-58, used by metadata_cache.rs).
HoldsUntilValid ==
  docs' = docs /\ (ListedUntil = Unknown \/ time' < ListedUntil) =>
    ListedAt(docs', time') = Listed
DecisionHoldsUntilValid == [][HoldsUntilValid]_policyVars

\* Under malicious.on_error = block, more advisories never let an artifact through that was
\* blocked before, whatever scores, ranges and errors they bring (policy.rs 124-292).
NeverUnblocks ==
  policy.onErrorBlock /\ docs \subseteq docs' /\ time' = time =>
    LET before == Listed
        after == ListedAt(docs', time')
    IN \A i \in DOMAIN Artifacts : after[i].allowed => before[i].allowed
PublishNeverUnblocks == [][NeverUnblocks]_policyVars

\* An artifact is decided alike in the batch of a listing and by itself when it is downloaded,
\* unless the range of an advisory cannot be evaluated for another version of the batch,
\* which fails the batch and not the download (check_many, malicious.rs 297-361).
BatchAgreesWithSingle ==
  LET checked == Checked(policy, Artifacts)
      listed == Listed
  IN (\A i \in DOMAIN checked : ~RangeFails(Stored(docs), checked[i].version)) =>
     \A i \in DOMAIN Artifacts : listed[i] = Alone(Artifacts[i])

\* The gates that an artifact must pass, whatever the order in which the code asks them, and
\* who may lift them: its own allowlist entry lifts those that it names and no other, and
\* nothing lifts the blocklist (docs/policy.md 94-175, policy.rs 124-292).
Flagged(a) ==
  LET occurrences == Stored(docs)
  IN \/ RangeFails(occurrences, a.version) /\ policy.onErrorBlock
     \/ /\ ~RangeFails(occurrences, a.version)
        /\ \E h \in Hits(occurrences, a.version) :
             \/ h.mal /\ policy.blockMalicious
             \/ h.failed /\ policy.onErrorBlock
             \/ /\ ~h.mal /\ ~h.failed /\ policy.blockVulnerabilities
                /\ h.score >= policy.threshold \/ policy.threshold = 0
ChecksOsv == policy.blockMalicious \/ policy.blockVulnerabilities
Undatable(a) == a.published = Unknown /\ policy.missingBlock
EntryFor(a) == FindAllowlistEntry(policy, a)
EntriesLiftOnlyTheirGates ==
  \A i \in DOMAIN Artifacts :
    LET a == Artifacts[i]
    IN Alone(a).allowed <=>
         /\ ~Blocklisted(policy, a)
         /\ ChecksOsv /\ Flagged(a) => EntryFor(a).bypassOsv
         /\ Undatable(a) \/ TooYoung(policy, a, time) => EntryFor(a).bypassAge

\* docs/policy.md 137: "`allow` permits that error but does not override a valid matching
\* finding".  A finding is valid when an exact version or a range that can be evaluated
\* matches, and it blocks by itself.
ValidFindings(a) ==
  {f \in ExactHits(Stored(docs), a.version) \cup RangeHits(Stored(docs), a.version) : ~f.failed}
AllowKeepsValidFindings ==
  ~policy.onErrorBlock =>
    \A i \in DOMAIN Artifacts :
      LET a == Artifacts[i]
          valid == ValidFindings(a)
      IN ShouldCheckOsv(policy, a)
         /\ BlockingMalicious(policy, valid) \cup BlockingVulnerabilities(policy, valid) # {}
         => ~Alone(a).allowed
=============================================================================
