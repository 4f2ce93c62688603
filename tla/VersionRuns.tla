----------------------------- MODULE VersionRuns ----------------------------
(***************************************************************************)
(* Versions of one registry, three at a time, as range evaluation and the  *)
(* sorting of listings compare them.                                       *)
(***************************************************************************)
EXTENDS VersionOrder

CONSTANTS NugetVersions, GemVersions, MavenVersions   \* parsed versions

Segments == [kind : {"number", "word"}, val : Nat]

\* A word with the rank of the empty one, or of a number among words, is none.
MavenValues ==
  [kind : {"number"}, val : Nat] \cup [kind : {"word"}, val : Nat \ {5, 7}] \cup {Empty}
MavenTokens(prefixes) == [prefix : prefixes, value : MavenValues, null : {FALSE}]

\* What the parsers return.
ASSUME VersionConstants ==
  /\ \A v \in NugetVersions :
       /\ v.core \in Seq(Nat) /\ Len(v.core) \in 1..4 /\ v.pre \in Seq(Segments)
  /\ GemVersions \subseteq Seq(Segments)
  /\ \A v \in MavenVersions :
       /\ v \in Seq(MavenTokens({"", "-", "."})) /\ v # <<>>
       /\ \A i \in DOMAIN v : v[i].prefix = "" <=> i = 1

VARIABLES family, sample
orderVars == <<family, sample>>

Families == {"nuget", "gem", "maven"}
Samples(f) ==
  CASE f = "nuget" -> NugetVersions [] f = "gem" -> GemVersions [] f = "maven" -> MavenVersions
Order(f, a, b) ==
  CASE f = "nuget" -> NugetOrder(a, b) [] f = "gem" -> GemOrder(a, b)
    [] f = "maven" -> MavenOrder(a, b)

OrderInit == family \in Families /\ sample = <<>>

TakeVersion ==
  /\ Len(sample) < 3
  /\ \E v \in Samples(family) : sample' = Append(sample, v)
  /\ UNCHANGED family
TakeOthers == sample # <<>> /\ sample' = <<>> /\ UNCHANGED family

OrderNext == TakeVersion \/ TakeOthers

OrderSpec == OrderInit /\ [][OrderNext]_orderVars

-----------------------------------------------------------------------------
PaddingEquals(token) == token.value = NullToken(token).value

\* Trimmed Maven versions in which dots are followed by numbers, or by known words if these do
\* not follow a token that padding equals.  On others the order is not transitive:
\* 1.foo < 1-alpha < 1 < 1.foo and 1-foo < 1.0.alpha < 1 < 1-foo.
Orderly(tokens) ==
  \A i \in 2..Len(tokens) : tokens[i].prefix = "." =>
    \/ tokens[i].value.kind = "number"
    \/ /\ tokens[i].value.kind = "word" /\ tokens[i].value.val <= Sp.val
       /\ i > 2 => ~PaddingEquals(tokens[i - 1])

AllOrderly == family = "maven" => \A i \in DOMAIN sample : Orderly(MavenTrimmed(sample[i]))

\* Comparing the other way round gives the opposite, versions that compare equal compare alike
\* with every other, and two comparisons decide the third: for all versions of NuGet and
\* RubyGems, for Maven versions that are orderly (compare_nuget_version of malicious.rs,
\* compare_versions of rubygems.rs and maven.rs).
VersionsCompareConsistently ==
  Len(sample) = 3 =>
    LET order(i, j) == Order(family, sample[i], sample[j])
    IN /\ order(1, 1) = 0 /\ order(1, 2) = -order(2, 1)
       /\ order(1, 2) = 0 => order(1, 3) = order(2, 3)
       /\ AllOrderly /\ order(1, 2) <= 0 /\ order(2, 3) <= 0 => order(1, 3) <= 0

\* What docs/internal/goal-14-maven-java-support.md:29 and CHANGELOG.md:105 say of Maven
\* versions: they are ordered, so of three the first is not after the last when neither is
\* after the next (compare_versions, by which maven.rs:520 sorts a listing).
MavenVersionsAreOrdered ==
  family = "maven" /\ Len(sample) = 3 =>
    LET order(i, j) == MavenOrder(sample[i], sample[j])
    IN order(1, 2) <= 0 /\ order(2, 3) <= 0 => order(1, 3) <= 0
=============================================================================
