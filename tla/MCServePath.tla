---------------------------- MODULE MCServePath -----------------------------
(***************************************************************************)
(* Two versions per package, V(1) old and V(2) new, in each registry's own *)
(* spelling; documents that are in order, and documents that are not.      *)
(***************************************************************************)
EXTENDS ServePath

MCRegistries == {"npm", "pypi", "cargo", "go", "nuget", "rubygems", "maven"}

Old == 0     \* published long enough ago
New == 1     \* old enough at time 2

V(r, n) ==
  CASE r = "npm" -> IF n = 1 THEN <<"1">> ELSE <<"2", "rc">>
    [] r = "pypi" -> IF n = 1 THEN <<<<"1">>>> ELSE <<<<"2">>, <<"rc">>>>
    [] r = "go" -> [n |-> n, upper |-> FALSE]
    [] r = "maven" -> [n |-> n, snapshot |-> FALSE]
    [] r = "rubygems" -> <<"g", IF n = 1 THEN "1" ELSE "2">>
    [] OTHER -> n

MCPolicies(r) ==
  {[blockMalicious |-> TRUE, blockVulnerabilities |-> FALSE, threshold |-> 0,
    onErrorBlock |-> onError, minimumAge |-> 1, missingBlock |-> onError,
    allowlist |-> lists.allow, blocklist |-> lists.block] :
     onError \in BOOLEAN,
     lists \in {[allow |-> <<>>, block |-> {}],
                [allow |-> <<[version |-> V(r, 2), bypassOsv |-> TRUE, bypassAge |-> TRUE]>>,
                 block |-> {V(r, 1)}]}}

MCStores(r) == {[ok |-> TRUE, bad |-> {}], [ok |-> TRUE, bad |-> {V(r, 2)}],
                [ok |-> FALSE, bad |-> {}]}

-----------------------------------------------------------------------------
NpmEntry(n, tarball) ==
  [version |-> V("npm", n), published |-> IF n = 1 THEN Old ELSE New, dist |-> TRUE,
   tarball |-> tarball]
NpmFile(n) == <<"a", "b">> \o V("npm", n)
NpmDoc(versions) ==
  [name |-> <<"a", "b">>, valid |-> TRUE, versions |-> versions,
   tags |-> {e.version : e \in Range(versions)}]
NpmDocs ==
  {Reply(NpmDoc(<<NpmEntry(1, NpmFile(1)), NpmEntry(2, NpmFile(2))>>)),
   Reply(NpmDoc(<<NpmEntry(1, NpmFile(1)), NpmEntry(2, <<"odd", "2", "rc">>)>>)),
   Reply(NpmDoc(<<NpmEntry(1, NoTarball)>>)), Refusal(500)}

PypiFileDoc(ext, parts, n) ==
  [ext |-> ext, parts |-> parts, published |-> IF n = 1 THEN Old ELSE New,
   version |-> V("pypi", n)]
PypiSdist(n) == PypiFileDoc("tar.gz", <<<<"a">>, <<"b">>>> \o V("pypi", n), n)
PypiLateSdist == [PypiSdist(1) EXCEPT !.published = New]
PypiWheel == PypiFileDoc("whl", <<<<"a", "b">>, <<"1">>, <<"any">>>>, 1)
PypiDoc(files) == Reply([name |-> <<"a", "b">>, files |-> files])
PypiDocs ==
  {PypiDoc(<<PypiWheel, PypiSdist(1), PypiSdist(2)>>),
   PypiDoc(<<PypiLateSdist, PypiWheel>>),
   PypiDoc(<<PypiSdist(1), PypiFileDoc("exe", <<<<"a">>>>, 2)>>), Absent}

CargoLine(n, consistent) ==
  [parses |-> TRUE, consistent |-> consistent, version |-> n,
   published |-> IF n = 1 THEN Unknown ELSE New]
CargoDocs ==
  {Reply(<<CargoLine(1, TRUE), CargoLine(2, TRUE)>>),
   Reply(<<CargoLine(1, TRUE), CargoLine(2, FALSE)>>), Reply(<<>>)}

GoInfo(n) == Reply([version |-> V("go", n), published |-> IF n = 1 THEN Old ELSE New])
GoUpper == [n |-> 3, upper |-> TRUE]
GoDocs ==
  {(Index :> Reply(<<V("go", 2), V("go", 1)>>)) @@ (Part(V("go", 1)) :> GoInfo(1))
     @@ (Part(V("go", 2)) :> second) @@ (Part(Latest) :> GoInfo(2)) :
     second \in {GoInfo(2), GoInfo(1), Refusal(500)}}
  \cup {(Index :> Reply(<<V("go", 1), GoUpper>>)) @@ (Part(V("go", 1)) :> GoInfo(1))
          @@ (Part(GoUpper) :> Reply([version |-> GoUpper, published |-> Old])),
        (Index :> Reply(<<V("go", 1), V("go", 2), GoUpper>>))}

NugetLeaf(n, catalog, content) ==
  [catalog |-> catalog, valid |-> TRUE, version |-> n,
   published |-> IF n = 1 THEN Old ELSE New, content |-> content]
NugetPage(inline, leaves) == [inline |-> inline, leaves |-> leaves]
NugetFirst == NugetPage(TRUE, <<NugetLeaf(1, "object", 1)>>)
NugetIndex(inline, leaves) == Index :> Reply(<<NugetFirst, NugetPage(inline, leaves)>>)
NugetDocs ==
  {NugetIndex(TRUE, <<NugetLeaf(2, "object", 2)>>), NugetIndex(TRUE, <<NugetLeaf(2, "none", 2)>>),
   NugetIndex(TRUE, <<NugetLeaf(2, "object", NoLink)>>), NugetIndex(FALSE, <<>>),
   Index :> Reply(<<NugetFirst, NugetPage(FALSE, <<>>), NugetPage(FALSE, <<>>)>>),
   NugetIndex(FALSE, <<>>) @@ (Part(2) :> Reply(<<NugetLeaf(2, "object", 2)>>))}

GemLine(number, platform) ==
  [number |-> number, platform |-> platform, sha |-> "s",
   created |-> IF number = "1" THEN Old ELSE New]
GemVersion(number, platform, yanked) == [yanked |-> yanked] @@ GemLine(number, platform)
GemDoc(lines, versions) ==
  (Index :> Reply(lines)) @@ (GemPart(GemName) :> Reply(versions))
GemPair == <<GemVersion("1", <<"x">>, FALSE), GemVersion("2", <<>>, FALSE)>>
GemOk == GemDoc(<<GemLine("1", <<"x">>), GemLine("2", <<>>)>>, GemPair)
GemDocs ==
  {GemOk, GemDoc(<<GemLine("2", <<>>)>>, GemPair \o <<GemVersion("2", <<>>, FALSE)>>),
   GemDoc(<<GemLine("2", <<"x", "y">>)>>,
          <<GemVersion("1", <<"x">>, TRUE), GemVersion("2", <<"x", "y">>, FALSE)>>),
   GemOk @@ (GemPart(<<"g", "1">>) :> Reply(<<GemVersion("x", <<>>, FALSE)>>)),
   GemOk @@ (GemPart(<<"g", "1">>) :> Refusal(500))}

MavenPom(n) == Reply([consistent |-> TRUE, published |-> IF n = 1 THEN Old ELSE New])
MavenDoc(versions, poms) ==
  (Index :> Reply([consistent |-> TRUE, versions |-> versions])) @@ poms
MavenBoth == (Part(V("maven", 1)) :> MavenPom(1)) @@ (Part(V("maven", 2)) :> MavenPom(2))
MavenPair == <<V("maven", 2), V("maven", 1)>>
MavenDocs ==
  {MavenDoc(MavenPair, MavenBoth), MavenDoc(MavenPair, Part(V("maven", 2)) :> MavenPom(2)),
   MavenDoc(MavenPair, (Part(V("maven", 2)) :> Refusal(410)) @@ MavenBoth),
   MavenDoc(MavenPair \o <<[n |-> 3, snapshot |-> TRUE]>>, MavenBoth)}

MCDocuments(r) ==
  CASE r = "npm" -> {Index :> d : d \in NpmDocs}
    [] r = "pypi" -> {Index :> d : d \in PypiDocs}
    [] r = "cargo" -> {Index :> d : d \in CargoDocs}
    [] r = "go" -> GoDocs
    [] r = "nuget" -> NugetDocs
    [] r = "rubygems" -> GemDocs
    [] r = "maven" -> MavenDocs

MCLinks(r) ==
  CASE r = "npm" -> {NpmFile(1), NpmFile(2), <<"odd", "2", "rc">>}
    [] r = "pypi" -> {[version |-> <<v>>, file |-> PypiFile(f)] :
                        v \in {<<"1">>, <<"rc">>}, f \in {PypiWheel, PypiSdist(2)}}
                     \cup {[version |-> V("pypi", 2), file |-> PypiFile(PypiSdist(2))]}
    [] r = "cargo" -> {1, 2}
    [] r = "go" -> {V("go", 1), V("go", 2), GoUpper, Latest}
    [] r = "nuget" -> {1, 2}
    [] r = "rubygems" -> {<<"g", "1", "x">>, <<"g", "2">>, <<"g", "2", "x", "y">>}
    [] r = "maven" -> {V("maven", 1), V("maven", 2), [n |-> 3, snapshot |-> TRUE]}

MCVersions(r) == {V(r, 1), V(r, 2)}
=============================================================================
