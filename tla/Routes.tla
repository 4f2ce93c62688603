------------------------------- MODULE Routes -------------------------------
(***************************************************************************)
(* Which package a request path names (the route parsers of server.rs, of  *)
(* go.rs, cargo.rs and maven.rs, and the names of artifact.rs).            *)
(*                                                                         *)
(* A text is a sequence of tokens: letters, marks, the escapes "%2F",      *)
(* "%40" and "%41", a "%" that begins no escape, and whole words of a      *)
(* path.  A path is [registry, text], the text being what follows          *)
(* "/<registry>/" before any query.                                        *)
(***************************************************************************)
EXTENDS Selection, Sequences, SequencesExt

CONSTANTS
  Starts,     \* the texts with which paths begin, per registry
  Tokens,     \* the tokens that follow, per registry
  MaxTokens   \* bound on their number

Registries == {"npm", "pypi", "rubygems", "nuget", "go", "cargo", "maven"}

ASSUME RouteConstants ==
  /\ DOMAIN Starts \subseteq Registries
  /\ \A registry \in DOMAIN Starts :
       Starts[registry] \subseteq Seq(STRING) /\ Tokens[registry] \subseteq STRING

VARIABLES path, grown
routeVars == <<path, grown>>

Upper == [letter \in {"a", "b"} |-> IF letter = "a" THEN "A" ELSE "B"]
Lowered == [letter \in {"A", "B"} |-> IF letter = "A" THEN "a" ELSE "b"]
Encoded == [escape \in {"%2F", "%40", "%41"} |->
              IF escape = "%2F" THEN "/" ELSE IF escape = "%40" THEN "@" ELSE "A"]
Replace(map, text) ==
  [i \in DOMAIN text |-> IF text[i] \in DOMAIN map THEN map[text[i]] ELSE text[i]]

Lower(text) == Replace(Lowered, text)
Has(text, token) == token \in Range(text)
Undecodable(text) == Has(text, "%")
Escaped(text) == Range(text) \cap ({"%"} \cup DOMAIN Encoded) # {}
Decode(text) == Replace(Encoded, text)

\* A text cut at every token, at the first, at the last.
Ascending(text, indices) == AtIndices([i \in DOMAIN text |-> i], indices)
Places(text, token) == Ascending(text, {i \in DOMAIN text : text[i] = token})
Split(text, token) ==
  LET cuts == <<0>> \o Places(text, token) \o <<Len(text) + 1>>
  IN [k \in 1..Len(cuts) - 1 |-> SubSeq(text, cuts[k] + 1, cuts[k + 1] - 1)]
Before(text, i) == SubSeq(text, 1, i - 1)
After(text, i) == SubSeq(text, i + 1, Len(text))
Upto(text, token) == Split(text, token)[1]
Join(parts, token) == Tail(FlattenSeq([i \in DOMAIN parts |-> <<token>> \o parts[i]]))
Ends(text, ending) == IsSuffix(ending, text)

-----------------------------------------------------------------------------
(* Names and versions (artifact.rs). *)

Marks == {"-", "_", "."}

\* Runs of marks are one dash, and none at either end.
NormalizePypi(name) ==
  LET mark(i) == name[i] \in Marks
      kept == {i \in DOMAIN name :
                 mark(i) => i > 1 /\ ~mark(i - 1) /\ \E j \in i..Len(name) : ~mark(j)}
  IN AtIndices([i \in DOMAIN name |-> IF mark(i) THEN "-" ELSE Lower(name)[i]], kept)

NormalizeName(registry, name) ==
  CASE registry = "pypi" -> NormalizePypi(name)
    [] registry \in {"cargo", "nuget"} -> Lower(name)
    [] OTHER -> name

Invalid == <<"invalid">>
Digits == {"0", "1"}
Alphanumeric == {"a", "A", "b", "B", "v"} \cup Digits

Number(part) ==
  LET first == SelectInSeq(part, LAMBDA d : d # "0")
  IN IF first = 0 THEN <<"0">> ELSE SubSeq(part, first, Len(part))

\* Three numbers, a fourth unless it is zero, and the prerelease; the build is dropped.
NormalizeNuget(version) ==
  LET plain == Upto(version, "+")
      core == Upto(plain, "-")
      pre == After(plain, Len(core) + 1)
      parts == Split(core, ".")
      padded == [i \in DOMAIN parts |-> Number(parts[i])] \o [i \in 1..3 - Len(parts) |-> <<"0">>]
      numbers == IF Len(padded) = 4 /\ padded[4] = <<"0">> THEN Front(padded) ELSE padded
  IN IF /\ \A p \in Range(parts) : p # <<>> /\ Range(p) \subseteq Digits
        /\ Len(parts) <= 4 /\ (Has(plain, "-") => pre # <<>>)
        /\ Range(pre) \subseteq Alphanumeric \cup {".", "-"}
     THEN Join(numbers, ".") \o IF pre = <<>> THEN <<>> ELSE <<"-">> \o Lower(pre)
     ELSE Invalid

NormalizeVersion(registry, version) ==
  IF registry = "nuget" THEN NormalizeNuget(version) ELSE version

\* As an identity would be parsed if its version began at the first "@".
ParseIdentityAtFirst(registry, text) ==
  LET at == Places(text, "@")[1]
  IN [name |-> NormalizeName(registry, Before(text, at)),
      version |-> NormalizeVersion(registry, After(text, at))]

\* parse_package_identity: the version is what follows the last "@".
ParseIdentity(registry, text) ==
  LET at == Last(Places(text, "@"))
  IN [name |-> NormalizeName(registry, Before(text, at)),
      version |-> NormalizeVersion(registry, After(text, at))]

-----------------------------------------------------------------------------
(* The parsers. *)

\* Where a path leads; "none" also where it names no package.  What the metadata cache may
\* keep is a listing.
Listing(name) == [to |-> "listing", name |-> name, version |-> <<>>, file |-> <<>>]
Delivery(name, version, file) ==
  [to |-> "artifact", name |-> name, version |-> version, file |-> file]
NoRoute == [to |-> "none", name |-> <<>>, version |-> <<>>, file |-> <<>>]

ParseNpm(text) ==
  LET raw == Split(text, "/")
      d == [i \in DOMAIN raw |-> Decode(raw[i])]
      scoped == d[1] # <<>> /\ d[1][1] = "@"
      name(n) == Join(SubSeq(d, 1, n), "/")
      file(n) == Len(d) = n + 2 /\ d[n] # <<>> /\ d[n + 1] = <<"-">> /\ d[n + 2] # <<>>
  IN IF Undecodable(text) THEN NoRoute
     ELSE CASE Len(d) = 1 /\ d[1] # <<>> -> Listing(d[1])
            [] file(1) -> Delivery(d[1], <<>>, d[3])
            [] Len(d) = 2 /\ scoped /\ d[2] # <<>> -> Listing(name(2))
            [] scoped /\ file(2) -> Delivery(name(2), <<>>, d[4])
            [] OTHER -> NoRoute

ParsePypi(text) ==
  LET s == Split(text, "/")
      d == [i \in DOMAIN s |-> Decode(s[i])]
  IN IF Undecodable(text) THEN NoRoute
     ELSE CASE /\ s[1] = <<"simple">> /\ Len(s) > 1 /\ s[2] # <<>>
               /\ \A k \in 3..Len(s) : s[k] = <<>> -> Listing(NormalizePypi(d[2]))
            [] s[1] = <<"packages">> /\ Len(s) = 4 /\ (\A k \in 2..4 : s[k] # <<>>) ->
                 Delivery(NormalizePypi(d[2]), d[3], d[4])
            [] OTHER -> NoRoute

ValidGem(name) ==
  name # <<>> /\ Range(name) \subseteq Alphanumeric \cup Marks /\ name[1] \in Alphanumeric

ParseRubygems(text) ==
  LET s == Split(text, "/")
      d == Decode(After(text, 2))
  IN IF Undecodable(text) \/ Len(s) < 2 THEN NoRoute
     ELSE CASE s[1] = <<"info">> /\ ValidGem(d) -> Listing(d)
            [] s[1] = <<"gems">> /\ ~Has(d, "/") /\ Ends(d, <<".", "gem">>) ->
                 Delivery(<<>>, <<>>, d)
            [] OTHER -> NoRoute

NugetFile(name, version) == name \o <<".">> \o version \o <<".", "nupkg">>

ParseNuget(text) ==
  LET s == Split(text, "/")
      name == Lower(s[2])
      version == NormalizeNuget(s[3])
  IN IF Len(s) < 3 \/ s[2] = <<>> THEN NoRoute
     ELSE CASE s[1] = <<"registration">> /\ Ends(text, <<".", "json">>) -> Listing(name)
            [] s[1] = <<"flatcontainer">> /\ Len(s) = 3 /\ s[3] = <<"index", ".", "json">> ->
                 Listing(name)
            [] /\ s[1] = <<"flatcontainer">> /\ Len(s) = 4 /\ version # Invalid
               /\ s[4] \in {NugetFile(name, version), name \o <<".", "nuspec">>} ->
                 Delivery(name, version, s[4])
            [] OTHER -> NoRoute

\* unescape_module_path: "!" makes the small letter after it a capital one.
GoUnescapes(text) ==
  \A i \in DOMAIN text : text[i] = "!" => i < Len(text) /\ text[i + 1] \in {"a", "b"}
GoUnescape(text) ==
  LET capital(i) == i > 1 /\ text[i - 1] = "!"
  IN AtIndices([i \in DOMAIN text |-> IF capital(i) THEN Upper[text[i]] ELSE text[i]],
               {i \in DOMAIN text : text[i] # "!"})
GoEscape(name) ==
  FlattenSeq([i \in DOMAIN name |->
    IF name[i] \in DOMAIN Lowered THEN <<"!", Lowered[name[i]]>> ELSE <<name[i]>>])

DotDot(text) == \E i \in 1..Len(text) - 1 : text[i] = "." /\ text[i + 1] = "."
ValidModule(name) ==
  \A part \in Range(Split(name, "/")) : part \notin {<<>>, <<".">>} /\ ~DotDot(part)
ValidGoVersion(version) ==
  /\ version # <<>> /\ version[1] = "v" /\ ~DotDot(version)
  /\ ~Has(version, "/") /\ ~Has(version, "!")

\* @latest and an info are a listing of one version.
ParseGo(untrimmed) ==
  LET begin == SelectInSeq(untrimmed, LAMBDA t : t # "/")
      text == IF begin = 0 THEN <<>> ELSE SubSeq(untrimmed, begin, Len(untrimmed))
      ats == Ascending(text, {i \in DOMAIN text : i > 1 /\ text[i] = "@" /\ text[i - 1] = "/"})
      raw == Before(text, ats[1] - 1)
      name == GoUnescape(raw)
      suffix == After(text, ats[1])
      file == After(suffix, 2)
      dots == Places(file, ".")
      version == Before(file, Last(dots))
      ext == After(file, Last(dots))
  IN IF ats = <<>> \/ ~GoUnescapes(raw) \/ ~ValidModule(name) THEN NoRoute
     ELSE CASE suffix \in {<<"latest">>, <<"v", "/", "list">>} -> Listing(name)
            [] /\ IsPrefix(<<"v", "/">>, suffix) /\ dots # <<>>
               /\ ValidGoVersion(version) /\ ext \in {<<"info">>, <<"mod">>, <<"zip">>} ->
                 IF ext = <<"info">> THEN Listing(name) ELSE Delivery(name, version, ext)
            [] OTHER -> NoRoute

ValidCrate(name) == name # <<>> /\ Range(name) \subseteq Alphanumeric \cup {"-", "_"}
SparsePath(crate) ==
  LET n == Lower(crate)
  IN CASE Len(n) \in {1, 2} -> <<IF Len(n) = 1 THEN "1" ELSE "2", "/">> \o n
       [] Len(n) = 3 -> <<"3", "/", n[1], "/">> \o n
       [] Len(n) > 3 -> SubSeq(n, 1, 2) \o <<"/">> \o SubSeq(n, 3, 4) \o <<"/">> \o n

ParseCargo(text) ==
  LET s == Split(text, "/")
      crate == Lower(Last(s))
  IN IF s[1] = <<"crates">>
     THEN IF Len(s) = 4 /\ s[4] = <<"download">> /\ ValidCrate(s[2])
          THEN Delivery(Lower(s[2]), s[3], <<>>) ELSE NoRoute
     ELSE IF ValidCrate(crate) /\ SparsePath(crate) = text THEN Listing(crate) ELSE NoRoute

Document == "maven-metadata.xml"
Checksums == {"md5", "sha1", "sha256", "sha512"}

\* The document that a checksum is of.
MavenDocument(text) ==
  LET n == Len(text)
  IN IF n > 2 /\ text[n - 2] = Document /\ text[n - 1] = "." /\ text[n] \in Checksums
     THEN SubSeq(text, 1, n - 2) ELSE text

MavenName(group, artifact) == Join(group, ".") \o <<":">> \o artifact
Coordinate(part) ==
  part # <<>> /\ Range(part) \subseteq Alphanumeric \cup Marks \cup {"+", "jar", "sha1", Document}
Group(part) == Range(part) \cap {".", "+", Document} = {}

\* parse_release_path: <group>/<artifact>/<version>/<artifact>-<version>[-<classifier>].<ext>
MavenRelease(s) ==
  LET n == Len(s)
      stem == s[n - 2] \o <<"-">> \o s[n - 1]
      rest == After(s[n], Len(stem))
      ext == After(rest, Len(Upto(rest, ".")) + 1)
  IN /\ n >= 4 /\ \A i \in 1..n : Coordinate(s[i])
     /\ \A i \in 1..n - 3 : Group(s[i])
     /\ IsStrictPrefix(stem, s[n]) /\ ext # <<>>
     /\ rest[1] \in {".", "-"} /\ (rest[1] = "-" => rest[2] # ".")

\* A path that ends like a document is one; unless it is the document's own, it is refused
\* later on, and so is a release file that is called like that.
ParseMaven(text) ==
  LET s == Split(text, "/")
      n == Len(s)
      document == MavenDocument(text)
      d == Split(document, "/")
  IN IF Escaped(text) \/ \E i \in 1..n : s[i] \in {<<>>, <<".">>, <<".", ".">>} THEN NoRoute
     ELSE CASE /\ n > 2 /\ Last(d) = <<Document>>
               /\ \A i \in 1..n - 1 : Coordinate(s[i]) /\ (i < n - 1 => Group(s[i])) ->
                 Listing(MavenName(SubSeq(d, 1, n - 2), d[n - 1]))
            [] ~Ends(document, <<Document>>) /\ MavenRelease(s) ->
                 Delivery(MavenName(SubSeq(s, 1, n - 3), s[n - 2]), s[n - 1], s[n])
            [] OTHER -> NoRoute

Dispatch(p) ==
  CASE p.registry = "npm" -> ParseNpm(p.text)
    [] p.registry = "pypi" -> ParsePypi(p.text)
    [] p.registry = "rubygems" -> ParseRubygems(p.text)
    [] p.registry = "nuget" -> ParseNuget(p.text)
    [] p.registry = "go" -> ParseGo(p.text)
    [] p.registry = "cargo" -> ParseCargo(p.text)
    [] p.registry = "maven" -> ParseMaven(p.text)

-----------------------------------------------------------------------------
(* The links that lead back, as the proxy or a client writes them. *)

MavenPath(name) ==
  LET parts == Split(name, ":") IN Replace([dot \in {"."} |-> "/"], parts[1]) \o <<"/">> \o parts[2]

ListingLink(registry, name) ==
  CASE registry = "npm" -> name
    [] registry = "pypi" -> <<"simple", "/">> \o name \o <<"/">>
    [] registry = "rubygems" -> <<"info", "/">> \o name
    [] registry = "nuget" -> <<"registration", "/">> \o name \o <<"/", "index", ".", "json">>
    [] registry = "go" -> GoEscape(name) \o <<"/", "@", "v", "/", "list">>
    [] registry = "cargo" -> SparsePath(name)
    [] registry = "maven" -> MavenPath(name) \o <<"/", Document>>

DownloadLink(registry, r) ==
  CASE registry = "npm" -> r.name \o <<"/", "-", "/">> \o r.file
    [] registry = "pypi" -> Join(<<<<"packages">>, r.name, r.version, r.file>>, "/")
    [] registry = "rubygems" -> <<"gems", "/">> \o r.file
    [] registry = "nuget" -> Join(<<<<"flatcontainer">>, r.name, r.version, r.file>>, "/")
    [] registry = "go" ->
         GoEscape(r.name) \o <<"/", "@", "v", "/">> \o r.version \o <<".">> \o r.file
    [] registry = "cargo" -> Join(<<<<"crates">>, r.name, r.version, <<"download">>>>, "/")
    [] registry = "maven" -> Join(<<MavenPath(r.name), r.version, r.file>>, "/")

-----------------------------------------------------------------------------
(* Paths, token by token. *)

Begin == \E registry \in DOMAIN Starts : \E text \in Starts[registry] :
           path = [registry |-> registry, text |-> text]

RouteInit == Begin /\ grown = 0

Grow ==
  /\ grown < MaxTokens
  /\ \E token \in Tokens[path.registry] : path' = [path EXCEPT !.text = Append(@, token)]
  /\ grown' = grown + 1

Another ==
  /\ grown > 0
  /\ path' = [path EXCEPT !.text = SubSeq(@, 1, Len(@) - grown)] /\ grown' = 0

RouteNext == Grow \/ Another

RouteSpec == RouteInit /\ [][RouteNext]_routeVars

\* What a registry lets a package be called, and a version or a file.
Plain(text) == text # <<>> /\ Range(text) \subseteq Alphanumeric \cup Marks
Legal(registry, name) ==
  LET parts == Split(name, "/")
  IN CASE registry = "npm" ->
            \/ Len(parts) = 1 /\ Plain(name)
            \/ /\ Len(parts) = 2 /\ Plain(parts[2])
               /\ parts[1] # <<>> /\ parts[1][1] = "@" /\ Plain(Tail(parts[1]))
       [] registry = "go" -> \A p \in Range(parts) : Plain(p)
       [] registry = "rubygems" -> name = <<>> \/ ValidGem(name)
       [] registry = "maven" -> TRUE
       [] OTHER -> Plain(name)
LegalFile(text) ==
  Range(text) \subseteq Alphanumeric \cup Marks \cup {"gem", "nupkg", "nuspec", "mod", "jar", "+"}

\* The links written for what a path leads to.
LeadsBack(registry, route) ==
  LET name == route.name
      version == IF route.version = <<>> THEN NormalizeVersion(registry, <<"1">>) ELSE route.version
      Leads(text) == Dispatch([registry |-> registry, text |-> text])
  IN route.to # "none" /\ Legal(registry, name) /\ LegalFile(route.version) /\ LegalFile(route.file)
     => /\ NormalizeName(registry, name) = name
        /\ name # <<>> => Leads(ListingLink(registry, name)) = Listing(name)
        /\ route.to = "artifact" => Leads(DownloadLink(registry, route)) = route
        /\ name # <<>> => ParseIdentity(registry, name \o <<"@">> \o version)
                            = [name |-> name, version |-> version]

\* However a client spells a path, the package it is routed to has its canonical name, so that
\* the lists of the configuration apply to it; the links that are written for that package
\* lead back to the same package, version and file; and the check command understands the
\* identity as the same package and version (the parsers of server.rs 1122-1356 and of go.rs,
\* cargo.rs and maven.rs against the link writers and parse_package_identity).
RoutesAgree == LeadsBack(path.registry, Dispatch(path))
=============================================================================
