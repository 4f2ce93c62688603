----------------------------- MODULE ServePath ------------------------------
(***************************************************************************)
(* One client request after another on the way through the proxy: the      *)
(* parts of upstream metadata are fetched one by one, the artifacts built  *)
(* from them are decided, and a filtered listing or the bytes of one       *)
(* artifact are delivered (server.rs and the registry adapters).  Or the   *)
(* check command asks about a version from the same upstream, store and    *)
(* configuration (cli.rs).  Upstream, the OSV store and the clock go on    *)
(* meanwhile.                                                              *)
(*                                                                         *)
(* `history` are the worlds, upstream documents and store, since the last  *)
(* listing was asked for; the last of them is the present one.             *)
(***************************************************************************)
EXTENDS NpmAdapter, PypiAdapter, CargoAdapter, GoAdapter, NugetAdapter,
        RubygemsAdapter, MavenAdapter, ConditionalResponse

CONSTANTS
  Registries,    \* the registries that clients use
  Policies(_),   \* the policies a proxy may be configured with
  Documents(_),  \* the states a registry may be in, functions from parts to replies
  Stores(_),     \* what the OSV store may say: [ok, bad], the malicious versions
  Links(_),      \* the download links that clients ask for
  Versions(_),   \* the versions that are checked
  MaxWorlds,     \* bound on the worlds between two listings
  MaxTime        \* bound on the clock

\* The parts of a package's metadata.
Index == <<"index">>
Part(of) == <<"part", of>>
GemPart(name) == <<"gem", name>>

-----------------------------------------------------------------------------
(* What is taken for granted of upstream documents. *)

\* A PyPI file that has a version is named after its project and its version: a wheel by its
\* first two pieces, a source distribution by all of them.
NamedAfterRelease(name, file) ==
  LET parts == file.parts
      n == Len(parts)
      upTo(k) == FlattenSeq(SubSeq(parts, 1, k))
  IN /\ parts \in Seq(Range(parts)) /\ file.version # NoLink
     /\ file.ext = "whl" /\ parts[1] = name /\ n > 1 => file.version = <<parts[2]>>
     /\ file.ext \in Sdist =>
          \E k \in 1..n - 1 : /\ upTo(k) = name /\ \A i \in 1..k - 1 : upTo(i) # name
                             /\ file.version = SubSeq(parts, k + 1, n)

\* The lists of an upstream document are finite and its times are numbers, and PyPI names
\* files after their releases.
WellFormed(r, part, body) ==
  LET list(s) == s \in Seq(Range(s))
      dated(s) == list(s) /\ \A x \in Range(s) : x.published \in Int
  IN CASE r = "npm" -> /\ dated(body.versions) /\ list(body.name)
                       /\ \A e \in Range(body.versions) : list(e.version) /\ e.version \notin {<<>>, NoLink}
       [] r = "pypi" ->
            dated(body.files) /\ \A f \in Range(body.files) : NamedAfterRelease(body.name, f)
       [] r = "cargo" -> dated(body)
       [] r = "go" -> IF part = Index THEN list(body) /\ Latest \notin Range(body)
                      ELSE body.published \in Int /\ body.version # Latest
       [] r = "nuget" -> IF part = Index
                         THEN list(body) /\ \A g \in Range(body) : g.inline => dated(g.leaves)
                         ELSE dated(body)
       [] r = "rubygems" ->
            list(body) /\ \A v \in Range(body) : list(v.platform) /\ v.created \in Int
       [] r = "maven" -> IF part = Index THEN list(body.versions) ELSE body.published \in Int

LeavesOf(part, body) ==
  IF part = Index THEN UNION {Range(g.leaves) : g \in {h \in Range(body) : h.inline}}
  ELSE Range(body)

\* A registry has one entry for a version and one file under a name, versions are told apart
\* by their numbers, and Go's info of a version is the one of the version that it names.
Unambiguous(r, docs) ==
  LET there == {p \in DOMAIN docs : docs[p].status = 200}
      listed == docs[Index].body
      numbered(versions) == /\ \A v \in versions : v.n \in Nat
                            /\ \A v, w \in versions : v.n = w.n => v = w
      infos == there \ {Index, Part(Latest)}
  IN CASE r = "npm" -> Index \in there =>
            \A e, f \in Range(listed.versions) :
              e.version = f.version \/ (e.tarball = f.tarball /\ e.tarball # NoTarball) => e = f
       [] r = "pypi" -> Index \in there =>
            \A f, g \in Range(listed.files) : PypiFile(f) = PypiFile(g) => f = g
       [] r = "cargo" -> Index \in there =>
            \A l, m \in Range(listed) : l.version = m.version => l = m
       [] r = "go" ->
            /\ numbered({docs[p].body.version : p \in infos})
            /\ \A p \in infos : LET own == Part(docs[p].body.version)
                                 IN own \in infos /\ docs[own] = docs[p]
       [] r = "nuget" ->
            \A p, q \in there :
              \A l \in LeavesOf(p, docs[p].body), m \in LeavesOf(q, docs[q].body) :
                l.version = m.version => l = m
       [] r = "rubygems" -> TRUE
       [] r = "maven" -> Index \in there => numbered(Range(listed.versions))

\* The versions that are checked are versions of the package: registries may know of others,
\* as Go does of every commit, which no listing shows or hides.
ChecksListed(r, docs) ==
  r \in {"go", "maven"} =>
    \A v \in Versions(r) :
      /\ Part(v) # Part(Latest)
      /\ {Index, Part(v)} \subseteq {p \in DOMAIN docs : docs[p].status = 200} =>
           v \in IF r = "go" THEN Range(docs[Index].body) ELSE Range(docs[Index].body.versions)

ASSUME DocumentsAreWellFormed ==
  /\ Registries \subseteq {"npm", "pypi", "cargo", "go", "nuget", "rubygems", "maven"}
  /\ \A r \in Registries : \A docs \in Documents(r) :
       /\ \A part \in DOMAIN docs :
            docs[part].status = 200 => WellFormed(r, part, docs[part].body)
       /\ Unambiguous(r, docs) /\ ChecksListed(r, docs)

ASSUME AgesAreNumbers == \A r \in Registries : \A p \in Policies(r) : p.minimumAge \in Int

VARIABLES registry, policy, now, history, request, listing, copy, reply
vars == <<registry, policy, now, history, request, listing, copy, reply>>

Present == Last(history)
Upstream(part) == IF part \in DOMAIN Present.docs THEN Present.docs[part] ELSE Absent

Idle == [stage |-> "idle"]
None == [status |-> -1]

-----------------------------------------------------------------------------
(* What a request has to fetch, given what it already has. *)

IndexParts(got, More(_)) ==
  IF Index \notin DOMAIN got \/ got[Index].status # 200 THEN {Index}
  ELSE {Index} \cup More(got[Index].body)

PagesOf(index) ==
  IF TooManyPages(index) THEN {}
  ELSE {Part(i) : i \in {j \in DOMAIN index : ~index[j].inline}}
InfosOf(list) == IF Len(list) > ListInfoLimit THEN {} ELSE {Part(v) : v \in Range(list)}
PomsOf(metadata) ==
  IF ~metadata.consistent \/ \E v \in Range(metadata.versions) : v.snapshot THEN {}
  ELSE {Part(v) : v \in Range(metadata.versions)}

GemName == <<"g">>       \* the gem whose compact info is asked for

ListParts(r, got) ==
  CASE r \in {"npm", "pypi", "cargo"} -> {Index}
    [] r = "go" -> IndexParts(got, InfosOf)
    [] r = "nuget" -> IndexParts(got, PagesOf)
    [] r = "rubygems" -> {Index, GemPart(GemName)}
    [] r = "maven" -> IndexParts(got, PomsOf)

LinkParts(r, link, got) ==
  CASE r \in {"npm", "pypi", "cargo"} -> {Index}
    [] r = "go" -> IF link = Latest \/ GoRoutable(link) THEN {Part(link)} ELSE {}
    [] r = "nuget" -> IndexParts(got, PagesOf)
    [] r = "rubygems" ->
         IF TooManyNames(link) THEN {} ELSE {GemPart(name) : name \in GemNames(link)}
    [] r = "maven" -> IF link.snapshot THEN {} ELSE {Part(link)}

CheckParts(r, version, got) ==
  CASE r \in {"npm", "pypi", "cargo"} -> {Index}
    [] r \in {"go", "maven"} -> {Part(version)}
    [] r = "nuget" -> IndexParts(got, PagesOf)
    [] r = "rubygems" -> {GemPart(GemName)}

Needed ==
  CASE request.kind = "list" -> ListParts(registry, request.got)
    [] request.kind = "artifact" -> LinkParts(registry, request.link, request.got)
    [] request.kind = "check" -> CheckParts(registry, request.link, request.got)
Pending == Needed \ DOMAIN request.got

-----------------------------------------------------------------------------
(* What the adapter makes of the parts. *)

Body(got) == got[Index].body
Parts(got, keys) == [k \in keys |-> got[Part(k)]]
Pages(got) == Parts(got, {j \in DOMAIN Body(got) : ~Body(got)[j].inline})
Gems(got, file) == [name \in GemNames(file) |-> got[GemPart(name)]]

\* Every registry but RubyGems answers for a package only with its index.
ListCandidates(r, got) ==
  IF \E p \in {Index, GemPart(GemName)} \cap DOMAIN got : got[p].status # 200 THEN NoListing
  ELSE CASE r = "npm" -> NpmCandidates(Body(got))
         [] r = "pypi" -> PypiCandidates(Body(got))
         [] r = "cargo" -> CargoCandidates(Body(got))
         [] r = "go" ->
              IF InfosOf(Body(got)) = {} /\ Body(got) # <<>> THEN NoListing
              ELSE GoCandidates(Body(got), Parts(got, Range(Body(got))))
         [] r = "nuget" -> NugetCandidates(Body(got), Pages(got))
         [] r = "rubygems" ->
              GemCandidates(GemName, Body(got), got[GemPart(GemName)].body)
         [] r = "maven" ->
              IF PomsOf(Body(got)) = {} THEN NoListing
              ELSE MavenCandidates(Body(got), Parts(got, Range(Body(got).versions)))

ListingOf(r, got, artifacts, decisions) ==
  CASE r = "npm" -> NpmListing(Body(got), decisions)
    [] r = "pypi" -> PypiListing(Body(got), decisions)
    [] r = "cargo" -> CargoListing(Body(got), decisions)
    [] r = "go" -> GoListing(artifacts, decisions)
    [] r = "nuget" -> NugetListing(Body(got), Pages(got), decisions)
    [] r = "rubygems" -> GemListing(GemName, Body(got), decisions)
    [] r = "maven" -> MavenListing(artifacts, decisions)

\* An index that upstream has not is an upstream error to an artifact path.
FindLink(r, got, link) ==
  IF Index \in DOMAIN got /\ got[Index].status # 200 THEN GatewayError
  ELSE CASE r = "npm" -> NpmFind(Body(got), link)
         [] r = "pypi" -> PypiFind(Body(got), link)
         [] r = "cargo" -> CargoFind(Body(got), link)
         [] r = "go" ->
              IF link = Latest THEN GoFindLatest(got[Part(Latest)])
              ELSE IF GoRoutable(link) THEN GoFind(link, got[Part(link)]) ELSE NotFound
         [] r = "nuget" -> NugetFind(Body(got), Pages(got), link)
         [] r = "rubygems" -> GemFind(link, Gems(got, link))
         [] r = "maven" ->
              IF link.snapshot THEN GatewayError ELSE MavenFind(link, got[Part(link)])

\* The artifacts of a version that the check command asks about.  Go's info is taken for the
\* version that was asked for, whatever version it names.
CheckLookup(r, got, version) ==
  IF \E p \in {Index, GemPart(GemName)} \cap DOMAIN got : got[p].status # 200 THEN NoListing
  ELSE CASE r = "npm" -> NpmLookup(Body(got), version)
         [] r = "pypi" -> PypiLookup(Body(got), version)
         [] r = "cargo" -> Single(CargoFind(Body(got), version))
         [] r = "go" -> Single(GoFindLatest(got[Part(version)]))
         [] r = "nuget" -> Single(NugetFind(Body(got), Pages(got), version))
         [] r = "rubygems" -> GemLookup(GemName, got[GemPart(GemName)].body, version)
         [] r = "maven" -> MavenLookup(version, got[Part(version)])

-----------------------------------------------------------------------------
(* What the store says. *)

Advisory == [id |-> 1, mal |-> TRUE, score |-> Unknown, failed |-> FALSE]
HitsOf(store, a) == IF a.version \in store.bad THEN {Advisory} ELSE {}

StoreBatch(p, store, artifacts) ==
  LET checked == Checked(p, artifacts)
  IN [ok |-> store.ok, results |-> [i \in DOMAIN checked |-> HitsOf(store, checked[i])]]
StoreCheck(store, a) == IF store.ok THEN Findings(HitsOf(store, a)) ELSE CheckFailed

-----------------------------------------------------------------------------
(* The steps of a request. *)

Init ==
  /\ registry \in Registries
  /\ policy \in Policies(registry)
  /\ now = 1
  /\ history \in {<<[docs |-> d, store |-> s]>> : d \in Documents(registry), s \in Stores(registry)}
  /\ request = Idle /\ listing = None /\ copy = <<>> /\ reply = None

\* The time of a request is taken once, before anything is fetched.
Started(kind, link, ask, since) ==
  [stage |-> "fetch", kind |-> kind, link |-> link, ask |-> ask, now |-> now, since |-> since,
   got |-> <<>>, content |-> NoLink, left |-> <<>>, allowed |-> TRUE]

\* A client asks for the listing, perhaps conditionally on the copy that it holds.
AskListing(ask) ==
  /\ request = Idle
  /\ ask \in {"full", "revalidate", "range"}
  /\ ask = "revalidate" => registry \in {"cargo", "maven"}
  /\ ask = "range" => registry = "rubygems"
  /\ request' = Started("list", NoLink, ask, 1)
  /\ history' = <<Present>>
  /\ listing' = None /\ reply' = None
  /\ UNCHANGED <<registry, policy, now, copy>>

AskArtifact(link) ==
  /\ request = Idle
  /\ request' = Started("artifact", link, "full", Len(history))
  /\ reply' = None
  /\ UNCHANGED <<registry, policy, now, history, listing, copy>>

\* osv-proxy check: the version takes the place of the link.
AskCheck(version) ==
  /\ request = Idle
  /\ request' = Started("check", version, "full", Len(history))
  /\ reply' = None
  /\ UNCHANGED <<registry, policy, now, history, listing, copy>>

\* One upstream answer arrives; which of those that are under way is not determined.
Fetch(part) ==
  /\ request.stage = "fetch"
  /\ part \in Pending
  /\ request' = [request EXCEPT !.got = [p \in DOMAIN @ \cup {part} |->
                                            IF p = part THEN Upstream(part) ELSE @[p]]]
  /\ UNCHANGED <<registry, policy, now, history, listing, copy, reply>>

\* What the proxy answers to the listing request, and what the client then holds.
ListReply(body) ==
  CASE request.ask = "full" -> Full(body)
    [] request.ask = "revalidate" -> IfNoneMatch(body, TagOf(copy))
    [] request.ask = "range" ->
         FilteredRepresentation(body, TagOf(copy), [first |-> Len(copy), last |-> Unbounded], NoTag)

\* A client appends a part to its copy, and drops both when the digest disagrees.
CopyAfter(answer) ==
  CASE answer.status = 200 -> answer.body
    [] answer.status = 304 -> copy
    [] answer.status = 206 /\ copy \o answer.body = answer.digest -> answer.digest
    [] OTHER -> <<>>

\* The listing is decided with the store as it now is, and with the time of the request.
AnswerListing ==
  LET candidates == ListCandidates(registry, request.got)
      artifacts == candidates.artifacts
      decisions == EvaluateArtifacts(policy, artifacts, request.now,
                                     StoreBatch(policy, Present.store, artifacts))
      allowAll == [i \in DOMAIN artifacts |-> Pass]
      shown == ListingOf(registry, request.got, artifacts, decisions)
      all == ListingOf(registry, request.got, artifacts, allowAll)
      answer == ListReply(shown.entries)
  IN /\ request.stage = "fetch" /\ request.kind = "list" /\ Pending = {}
     /\ request' = Idle
     /\ IF ~candidates.ok THEN UNCHANGED <<listing, copy>>
        ELSE /\ listing' = [status |-> answer.status, entries |-> shown.entries,
                            pointers |-> shown.pointers,
                            hidden |-> Range(all.entries) \ Range(shown.entries),
                            now |-> request.now]
             /\ copy' = CopyAfter(answer)
     /\ UNCHANGED <<registry, policy, now, history, reply>>

Answered(status, content) ==
  /\ reply' = [status |-> status, kind |-> request.kind, link |-> request.link,
               content |-> content, now |-> request.now, since |-> request.since,
               until |-> Len(history)]
  /\ request' = Idle

\* The artifact is looked for and decided before any of its bytes are fetched.
Decide ==
  LET found == FindLink(registry, request.got, request.link)
      decision == Evaluate(policy, found.artifact, request.now,
                           StoreCheck(Present.store, found.artifact))
  IN /\ request.stage = "fetch" /\ request.kind = "artifact" /\ Pending = {}
     /\ \/ found.status # 200 /\ Answered(found.status, NoLink)
        \/ found.status = 200 /\ ~decision.allowed /\ Answered(403, NoLink)
        \/ /\ found.status = 200 /\ decision.allowed
           /\ request' = [request EXCEPT !.stage = "deliver", !.content = found.artifact.content]
           /\ UNCHANGED reply
     /\ UNCHANGED <<registry, policy, now, history, listing, copy>>

\* The bytes of the decided artifact, or a redirect to them.
Deliver ==
  /\ request.stage = "deliver"
  /\ Answered(IF request.content = NoLink THEN 502 ELSE 200, request.content)
  /\ UNCHANGED <<registry, policy, now, history, listing, copy>>

\* The artifacts of a checked version, or exit code 1.
Look ==
  LET found == CheckLookup(registry, request.got, request.link)
  IN /\ request.stage = "fetch" /\ request.kind = "check" /\ Pending = {}
     /\ IF found.ok
        THEN /\ request' = [request EXCEPT !.stage = "judge", !.left = found.artifacts]
             /\ UNCHANGED reply
        ELSE Answered(1, {})
     /\ UNCHANGED <<registry, policy, now, history, listing, copy>>

\* As the verdict would be if the last artifact made it.
VerdictOfLast(before, decision) == decision.allowed

\* The version is allowed when all of its artifacts are.
Verdict(before, decision) == before /\ decision.allowed

\* They are decided one after another, each with the store as it then is.
Judge ==
  LET artifact == Head(request.left)
      verdict == Verdict(request.allowed,
                         Evaluate(policy, artifact, request.now, StoreCheck(Present.store, artifact)))
  IN /\ request.stage = "judge"
     /\ IF Len(request.left) > 1
        THEN /\ request' = [request EXCEPT !.left = Tail(@), !.allowed = verdict]
             /\ UNCHANGED reply
        ELSE Answered(IF verdict THEN 0 ELSE 2, artifact.version)
     /\ UNCHANGED <<registry, policy, now, history, listing, copy>>

-----------------------------------------------------------------------------
(* The surroundings. *)

World(docs, store) ==
  /\ Len(history) < MaxWorlds
  /\ history' = Append(history, [docs |-> docs, store |-> store])
  /\ UNCHANGED <<registry, policy, now, request, listing, copy, reply>>

UpstreamChanges == \E d \in Documents(registry) \ {Present.docs} : World(d, Present.store)
StoreChanges == \E s \in Stores(registry) \ {Present.store} : World(Present.docs, s)

Tick ==
  /\ now < MaxTime
  /\ now' = now + 1
  /\ UNCHANGED <<registry, policy, history, request, listing, copy, reply>>

Next ==
  \/ \E ask \in {"full", "revalidate", "range"} : AskListing(ask)
  \/ \E link \in Links(registry) : AskArtifact(link)
  \/ \E version \in Versions(registry) : AskCheck(version)
  \/ request.stage = "fetch" /\ \E part \in Pending : Fetch(part)
  \/ AnswerListing \/ Decide \/ Deliver \/ Look \/ Judge
  \/ UpstreamChanges \/ StoreChanges \/ Tick

Spec == Init /\ [][Next]_vars

-----------------------------------------------------------------------------
(* What the proxy promises its clients. *)

\* The artifacts that upstream itself states, from its documents alone.
ReleasedBy(r, part, body) ==
  CASE r = "npm" -> {NpmArtifact(e) : e \in Range(body.versions)}
    [] r = "pypi" -> {Artifact(f.version, f.published, f.version) : f \in Range(body.files)}
    [] r = "cargo" -> {CargoArtifact(l) : l \in Range(body)}
    [] r = "go" ->
         IF part # Index /\ part[2] \in {Latest, body.version}
         THEN {Artifact(body.version, body.published, body.version)} ELSE {}
    [] r = "nuget" ->
         {NugetArtifact(l) : l \in LeavesOf(part, body)}
    [] r = "rubygems" ->
         IF part = Index THEN {} ELSE {GemArtifact(part[2], v) : v \in Range(Current(body))}
    [] r = "maven" -> IF part = Index THEN {} ELSE {MavenArtifact(part[2], body)}

Released(r, docs) ==
  UNION {ReleasedBy(r, p, docs[p].body) : p \in {q \in DOMAIN docs : docs[q].status = 200}}

\* The bytes that a client receives are of an artifact that policy allows: under its true
\* version and with the publication time and the advisories of some moment of the request,
\* whatever upstream and the store did during the request (the delivery path of server.rs
\* 886-1060 and of every adapter).
DeliveredWasAllowed ==
  reply.status = 200 =>
    \E i, j \in reply.since..reply.until : \E a \in Released(registry, history[i].docs) :
      /\ a.content = reply.content
      /\ Evaluate(policy, a, reply.now, StoreCheck(history[j].store, a)).allowed

ShownLinks == {e.link : e \in Range(listing.entries)} \ {NoLink}

\* The links that the code shows and cannot serve: Go versions with an uppercase letter, npm
\* files that upstream has not or not under the name of their version, NuGet leaves without
\* packageContent and gem file names that may be those of two gems, or of too many.
Unservable(r, docs, link) ==
  CASE r = "go" -> link.upper
    [] r = "npm" ->
         ~\E e \in Range(docs[Index].body.versions) :
            docs[Index].body.name \o e.version = link /\ e.tarball = link
    [] r = "nuget" -> \E a \in Released(r, docs) : a.version = link /\ a.content = NoLink
    [] r = "rubygems" ->
         \/ TooManyNames(link)
         \/ \E name \in GemNames(link) \ {GemName} :
              GemPart(name) \in DOMAIN docs /\ docs[GemPart(name)].status # 404
    [] OTHER -> FALSE

\* While upstream and the store stay as they are, a link of a filtered listing can be
\* downloaded: the artifact path finds the same artifact and decides about it as the listing
\* did, whose artifacts are checked in one batch (evaluate_artifacts of each adapter).
ShownIsDeliverable ==
  /\ listing # None /\ reply # None /\ Len(history) = 1
  /\ reply.kind = "artifact" /\ reply.now >= listing.now
  /\ reply.link \in ShownLinks /\ ~Unservable(registry, history[1].docs, reply.link)
  => reply.status = 200

\* And a link that filtering took out of the listing cannot be downloaded by naming it.
HiddenIsRefused ==
  /\ listing # None /\ reply # None /\ Len(history) = 1
  /\ reply.kind = "artifact" /\ reply.now <= listing.now
  /\ reply.link \in {e.link : e \in listing.hidden} \ {NoLink}
  => reply.status # 200

\* The check command agrees with the listing while upstream and the store stay as they are:
\* a version that it allows is not hidden from a later listing in any of its files, and of a
\* version that it refuses an earlier listing hid some file (registry_check of cli.rs, whose
\* lookups are other ones than those of the listings).
CheckAgreesWithListing ==
  LET hidden == {e.version : e \in listing.hidden}
  IN /\ listing # None /\ reply # None /\ Len(history) = 1 /\ reply.kind = "check"
     => /\ reply.status = 0 /\ reply.now <= listing.now => reply.content \notin hidden
        /\ reply.status = 2 /\ reply.now >= listing.now => reply.content \in hidden

\* What names a version beside the entries (npm's dist-tags, Maven's latest and release, the
\* flat container index) names one that the entries still show.
PointersNameShown ==
  listing # None => listing.pointers \subseteq {e.version : e \in Range(listing.entries)}

\* A client that revalidates its copy, or asks for no more than what follows it, ends with
\* the listing that the proxy has just filtered, or with nothing (apply_if_none_match of
\* cargo.rs and maven.rs, filtered_representation_response of rubygems.rs).
ClientCopyIsCurrent == listing # None => copy \in {<<>>, listing.entries}
=============================================================================
