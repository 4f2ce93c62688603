-------------------------- MODULE ServePathProofs ---------------------------
(* What clients of the proxy may rely on, for every registry document, policy, store and
   clock: the listing that a client holds, what names a version in it, and the bytes that it
   receives. *)
EXTENDS ServePath, NaturalLemmas, SequenceTheorems

\* What upstream says of a part in one of its states.
StatedBy(docs, part) == IF part \in DOMAIN docs THEN docs[part] ELSE Absent

\* Some artifact with these bytes that upstream stated in one of some worlds was allowed with
\* the store of one of them.
WasAllowed(r, p, worlds, content, at, since, until) ==
  \E i, j \in since..until : \E a \in Released(r, worlds[i].docs) :
    /\ a.content = content
    /\ Evaluate(p, a, at, StoreCheck(worlds[j].store, a)).allowed

-----------------------------------------------------------------------------
(* The inductive invariant. *)

Worlds(r) == [docs : Documents(r), store : Stores(r)]
HistoryInv ==
  registry \in Registries /\ history \in Seq(Worlds(registry)) /\ Len(history) > 0

Fields == {"stage", "kind", "link", "ask", "now", "since", "got", "content", "left", "allowed"}

\* What a request has fetched was stated while it ran.
FetchedInv(q, worlds) ==
  \A p \in DOMAIN q.got : \E i \in q.since..Len(worlds) : q.got[p] = StatedBy(worlds[i].docs, p)

RequestInv ==
  request # Idle =>
    /\ Fields \subseteq DOMAIN request
    /\ request.stage \in {"fetch", "deliver", "judge"}
    /\ request.ask \in {"full", "revalidate", "range"}
    /\ request.since \in 1..Len(history)
    /\ FetchedInv(request, history)
    /\ request.stage = "deliver" =>
         WasAllowed(registry, policy, history, request.content, request.now, request.since,
                    Len(history))

ReplyInv ==
  reply.status = 200 =>
    /\ reply.since \in 1..Len(history) /\ reply.until \in 1..Len(history)
    /\ WasAllowed(registry, policy, history, reply.content, reply.now, reply.since, reply.until)

ServeInv == HistoryInv /\ RequestInv /\ ReplyInv

\* Before the first request nothing has been fetched or delivered.
LEMMA ServeInit == Init => ServeInv
<1> SUFFICES ASSUME Init PROVE ServeInv
  OBVIOUS
<1>1. HistoryInv
  <2>1. PICK d \in Documents(registry), s \in Stores(registry) :
          history = <<[docs |-> d, store |-> s]>>
    BY DEF Init
  <2> QED BY <2>1 DEF HistoryInv, Worlds, Init
<1>2. RequestInv /\ ReplyInv
  BY DEF Init, RequestInv, ReplyInv, None
<1> QED BY <1>1, <1>2 DEF ServeInv

-----------------------------------------------------------------------------
(* Worlds that are added. *)

\* What was allowed stays so when the worlds go on.
LEMMA AllowedLasts ==
  ASSUME NEW r, NEW p, NEW worlds, NEW more, NEW content, NEW at, NEW since \in Nat,
         NEW until \in Nat, NEW last \in Nat,
         until <= last, \A i \in since..until : more[i] = worlds[i],
         WasAllowed(r, p, worlds, content, at, since, until)
  PROVE  WasAllowed(r, p, more, content, at, since, last)
<1>1. PICK i \in since..until, j \in since..until :
        \E a \in Released(r, worlds[i].docs) :
          a.content = content /\ Evaluate(p, a, at, StoreCheck(worlds[j].store, a)).allowed
  BY DEF WasAllowed
<1>2. i \in since..last /\ j \in since..last /\ more[i] = worlds[i] /\ more[j] = worlds[j]
  BY <1>1
<1> QED BY <1>1, <1>2 DEF WasAllowed

\* A new world leaves those before it, and what requests and replies owe them, as they were.
LEMMA WorldKeepsInvariant ==
  ASSUME ServeInv, NEW d \in Documents(registry), NEW s \in Stores(registry), World(d, s)
  PROVE  ServeInv'
<1> DEFINE w == [docs |-> d, store |-> s]
<1>1. history' = Append(history, w) /\ UNCHANGED <<registry, policy, now, request, reply>>
  BY DEF World
<1>2. /\ history \in Seq(Worlds(registry)) /\ Len(history) \in Nat /\ w \in Worlds(registry)
      /\ history' \in Seq(Worlds(registry)) /\ Len(history') = Len(history) + 1
      /\ \A i \in 1..Len(history) : history'[i] = history[i]
  BY <1>1 DEF ServeInv, HistoryInv, Worlds
<1>3. HistoryInv'
  BY <1>1, <1>2 DEF ServeInv, HistoryInv
<1>4. RequestInv'
  <2> SUFFICES ASSUME request # Idle PROVE RequestInv'
    BY <1>1 DEF RequestInv
  <2>1. request.since \in 1..Len(history) /\ FetchedInv(request, history)
    BY DEF ServeInv, RequestInv
  <2>2. FetchedInv(request, history')
    <3> SUFFICES ASSUME NEW p \in DOMAIN request.got
                 PROVE  \E i \in request.since..Len(history') :
                          request.got[p] = StatedBy(history'[i].docs, p)
      BY DEF FetchedInv
    <3>1. PICK i \in request.since..Len(history) : request.got[p] = StatedBy(history[i].docs, p)
      BY <2>1 DEF FetchedInv
    <3> QED BY <1>2, <2>1, <3>1
  <2>3. ASSUME request.stage = "deliver"
        PROVE  WasAllowed(registry, policy, history', request.content, request.now,
                          request.since, Len(history'))
    <3>1. WasAllowed(registry, policy, history, request.content, request.now, request.since,
                     Len(history))
      BY <2>3 DEF ServeInv, RequestInv
    <3> QED BY <1>2, <2>1, <3>1, AllowedLasts
  <2> QED BY <1>1, <1>2, <2>1, <2>2, <2>3 DEF ServeInv, RequestInv
<1>5. ReplyInv'
  <2> SUFFICES ASSUME reply.status = 200 PROVE ReplyInv'
    BY <1>1 DEF ReplyInv
  <2>1. /\ reply.since \in 1..Len(history) /\ reply.until \in 1..Len(history)
        /\ WasAllowed(registry, policy, history, reply.content, reply.now, reply.since, reply.until)
    BY DEF ServeInv, ReplyInv
  <2>2. WasAllowed(registry, policy, history', reply.content, reply.now, reply.since, reply.until)
    BY <1>2, <2>1, AllowedLasts
  <2> QED BY <1>1, <1>2, <2>1, <2>2 DEF ReplyInv
<1> QED BY <1>3, <1>4, <1>5 DEF ServeInv

-----------------------------------------------------------------------------
(* Lemmas about sequences. *)

\* The first member at some indices is a member at one of them.
LEMMA FirstIsMember ==
  ASSUME NEW items, NEW indices, indices \subseteq Nat, FirstAt(items, indices) # <<>>
  PROVE  \E i \in indices : FirstAt(items, indices) = <<items[i]>>
<1>1. indices # {}
  BY DEF FirstAt
<1>2. PICK least \in indices : \A j \in indices : ~(j < least)
  BY <1>1, LeastMember
<1>3. \A j \in indices : least <= j
  BY <1>2
<1>4. Min(indices) \in indices /\ \A j \in indices : Min(indices) <= j
  BY <1>3 DEF Min
<1> QED BY <1>1, <1>4 DEF FirstAt

\* The parts of a sequence of sequences, put together one after another.
Flattens(f, seqs) ==
  f = [i \in 1..Len(seqs) |-> IF i = 1 THEN seqs[i] ELSE f[i - 1] \o seqs[i]]

\* The first of them, put together one after another.
FlattensTo(f, seqs, m) ==
  \A i \in 1..m : f[i] = IF i = 1 THEN seqs[i] ELSE f[i - 1] \o seqs[i]

\* They can be put together.
LEMMA FlattenExists ==
  ASSUME NEW S, NEW seqs \in Seq(Seq(S))
  PROVE  \E f : Flattens(f, seqs)
<1> DEFINE n == Len(seqs)
           C == {m \in Nat : m <= n => \E f \in [1..m -> Seq(S)] : FlattensTo(f, seqs, m)}
<1>1. n \in Nat /\ \A i \in 1..n : seqs[i] \in Seq(S)
  OBVIOUS
<1>2. 0 \in C
  <2>1. 1..0 = {}
    OBVIOUS
  <2>2. [i \in 1..0 |-> <<>>] \in [1..0 -> Seq(S)]
    BY <2>1
  <2>3. FlattensTo([i \in 1..0 |-> <<>>], seqs, 0)
    BY <2>1 DEF FlattensTo
  <2> QED BY <2>2, <2>3
<1>3. ASSUME NEW m \in Nat, m \in C PROVE m + 1 \in C
  <2> SUFFICES ASSUME m + 1 <= n
               PROVE  \E f \in [1..m + 1 -> Seq(S)] : FlattensTo(f, seqs, m + 1)
    OBVIOUS
  <2>1. PICK f \in [1..m -> Seq(S)] : FlattensTo(f, seqs, m)
    BY <1>1, <1>3
  <2> DEFINE more == IF m = 0 THEN seqs[1] ELSE f[m] \o seqs[m + 1]
             g == [i \in 1..m + 1 |-> IF i = m + 1 THEN more ELSE f[i]]
  <2>2. more \in Seq(S)
    <3>1. m # 0 => f[m] \in Seq(S)
      BY <2>1
    <3>2. seqs[1] \in Seq(S) /\ seqs[m + 1] \in Seq(S)
      BY <1>1
    <3> QED BY <3>1, <3>2, ConcatProperties
  <2>3. g \in [1..m + 1 -> Seq(S)]
    <3> HIDE DEF more
    <3> QED BY <2>1, <2>2
  <2>4. ASSUME NEW i \in 1..m + 1 PROVE g[i] = IF i = 1 THEN seqs[i] ELSE g[i - 1] \o seqs[i]
    <3>1. CASE i = m + 1
      BY <3>1
    <3>2. CASE i # m + 1
      <4> HIDE DEF more
      <4>1. i \in 1..m /\ (i # 1 => i - 1 \in 1..m)
        BY <3>2
      <4>2. g[i] = f[i] /\ (i # 1 => g[i - 1] = f[i - 1])
        BY <4>1
      <4> QED BY <2>1, <4>1, <4>2 DEF FlattensTo
    <3> QED BY <3>1, <3>2
  <2> HIDE DEF g
  <2>5. FlattensTo(g, seqs, m + 1)
    BY <2>4 DEF FlattensTo
  <2> QED BY <2>3, <2>5
<1>4. Nat \subseteq C
  <2> HIDE DEF C
  <2> QED BY <1>2, <1>3, SetInduction
<1>5. PICK f \in [1..n -> Seq(S)] : FlattensTo(f, seqs, n)
  BY <1>1, <1>4
<1>6. f = [i \in 1..Len(seqs) |-> IF i = 1 THEN seqs[i] ELSE f[i - 1] \o seqs[i]]
  BY <1>5 DEF FlattensTo
<1> QED BY <1>6 DEF Flattens

\* And the whole has only members of the parts.
LEMMA FlattenedType ==
  ASSUME NEW S, NEW seqs \in Seq(Seq(S))
  PROVE  FlattenSeq(seqs) \in Seq(S)
<1> DEFINE n == Len(seqs)
           f == CHOOSE g : Flattens(g, seqs)
<1>1. n \in Nat /\ \A i \in 1..n : seqs[i] \in Seq(S)
  OBVIOUS
<1>2. n # 0 => FlattenSeq(seqs) = f[n]
  BY DEF FlattenSeq, Flattens
<1>3. \A i \in 1..n : f[i] = IF i = 1 THEN seqs[i] ELSE f[i - 1] \o seqs[i]
  <2>1. Flattens(f, seqs)
    BY FlattenExists
  <2> HIDE DEF f
  <2> QED BY <2>1 DEF Flattens
<1> HIDE DEF f
<1> DEFINE C == {m \in Nat : m \in 1..n => f[m] \in Seq(S)}
<1>4. Nat \subseteq C
  <2>1. 0 \in C
    OBVIOUS
  <2>2. ASSUME NEW m \in Nat, m \in C PROVE m + 1 \in C
    <3> SUFFICES ASSUME m + 1 \in 1..n PROVE f[m + 1] \in Seq(S)
      OBVIOUS
    <3>1. CASE m = 0
      BY <1>1, <1>3, <3>1
    <3>2. CASE m # 0
      <4>1. f[m] \in Seq(S) /\ seqs[m + 1] \in Seq(S)
        BY <1>1, <2>2, <3>2
      <4>2. m + 1 # 1 /\ (m + 1) - 1 = m
        BY <3>2
      <4>3. f[m + 1] = f[m] \o seqs[m + 1]
        BY <1>3, <4>2
      <4> QED BY <4>1, <4>3, ConcatProperties
    <3> QED BY <3>1, <3>2
  <2> HIDE DEF C
  <2> QED BY <2>1, <2>2, SetInduction
<1>5. CASE n = 0
  BY <1>5 DEF FlattenSeq
<1>6. CASE n # 0
  BY <1>1, <1>2, <1>4, <1>6
<1> QED BY <1>5, <1>6

-----------------------------------------------------------------------------
(* What each adapter finds is an artifact that upstream states in the parts it was found in. *)

\* The entry that npm metadata has for a file name (npm.rs, artifact_from_metadata).
LEMMA NpmFindsReleased ==
  ASSUME NEW doc, NEW file, NEW a, WellFormed("npm", Index, doc), NpmFind(doc, file) = Found(a)
  PROVE  a \in ReleasedBy("npm", Index, doc)
<1> DEFINE version == NpmInferVersion(doc, file)
           places == {i \in DOMAIN doc.versions : doc.versions[i].version = version}
           entry == NpmEntryOf(doc, version)
<1>1. doc.versions \in Seq(Range(doc.versions))
  BY DEF WellFormed
<1>2. entry # <<>> /\ a = NpmArtifact(entry[1])
  BY DEF NpmFind, Found, NotFound, InternalError
<1>3. places \subseteq Nat
  BY <1>1
<1>4. entry = FirstAt(doc.versions, places)
  BY DEF NpmEntryOf
<1>5. \E i \in DOMAIN doc.versions : entry = <<doc.versions[i]>>
  <2> HIDE DEF places, entry
  <2>1. places \subseteq Nat
    BY <1>3
  <2>2. FirstAt(doc.versions, places) # <<>>
    BY <1>2, <1>4
  <2>3. \E i \in places : FirstAt(doc.versions, places) = <<doc.versions[i]>>
    BY <2>1, <2>2, FirstIsMember
  <2> QED BY <2>3, <1>4 DEF places
<1> HIDE DEF entry
<1>6. entry[1] \in Range(doc.versions)
  BY <1>5 DEF Range
<1> QED BY <1>2, <1>6 DEF ReleasedBy

\* The line that the index has for a version (cargo.rs, lookup_artifact).
LEMMA CargoFindsReleased ==
  ASSUME NEW lines, NEW version, NEW a, WellFormed("cargo", Index, lines),
         CargoFind(lines, version) = Found(a)
  PROVE  a \in ReleasedBy("cargo", Index, lines)
<1> DEFINE places == {i \in DOMAIN lines : lines[i].version = version}
           line == CargoLineOf(lines, version)
<1>1. places \subseteq Nat
  BY DEF WellFormed
<1>2. line # <<>> /\ a = CargoArtifact(line[1])
  BY DEF CargoFind, Found, NotFound, GatewayError
<1>3. \E i \in DOMAIN lines : line = <<lines[i]>>
  <2> HIDE DEF places
  <2>1. places \subseteq Nat
    BY <1>1
  <2>2. FirstAt(lines, places) # <<>> /\ line = FirstAt(lines, places)
    BY <1>2 DEF CargoLineOf, places
  <2>3. \E i \in places : FirstAt(lines, places) = <<lines[i]>>
    BY <2>1, <2>2, FirstIsMember
  <2> QED BY <2>2, <2>3 DEF places
<1> HIDE DEF line
<1>4. line[1] \in Range(lines)
  BY <1>3 DEF Range
<1> QED BY <1>2, <1>4 DEF ReleasedBy

\* A version that is inferred from the name of a PyPI file is the one it released (pypi.rs,
\* infer_version_from_filename).
LEMMA InferredIsReleased ==
  ASSUME NEW name, NEW file, NamedAfterRelease(name, file),
         PypiInferVersion(name, file) # NoVersion
  PROVE  PypiInferVersion(name, file) = file.version
<1> DEFINE parts == file.parts
           n == Len(parts)
           prefixes == {i \in 1..n - 1 : FlattenSeq(SubSeq(parts, 1, i)) = name}
<1>1. CASE file.ext = "whl"
  BY <1>1 DEF PypiInferVersion, NamedAfterRelease
<1>2. CASE file.ext # "whl"
  <2>1. file.ext \in Sdist /\ PypiInferVersion(name, file) = SdistVersion(name, parts)
    BY <1>2 DEF PypiInferVersion
  <2>2. n \in Nat
    BY DEF NamedAfterRelease
  <2>3. PICK k \in 1..n - 1 :
          /\ FlattenSeq(SubSeq(parts, 1, k)) = name
          /\ \A i \in 1..k - 1 : FlattenSeq(SubSeq(parts, 1, i)) # name
          /\ file.version = SubSeq(parts, k + 1, n)
    BY <2>1 DEF NamedAfterRelease
  <2>4. k \in prefixes /\ \A i \in prefixes : k <= i
    BY <2>2, <2>3
  <2>5. Min(prefixes) = k
    <3>1. \A i \in prefixes : i \in Nat
      BY <2>2
    <3>2. \A x \in prefixes : (\A y \in prefixes : x <= y) => x = k
      BY <2>2, <2>4, <3>1
    <3> HIDE DEF prefixes
    <3> QED BY <2>4, <3>2 DEF Min
  <2>6. SdistVersion(name, parts) = SubSeq(parts, k + 1, n)
    BY <2>4, <2>5 DEF SdistVersion
  <2> QED BY <2>1, <2>3, <2>6
<1> QED BY <1>1, <1>2

\* The file that a project has under a name, with the version that is in the link (pypi.rs,
\* artifact_delivery_response).
LEMMA PypiFindsReleased ==
  ASSUME NEW doc, NEW link, NEW a, WellFormed("pypi", Index, doc), PypiFind(doc, link) = Found(a)
  PROVE  a \in ReleasedBy("pypi", Index, doc)
<1> DEFINE places == {i \in DOMAIN doc.files : PypiFile(doc.files[i]) = link.file}
           file == PypiFileOf(doc, link.file)
<1>1. places \subseteq Nat
  BY DEF WellFormed
<1>2. /\ file # <<>> /\ PypiInferVersion(doc.name, file[1]) # NoVersion
      /\ a = PypiArtifact(doc, file[1])
  BY DEF PypiFind, Found, NotFound
<1>3. \E i \in DOMAIN doc.files : file = <<doc.files[i]>>
  <2> HIDE DEF places
  <2>1. places \subseteq Nat
    BY <1>1
  <2>2. FirstAt(doc.files, places) # <<>> /\ file = FirstAt(doc.files, places)
    BY <1>2 DEF PypiFileOf, places
  <2>3. \E i \in places : FirstAt(doc.files, places) = <<doc.files[i]>>
    BY <2>1, <2>2, FirstIsMember
  <2> QED BY <2>2, <2>3 DEF places
<1> HIDE DEF file
<1>4. file[1] \in Range(doc.files)
  BY <1>3 DEF Range
<1>5. PypiInferVersion(doc.name, file[1]) = file[1].version
  BY <1>2, <1>4, InferredIsReleased DEF WellFormed
<1> QED BY <1>2, <1>4, <1>5 DEF ReleasedBy, PypiArtifact

\* The info of a version, or of @latest (go.rs).
LEMMA GoFindsReleased ==
  ASSUME NEW link, NEW info,
         \/ link = Latest /\ GoFindLatest(info).status = 200
         \/ link # Latest /\ GoFind(link, info).status = 200
  PROVE  /\ info.status = 200
         /\ (IF link = Latest THEN GoFindLatest(info) ELSE GoFind(link, info)).artifact
              \in ReleasedBy("go", Part(link), info.body)
<1> DEFINE a == Artifact(info.body.version, info.body.published, info.body.version)
<1>1. Part(link) # Index /\ Part(link)[2] = link
  BY DEF Part, Index
<1>2. CASE link = Latest
  <2>1. info.status = 200 /\ GoFindLatest(info).artifact = a
    BY <1>2 DEF GoFindLatest, Found, Missing, NotFound, GatewayError, GoArtifact
  <2> QED BY <1>1, <1>2, <2>1 DEF ReleasedBy
<1>3. CASE link # Latest
  <2>1. info.status = 200 /\ info.body.version = link /\ GoFind(link, info).artifact = a
    BY <1>3 DEF GoFind, Found, Missing, NotFound, GatewayError, GoArtifact, Artifact
  <2> QED BY <1>1, <1>3, <2>1 DEF ReleasedBy
<1> QED BY <1>2, <1>3

\* The POM of a version (maven.rs, artifact_delivery_response).
LEMMA MavenFindsReleased ==
  ASSUME NEW version, NEW pom, MavenFind(version, pom).status = 200
  PROVE  /\ pom.status = 200
         /\ MavenFind(version, pom).artifact \in ReleasedBy("maven", Part(version), pom.body)
<1>1. Part(version) # Index /\ Part(version)[2] = version
  BY DEF Part, Index
<1>2. pom.status = 200 /\ MavenFind(version, pom).artifact = MavenArtifact(version, pom.body)
  BY DEF MavenFind, Found, Missing, NotFound, GatewayError
<1> QED BY <1>1, <1>2 DEF ReleasedBy

\* A gem that the versions document of one of the names has (rubygems.rs, resolve_artifact).
LEMMA GemFindsReleased ==
  ASSUME NEW file, NEW replies, GemFind(file, replies).status = 200
  PROVE  \E name \in GemNames(file) :
           /\ replies[name].status = 200
           /\ GemFind(file, replies).artifact
                \in ReleasedBy("rubygems", GemPart(name), replies[name].body)
<1> DEFINE a == GemFind(file, replies).artifact
<1>1. \E m \in GemMatches(file, replies) :
        a = GemArtifact(m.name, Current(replies[m.name].body)[m.at])
  <2>1. GemMatches(file, replies) # {}
    BY DEF GemFind, NotFound, GatewayError
  <2>2. (CHOOSE m \in GemMatches(file, replies) : TRUE) \in GemMatches(file, replies)
    BY <2>1
  <2> DEFINE match == CHOOSE m \in GemMatches(file, replies) : TRUE
  <2>3. GemFind(file, replies) =
          Found(GemArtifact(match.name, Current(replies[match.name].body)[match.at]))
    BY <2>1 DEF GemFind, NotFound, GatewayError
  <2>4. a = GemArtifact(match.name, Current(replies[match.name].body)[match.at])
    <3> HIDE DEF match
    <3> QED BY <2>3 DEF Found
  <2> QED BY <2>2, <2>4
<1>2. PICK name \in GemNames(file) :
        /\ replies[name].status = 200
        /\ \E v \in Range(Current(replies[name].body)) : a = GemArtifact(name, v)
  BY <1>1 DEF GemMatches, Range
<1>3. GemPart(name) # Index /\ GemPart(name)[2] = name
  BY DEF GemPart, Index
<1> QED BY <1>2, <1>3 DEF ReleasedBy

\* A leaf of the registration, from its index or from one of its pages (nuget.rs, find_leaf).
LEMMA NugetFindsReleased ==
  ASSUME NEW index, NEW pages, NEW version, NEW a, WellFormed("nuget", Index, index),
         \A k \in DOMAIN index :
           ~index[k].inline /\ pages[k].status = 200 => WellFormed("nuget", Part(k), pages[k].body),
         NugetFind(index, pages, version) = Found(a)
  PROVE  \/ a \in ReleasedBy("nuget", Index, index)
         \/ \E k \in DOMAIN index :
              /\ ~index[k].inline /\ pages[k].status = 200
              /\ a \in ReleasedBy("nuget", Part(k), pages[k].body)
<1> DEFINE leaves == NugetLeaves(index, pages)
           all == NugetPages(index, pages)
           S == UNION {Range(all[k]) : k \in DOMAIN index}
           places == {i \in DOMAIN leaves : /\ leaves[i].catalog = "object"
                                            /\ leaves[i].valid /\ leaves[i].version = version}
           leaf == NugetLeafOf(leaves, version)
<1>1. /\ NugetHydrates(index, pages) /\ leaf # <<>>
      /\ a = NugetArtifact(leaf[1])
  BY DEF NugetFind, Found, NotFound, GatewayError
<1>2. index \in Seq(Range(index)) /\ DOMAIN index = 1..Len(index) /\ Len(index) \in Nat
  BY DEF WellFormed
<1>3. ASSUME NEW k \in DOMAIN index PROVE all[k] \in Seq(S)
  <2>1. all[k] \in Seq(Range(all[k]))
    <3>1. CASE index[k].inline
      BY <1>2, <3>1 DEF NugetPages, WellFormed, Range, Index
    <3>2. CASE ~index[k].inline
      BY <1>1, <3>2 DEF NugetPages, NugetHydrates, WellFormed
    <3> QED BY <3>1, <3>2
  <2>2. Range(all[k]) \subseteq S
    OBVIOUS
  <2> HIDE DEF S
  <2> QED BY <2>1, <2>2, SeqMonotonic
<1>4. all \in Seq(Seq(S))
  <2>1. DOMAIN all = 1..Len(index) /\ all = [k \in 1..Len(index) |-> all[k]]
    BY <1>2 DEF NugetPages
  <2> HIDE DEF all, S
  <2> QED BY <1>2, <1>3, <2>1, IsASeq
<1>5. leaves \in Seq(S)
  <2> HIDE DEF S
  <2> QED BY <1>4, FlattenedType DEF NugetLeaves
<1>6. places \subseteq Nat
  <2> HIDE DEF S
  <2> QED BY <1>5
<1>7. \E i \in DOMAIN leaves : leaf = <<leaves[i]>>
  <2> HIDE DEF places
  <2>1. places \subseteq Nat
    BY <1>6
  <2>2. FirstAt(leaves, places) # <<>> /\ leaf = FirstAt(leaves, places)
    BY <1>1 DEF NugetLeafOf, places
  <2>3. \E i \in places : FirstAt(leaves, places) = <<leaves[i]>>
    BY <2>1, <2>2, FirstIsMember
  <2> QED BY <2>2, <2>3 DEF places
<1> HIDE DEF leaf
<1>8. leaf[1] \in S
  <2> HIDE DEF S, leaves
  <2> QED BY <1>5, <1>7
<1>9. PICK k \in DOMAIN index : leaf[1] \in Range(all[k])
  BY <1>8
<1>10. CASE index[k].inline
  <2>1. index[k] \in {h \in Range(index) : h.inline} /\ all[k] = index[k].leaves
    BY <1>10 DEF Range, NugetPages
  <2> QED BY <1>1, <1>9, <2>1 DEF ReleasedBy, LeavesOf
<1>11. CASE ~index[k].inline
  <2>1. pages[k].status = 200 /\ all[k] = pages[k].body /\ Part(k) # Index
    BY <1>1, <1>11 DEF NugetPages, NugetHydrates, Part, Index
  <2> QED BY <1>1, <1>9, <1>11, <2>1 DEF ReleasedBy, LeavesOf
<1> QED BY <1>10, <1>11

\* A part that was fetched is well formed, and what it states was released while the request
\* ran.
LEMMA FetchedWasReleased ==
  ASSUME ServeInv, request # Idle, NEW p \in DOMAIN request.got, request.got[p].status = 200
  PROVE  /\ WellFormed(registry, p, request.got[p].body)
         /\ \E i \in request.since..Len(history) :
              ReleasedBy(registry, p, request.got[p].body) \subseteq Released(registry, history[i].docs)
<1>1. /\ request.since \in 1..Len(history) /\ Len(history) \in Nat
      /\ \E i \in request.since..Len(history) : request.got[p] = StatedBy(history[i].docs, p)
  BY DEF ServeInv, RequestInv, HistoryInv, FetchedInv
<1>2. PICK i \in request.since..Len(history) : request.got[p] = StatedBy(history[i].docs, p)
  BY <1>1
<1> DEFINE docs == history[i].docs
<1>3. docs \in Documents(registry) /\ registry \in Registries
  <2>1. i \in 1..Len(history) /\ history \in Seq(Worlds(registry)) /\ registry \in Registries
    BY <1>1 DEF ServeInv, HistoryInv
  <2>2. history[i] \in Worlds(registry)
    BY <2>1, ElementOfSeq
  <2> QED BY <2>1, <2>2 DEF Worlds
<1>4. p \in DOMAIN docs /\ docs[p] = request.got[p] /\ docs[p].status = 200
  BY <1>2 DEF StatedBy, Absent, Refusal
<1> HIDE DEF docs
<1>5. WellFormed(registry, p, docs[p].body)
  BY <1>3, <1>4, DocumentsAreWellFormed
<1>6. p \in {q \in DOMAIN docs : docs[q].status = 200}
  BY <1>4
<1>7. ReleasedBy(registry, p, docs[p].body) \subseteq Released(registry, docs)
  BY <1>6 DEF Released
<1> QED BY <1>4, <1>5, <1>7 DEF docs

\* What a link finds is an artifact or an error.
LEMMA FoundShape ==
  ASSUME NEW got, NEW link, registry \in Registries, FindLink(registry, got, link).status = 200
  PROVE  FindLink(registry, got, link) = Found(FindLink(registry, got, link).artifact)
<1> DEFINE found == FindLink(registry, got, link)
           Shaped(f) == f.status = 200 => f = Found(f.artifact)
<1>1. \A status : Shaped(Missing(status))
  BY DEF Missing, NotFound, GatewayError
<1>2. \A doc, l : Shaped(NpmFind(doc, l)) /\ Shaped(PypiFind(doc, l)) /\ Shaped(CargoFind(doc, l))
  BY DEF NpmFind, PypiFind, CargoFind, Found, NotFound, GatewayError, InternalError
<1>3. \A l, info : Shaped(GoFind(l, info)) /\ Shaped(GoFindLatest(info)) /\ Shaped(MavenFind(l, info))
  BY <1>1 DEF GoFind, GoFindLatest, MavenFind, Found, NotFound, GatewayError
<1>4. \A i, p, l : Shaped(NugetFind(i, p, l)) /\ Shaped(GemFind(l, p))
  BY DEF NugetFind, GemFind, Found, NotFound, GatewayError
<1>5. Shaped(NotFound) /\ Shaped(GatewayError)
  BY DEF NotFound, GatewayError
<1> HIDE DEF Shaped
<1>6. Shaped(found)
  BY <1>1, <1>2, <1>3, <1>4, <1>5, DocumentsAreWellFormed DEF FindLink
<1> QED BY <1>6 DEF Shaped

\* What a link finds is an artifact that upstream states in one of the parts that were fetched
\* for it (the artifact paths of the adapters).
LEMMA FoundWasReleased ==
  ASSUME ServeInv, request # Idle, request.kind = "artifact", Pending = {},
         NEW a, FindLink(registry, request.got, request.link) = Found(a)
  PROVE  \E p \in DOMAIN request.got :
           request.got[p].status = 200 /\ a \in ReleasedBy(registry, p, request.got[p].body)
<1> DEFINE got == request.got
           link == request.link
           Stated(p) == /\ p \in DOMAIN got /\ got[p].status = 200
                        /\ a \in ReleasedBy(registry, p, got[p].body)
<1>1. LinkParts(registry, link, got) \subseteq DOMAIN got
  BY DEF Pending, Needed
<1>2. Found(a).status = 200 /\ NotFound.status # 200 /\ GatewayError.status # 200
  BY DEF Found, NotFound, GatewayError
<1>3. Index \in DOMAIN got => got[Index].status = 200
  BY <1>2 DEF FindLink
<1>4. Index \in DOMAIN got => WellFormed(registry, Index, Body(got))
  BY <1>3, FetchedWasReleased DEF Body
<1>5. CASE registry = "npm"
  <2>1. Index \in DOMAIN got /\ NpmFind(Body(got), link) = Found(a)
    BY <1>1, <1>3, <1>5 DEF LinkParts, FindLink
  <2>2. WellFormed("npm", Index, Body(got))
    BY <1>4, <1>5, <2>1
  <2> QED BY <1>3, <1>5, <2>1, <2>2, NpmFindsReleased DEF Body
<1>6. CASE registry = "pypi"
  <2>1. Index \in DOMAIN got /\ PypiFind(Body(got), link) = Found(a)
    BY <1>1, <1>3, <1>6 DEF LinkParts, FindLink
  <2>2. WellFormed("pypi", Index, Body(got))
    BY <1>4, <1>6, <2>1
  <2> QED BY <1>3, <1>6, <2>1, <2>2, PypiFindsReleased DEF Body
<1>7. CASE registry = "cargo"
  <2>1. Index \in DOMAIN got /\ CargoFind(Body(got), link) = Found(a)
    BY <1>1, <1>3, <1>7 DEF LinkParts, FindLink
  <2>2. WellFormed("cargo", Index, Body(got))
    BY <1>4, <1>7, <2>1
  <2> QED BY <1>3, <1>7, <2>1, <2>2, CargoFindsReleased DEF Body
<1>8. CASE registry = "go"
  <2> DEFINE info == got[Part(link)]
             found == IF link = Latest THEN GoFindLatest(info) ELSE GoFind(link, info)
  <2>1. link = Latest \/ GoRoutable(link)
    BY <1>2, <1>3, <1>8 DEF FindLink
  <2>2. Part(link) \in DOMAIN got
    BY <1>1, <1>8, <2>1 DEF LinkParts
  <2>3. found = Found(a)
    BY <1>3, <1>8, <2>1 DEF FindLink
  <2>4. found.status = 200 /\ found.artifact = a
    BY <2>3 DEF Found
  <2>5. info.status = 200 /\ a \in ReleasedBy("go", Part(link), info.body)
    <3> HIDE DEF info
    <3> QED BY <2>4, GoFindsReleased
  <2> QED BY <1>8, <2>2, <2>5
<1>9. CASE registry = "maven"
  <2>1. MavenFind(link, got[Part(link)]) = Found(a) /\ ~link.snapshot
    BY <1>2, <1>3, <1>9 DEF FindLink
  <2>2. Part(link) \in DOMAIN got
    BY <1>1, <1>9, <2>1 DEF LinkParts
  <2>3. /\ MavenFind(link, got[Part(link)]).status = 200
        /\ MavenFind(link, got[Part(link)]).artifact = a
    BY <2>1 DEF Found
  <2> QED BY <1>9, <2>2, <2>3, MavenFindsReleased
<1>10. CASE registry = "rubygems"
  <2> DEFINE replies == Gems(got, link)
  <2>1. GemFind(link, replies) = Found(a)
    BY <1>3, <1>10 DEF FindLink
  <2>2. GemFind(link, replies).status = 200 /\ GemFind(link, replies).artifact = a
    BY <2>1 DEF Found
  <2>3. PICK name \in GemNames(link) :
          /\ replies[name].status = 200
          /\ a \in ReleasedBy("rubygems", GemPart(name), replies[name].body)
    <3> HIDE DEF replies
    <3> QED BY <2>2, GemFindsReleased
  <2>4. ~TooManyNames(link)
    <3> HIDE DEF replies
    <3> QED BY <1>2, <2>2 DEF GemFind
  <2>5. GemPart(name) \in DOMAIN got /\ replies[name] = got[GemPart(name)]
    BY <1>1, <1>10, <2>4 DEF LinkParts, Gems
  <2> QED BY <1>10, <2>3, <2>5
<1>11. CASE registry = "nuget"
  <2> DEFINE index == Body(got)
             pages == Pages(got)
  <2>1. Index \in DOMAIN got
    BY <1>1, <1>11 DEF LinkParts, IndexParts
  <2>2. PagesOf(index) \subseteq DOMAIN got
    BY <1>1, <1>3, <1>11, <2>1 DEF LinkParts, IndexParts, Body
  <2>3. NugetFind(index, pages, link) = Found(a)
    BY <1>3, <1>11 DEF FindLink
  <2>4. ASSUME NEW k \in DOMAIN index, ~index[k].inline
        PROVE  Part(k) \in DOMAIN got /\ pages[k] = got[Part(k)]
    <3>1. ~TooManyPages(index)
      BY <2>3 DEF NugetFind, NugetHydrates, Found, GatewayError
    <3> QED BY <2>2, <2>4, <3>1 DEF PagesOf, Pages, Parts
  <2> HIDE DEF index, pages
  <2>5. WellFormed("nuget", Index, index)
    BY <1>4, <1>11, <2>1 DEF index
  <2>6. \A k \in DOMAIN index :
          ~index[k].inline /\ pages[k].status = 200 => WellFormed("nuget", Part(k), pages[k].body)
    BY <1>11, <2>4, FetchedWasReleased
  <2>7. \/ a \in ReleasedBy("nuget", Index, index)
        \/ \E k \in DOMAIN index : /\ ~index[k].inline /\ pages[k].status = 200
                                   /\ a \in ReleasedBy("nuget", Part(k), pages[k].body)
    BY <2>3, <2>5, <2>6, NugetFindsReleased
  <2>8. a \in ReleasedBy("nuget", Index, index) => Stated(Index)
    BY <1>3, <1>11, <2>1 DEF index, Body
  <2>9. ASSUME NEW k \in DOMAIN index, ~index[k].inline, pages[k].status = 200,
               a \in ReleasedBy("nuget", Part(k), pages[k].body)
        PROVE  Stated(Part(k))
    BY <1>11, <2>4, <2>9
  <2> QED BY <2>7, <2>8, <2>9
<1> QED BY <1>5, <1>6, <1>7, <1>8, <1>9, <1>10, <1>11, DocumentsAreWellFormed
        DEF ServeInv, HistoryInv

-----------------------------------------------------------------------------
(* The steps of a request. *)

\* A request that has fetched nothing yet owes nothing.
LEMMA AskKeepsInvariant ==
  ASSUME ServeInv,
         \/ \E ask : AskListing(ask)
         \/ \E link : AskArtifact(link)
         \/ \E version : AskCheck(version)
  PROVE  ServeInv'
<1>1. /\ history \in Seq(Worlds(registry)) /\ Len(history) \in Nat /\ Len(history) > 0
      /\ Present \in Worlds(registry)
  <2>1. history \in Seq(Worlds(registry)) /\ Len(history) \in Nat /\ Len(history) > 0
    BY DEF ServeInv, HistoryInv
  <2>2. Len(history) \in 1..Len(history)
    BY <2>1
  <2>3. history[Len(history)] \in Worlds(registry)
    BY <2>1, <2>2, ElementOfSeq
  <2> QED BY <2>1, <2>3 DEF Present, Last
<1>2. UNCHANGED <<registry, policy>>
  BY DEF AskListing, AskArtifact, AskCheck
<1>3. ASSUME NEW kind, NEW link, NEW ask \in {"full", "revalidate", "range"}, NEW since,
             since \in 1..Len(history'), request' = Started(kind, link, ask, since)
      PROVE  RequestInv'
  <2>1. /\ Fields \subseteq DOMAIN request' /\ request'.stage = "fetch" /\ request'.ask = ask
        /\ request'.since = since /\ DOMAIN request'.got = {}
    BY <1>3 DEF Started, Fields
  <2>2. FetchedInv(request', history')
    BY <2>1 DEF FetchedInv
  <2> QED BY <1>3, <2>1, <2>2 DEF RequestInv
<1>4. ASSUME NEW ask, AskListing(ask) PROVE ServeInv'
  <2>1. history' = <<Present>> /\ request' = Started("list", NoLink, ask, 1) /\ reply' = None
    BY <1>4 DEF AskListing
  <2>2. history' \in Seq(Worlds(registry)) /\ Len(history') = 1
    BY <1>1, <2>1
  <2>3. HistoryInv'
    BY <1>2, <2>2 DEF ServeInv, HistoryInv
  <2>4. RequestInv'
    BY <1>3, <1>4, <2>1, <2>2 DEF AskListing
  <2>5. ReplyInv'
    BY <2>1 DEF ReplyInv, None
  <2> QED BY <2>3, <2>4, <2>5 DEF ServeInv
<1>5. ASSUME NEW kind, NEW link, request' = Started(kind, link, "full", Len(history)),
             reply' = None, history' = history
      PROVE  ServeInv'
  <2>1. HistoryInv'
    BY <1>2, <1>5 DEF ServeInv, HistoryInv
  <2>2. Len(history) \in 1..Len(history')
    BY <1>1, <1>5
  <2>3. RequestInv'
    BY <1>3, <1>5, <2>2
  <2>4. ReplyInv'
    BY <1>5 DEF ReplyInv, None
  <2> QED BY <2>1, <2>3, <2>4 DEF ServeInv
<1>6. ASSUME NEW link, AskArtifact(link) PROVE ServeInv'
  BY <1>5, <1>6 DEF AskArtifact
<1>7. ASSUME NEW version, AskCheck(version) PROVE ServeInv'
  BY <1>5, <1>7 DEF AskCheck
<1> QED BY <1>4, <1>6, <1>7

\* What is fetched is what upstream says at that moment.
LEMMA FetchKeepsInvariant ==
  ASSUME ServeInv, NEW part, Fetch(part)
  PROVE  ServeInv'
<1> DEFINE got == [p \in DOMAIN request.got \cup {part} |->
                     IF p = part THEN Upstream(part) ELSE request.got[p]]
<1>1. /\ request.stage = "fetch" /\ request' = [request EXCEPT !.got = got]
      /\ UNCHANGED <<registry, policy, history, reply>>
  BY DEF Fetch
<1>2. request # Idle
  BY <1>1 DEF Idle
<1>3. /\ Fields \subseteq DOMAIN request /\ request.ask \in {"full", "revalidate", "range"}
      /\ request.since \in 1..Len(history) /\ FetchedInv(request, history)
      /\ Len(history) \in Nat
  BY <1>2 DEF ServeInv, RequestInv, HistoryInv
<1>4. /\ DOMAIN request' = DOMAIN request /\ request'.got = got /\ request'.stage = "fetch"
      /\ request'.ask = request.ask /\ request'.since = request.since
  BY <1>1, <1>3 DEF Fields
<1>5. FetchedInv(request', history)
  <2> SUFFICES ASSUME NEW p \in DOMAIN got
               PROVE  \E i \in request.since..Len(history) : got[p] = StatedBy(history[i].docs, p)
    BY <1>4 DEF FetchedInv
  <2>1. CASE p = part
    <3>1. got[p] = StatedBy(history[Len(history)].docs, p)
      BY <2>1 DEF Upstream, Present, Last, StatedBy
    <3>2. Len(history) \in request.since..Len(history)
      BY <1>3
    <3> QED BY <3>1, <3>2
  <2>2. CASE p # part
    <3>1. p \in DOMAIN request.got /\ got[p] = request.got[p]
      BY <2>2
    <3> QED BY <1>3, <3>1 DEF FetchedInv
  <2> QED BY <2>1, <2>2
<1>6. RequestInv'
  BY <1>1, <1>3, <1>4, <1>5 DEF RequestInv
<1>7. HistoryInv' /\ ReplyInv'
  BY <1>1 DEF ServeInv, HistoryInv, ReplyInv
<1> QED BY <1>6, <1>7 DEF ServeInv

\* What is decided to be delivered was allowed (artifact_delivery_response of the adapters).
LEMMA DecideKeepsInvariant ==
  ASSUME ServeInv, Decide
  PROVE  ServeInv'
<1> DEFINE found == FindLink(registry, request.got, request.link)
           a == found.artifact
           decision == Evaluate(policy, a, request.now, StoreCheck(Present.store, a))
<1>1. /\ request.stage = "fetch" /\ request.kind = "artifact" /\ Pending = {}
      /\ UNCHANGED <<registry, policy, history>>
  BY DEF Decide
<1>2. request # Idle
  BY <1>1 DEF Idle
<1>3. HistoryInv'
  BY <1>1 DEF ServeInv, HistoryInv
<1>4. CASE \E status : status # 200 /\ Answered(status, NoLink)
  <2>1. request' = Idle /\ reply'.status # 200
    BY <1>4 DEF Answered
  <2> QED BY <1>3, <2>1 DEF ServeInv, RequestInv, ReplyInv
<1>5. CASE /\ found.status = 200 /\ decision.allowed
           /\ request' = [request EXCEPT !.stage = "deliver", !.content = a.content]
           /\ UNCHANGED reply
  <2>1. found = Found(a)
    <3>1. registry \in Registries
      BY DEF ServeInv, HistoryInv
    <3> QED BY <1>5, <3>1, FoundShape
  <2>2. PICK p \in DOMAIN request.got :
          request.got[p].status = 200 /\ a \in ReleasedBy(registry, p, request.got[p].body)
    BY <1>1, <1>2, <2>1, FoundWasReleased
  <2>3. PICK i \in request.since..Len(history) : a \in Released(registry, history[i].docs)
    BY <1>2, <2>2, FetchedWasReleased
  <2>4. /\ Fields \subseteq DOMAIN request /\ request.ask \in {"full", "revalidate", "range"}
        /\ request.since \in 1..Len(history) /\ FetchedInv(request, history)
        /\ Len(history) \in Nat
    BY <1>2 DEF ServeInv, RequestInv, HistoryInv
  <2>5. Len(history) \in request.since..Len(history)
    BY <2>4
  <2>6. Evaluate(policy, a, request.now, StoreCheck(history[Len(history)].store, a)).allowed
    BY <1>5 DEF Present, Last
  <2>7. WasAllowed(registry, policy, history, a.content, request.now, request.since, Len(history))
    BY <2>3, <2>5, <2>6 DEF WasAllowed
  <2>8. /\ DOMAIN request' = DOMAIN request /\ request'.stage = "deliver"
        /\ request'.content = a.content /\ request'.ask = request.ask
        /\ request'.since = request.since /\ request'.now = request.now
        /\ request'.got = request.got
    BY <1>5, <2>4 DEF Fields
  <2>9. FetchedInv(request', history)
    BY <2>4, <2>8 DEF FetchedInv
  <2>10. RequestInv'
    BY <1>1, <2>4, <2>7, <2>8, <2>9 DEF RequestInv
  <2> QED BY <1>1, <1>3, <1>5, <2>10 DEF ServeInv, ReplyInv
<1>6. \/ \E status : status # 200 /\ Answered(status, NoLink)
      \/ /\ found.status = 200 /\ decision.allowed
         /\ request' = [request EXCEPT !.stage = "deliver", !.content = a.content]
         /\ UNCHANGED reply
  BY DEF Decide
<1> QED BY <1>4, <1>5, <1>6

\* What is delivered is what was decided about.
LEMMA DeliverKeepsInvariant ==
  ASSUME ServeInv, Deliver
  PROVE  ServeInv'
<1>1. /\ request.stage = "deliver" /\ UNCHANGED <<registry, policy, history>>
      /\ request' = Idle /\ reply'.content = request.content /\ reply'.now = request.now
      /\ reply'.since = request.since /\ reply'.until = Len(history)
  BY DEF Deliver, Answered
<1>2. request # Idle
  BY <1>1 DEF Idle
<1>3. HistoryInv' /\ RequestInv'
  BY <1>1 DEF ServeInv, HistoryInv, RequestInv
<1>4. /\ request.since \in 1..Len(history) /\ Len(history) \in 1..Len(history)
      /\ WasAllowed(registry, policy, history, request.content, request.now, request.since,
                    Len(history))
  BY <1>1, <1>2 DEF ServeInv, RequestInv, HistoryInv
<1>5. ReplyInv'
  BY <1>1, <1>4 DEF ReplyInv
<1> QED BY <1>3, <1>5 DEF ServeInv

\* The check command delivers nothing.
LEMMA CheckKeepsInvariant ==
  ASSUME ServeInv, Look \/ Judge
  PROVE  ServeInv'
<1>1. UNCHANGED <<registry, policy, history>> /\ request.stage \in {"fetch", "judge"}
  BY DEF Look, Judge
<1>2. request # Idle
  BY <1>1 DEF Idle
<1>3. HistoryInv'
  BY <1>1 DEF ServeInv, HistoryInv
<1>4. CASE \E status, content : status # 200 /\ Answered(status, content)
  <2>1. request' = Idle /\ reply'.status # 200
    BY <1>4 DEF Answered
  <2> QED BY <1>3, <2>1 DEF ServeInv, RequestInv, ReplyInv
<1>5. CASE \E left, allowed :
             /\ request' = [request EXCEPT !.stage = "judge", !.left = left, !.allowed = allowed]
             /\ UNCHANGED reply
  <2>1. PICK left, allowed :
          request' = [request EXCEPT !.stage = "judge", !.left = left, !.allowed = allowed]
    BY <1>5
  <2>2. /\ Fields \subseteq DOMAIN request /\ request.ask \in {"full", "revalidate", "range"}
        /\ request.since \in 1..Len(history) /\ FetchedInv(request, history)
    BY <1>2 DEF ServeInv, RequestInv
  <2>3. /\ DOMAIN request' = DOMAIN request /\ request'.stage = "judge"
        /\ request'.ask = request.ask /\ request'.since = request.since
        /\ request'.got = request.got
    BY <2>1, <2>2 DEF Fields
  <2>4. FetchedInv(request', history)
    BY <2>2, <2>3 DEF FetchedInv
  <2>5. RequestInv'
    BY <1>1, <2>2, <2>3, <2>4 DEF RequestInv
  <2> QED BY <1>1, <1>3, <1>5, <2>5 DEF ServeInv, ReplyInv
<1>6. Fields \subseteq DOMAIN request
  BY <1>2 DEF ServeInv, RequestInv
<1>7. CASE Look
  <2> DEFINE found == CheckLookup(registry, request.got, request.link)
  <2>1. CASE found.ok
    <3>1. /\ request' = [request EXCEPT !.stage = "judge", !.left = found.artifacts]
          /\ UNCHANGED reply
      BY <1>7, <2>1 DEF Look
    <3>2. [request EXCEPT !.stage = "judge", !.left = found.artifacts] =
            [request EXCEPT !.stage = "judge", !.left = found.artifacts, !.allowed = request.allowed]
      BY <1>6 DEF Fields
    <3> QED BY <1>5, <3>1, <3>2
  <2>2. CASE ~found.ok
    <3>1. Answered(1, {})
      BY <1>7, <2>2 DEF Look
    <3> QED BY <1>4, <3>1
  <2> QED BY <2>1, <2>2
<1>8. CASE Judge
  <2> DEFINE artifact == Head(request.left)
             verdict == Verdict(request.allowed, Evaluate(policy, artifact, request.now,
                                                          StoreCheck(Present.store, artifact)))
  <2>1. CASE Len(request.left) > 1
    <3>1. /\ request.stage = "judge" /\ UNCHANGED reply
          /\ request' = [request EXCEPT !.left = Tail(request.left), !.allowed = verdict]
      BY <1>8, <2>1 DEF Judge
    <3> HIDE DEF verdict
    <3>2. [request EXCEPT !.left = Tail(request.left), !.allowed = verdict] =
            [request EXCEPT !.stage = "judge", !.left = Tail(request.left), !.allowed = verdict]
      BY <1>6, <3>1 DEF Fields
    <3> QED BY <1>5, <3>1, <3>2
  <2>2. CASE ~(Len(request.left) > 1)
    <3>1. Answered(IF verdict THEN 0 ELSE 2, artifact.version)
      BY <1>8, <2>2 DEF Judge
    <3> QED BY <1>4, <3>1
  <2> QED BY <2>1, <2>2
<1> QED BY <1>7, <1>8

-----------------------------------------------------------------------------
(* The invariant, and what a client receives. *)

\* Every step of a request, of upstream, of the store and of the clock keeps the invariant.
LEMMA ServeNext == ServeInv /\ [Next]_vars => ServeInv'
<1> SUFFICES ASSUME ServeInv, [Next]_vars PROVE ServeInv'
  OBVIOUS
<1>1. ASSUME NEW part, Fetch(part) PROVE ServeInv'
  BY <1>1, FetchKeepsInvariant
<1>2. CASE AnswerListing
  <2>1. request' = Idle /\ UNCHANGED <<registry, policy, history, reply>>
    BY <1>2 DEF AnswerListing
  <2> QED BY <2>1 DEF ServeInv, HistoryInv, RequestInv, ReplyInv
<1>3. /\ history \in Seq(Worlds(registry)) /\ Len(history) > 0
      /\ Present.docs \in Documents(registry) /\ Present.store \in Stores(registry)
  <2>1. history \in Seq(Worlds(registry)) /\ Len(history) \in 1..Len(history)
    BY DEF ServeInv, HistoryInv
  <2>2. history[Len(history)] \in Worlds(registry)
    BY <2>1, ElementOfSeq
  <2> QED BY <2>1, <2>2 DEF Present, Last, Worlds
<1>4. UpstreamChanges \/ StoreChanges => ServeInv'
  BY <1>3, WorldKeepsInvariant DEF UpstreamChanges, StoreChanges
<1>5. CASE Tick \/ UNCHANGED vars
  <2>1. UNCHANGED <<registry, policy, history, request, reply>>
    BY <1>5 DEF Tick, vars
  <2> QED BY <2>1 DEF ServeInv, HistoryInv, RequestInv, ReplyInv
<1> QED BY <1>1, <1>2, <1>4, <1>5, AskKeepsInvariant, DecideKeepsInvariant,
           DeliverKeepsInvariant, CheckKeepsInvariant DEF Next

\* The worlds, requests and replies of every reachable state: what a running request has
\* fetched was stated by upstream while it ran, and what it is about to deliver, and what was
\* delivered last, was allowed (server.rs 886-1060 and the adapters).
THEOREM ServeInvariant == Spec => []ServeInv
<1> QED BY ServeInit, ServeNext, PTL DEF Spec

\* The bytes that a client receives are of an artifact that upstream stated and policy allows
\* at some moments of the request, whatever upstream and the store did during it, for every
\* registry, document, store, policy and clock (server.rs 886-1060 and every adapter).
THEOREM DeliveryIsAllowed == Spec => []DeliveredWasAllowed
<1>1. ServeInv => DeliveredWasAllowed
  BY DEF ServeInv, ReplyInv, WasAllowed, DeliveredWasAllowed
<1> QED BY <1>1, ServeInvariant, PTL

-----------------------------------------------------------------------------
(* The listing that a client holds, and what names a version in it. *)

\* A client that was answered with a listing holds that listing or nothing.
LEMMA CopyIsBody ==
  ASSUME NEW body, request.ask \in {"full", "revalidate", "range"}
  PROVE  CopyAfter(ListReply(body)) \in {<<>>, body}
<1> DEFINE answer == ListReply(body)
<1>1. CASE request.ask = "full"
  <2>1. answer = Full(body)
    BY <1>1 DEF ListReply
  <2> QED BY <2>1 DEF CopyAfter, Full
<1>2. CASE request.ask = "revalidate"
  <2>1. answer = IfNoneMatch(body, TagOf(copy))
    BY <1>2 DEF ListReply
  <2>2. TagMatches(body, TagOf(copy)) <=> copy = body
    BY DEF TagMatches, TagOf
  <2> QED BY <2>1, <2>2 DEF IfNoneMatch, CopyAfter, Full, NotModified
<1>3. CASE request.ask = "range"
  <2> DEFINE range == [first |-> Len(copy), last |-> Unbounded]
  <2>1. answer = FilteredRepresentation(body, TagOf(copy), range, NoTag)
    BY <1>3 DEF ListReply
  <2>2. TagMatches(body, TagOf(copy)) <=> copy = body
    BY DEF TagMatches, TagOf
  <2>3. \/ answer = NotModified(body) /\ copy = body
        \/ answer = Full(body) \/ answer = Unsatisfiable(body)
        \/ \E first, last : answer = Partial(body, first, last)
    BY <2>1, <2>2 DEF FilteredRepresentation
  <2> HIDE DEF answer
  <2>4. ASSUME NEW first, NEW last, answer = Partial(body, first, last)
        PROVE  CopyAfter(answer) \in {<<>>, body}
    BY <2>4 DEF CopyAfter, Partial
  <2> QED BY <2>3, <2>4 DEF CopyAfter, Full, NotModified, Unsatisfiable, answer
<1> QED BY <1>1, <1>2, <1>3

\* In every registry's listing, what names a version names one of an entry (npm.rs, pypi.rs,
\* nuget.rs and maven.rs; the others have nothing of the kind).
LEMMA PointersAreShown ==
  ASSUME registry \in Registries, NEW got, NEW artifacts, NEW decisions
  PROVE  LET shown == ListingOf(registry, got, artifacts, decisions)
         IN shown.pointers \subseteq {e.version : e \in Range(shown.entries)}
<1> DEFINE Named(l) == l.pointers \subseteq {e.version : e \in Range(l.entries)}
<1>1. \A doc : Named(NpmListing(doc, decisions))
  <2> SUFFICES ASSUME NEW doc PROVE Named(NpmListing(doc, decisions))
    OBVIOUS
  <2> DEFINE kept == Kept(doc.versions, decisions)
             l == NpmListing(doc, decisions)
  <2>1. /\ l.pointers \subseteq {e.version : e \in Range(kept)}
        /\ l.entries = [i \in DOMAIN kept |-> Entry(kept[i].version, NpmLink(doc, kept[i]))]
    BY DEF NpmListing
  <2> HIDE DEF kept, l
  <2>2. \A i \in DOMAIN kept : l.entries[i].version = kept[i].version
    BY <2>1 DEF Entry
  <2>3. Named(l)
    BY <2>1, <2>2 DEF Range
  <2> QED BY <2>3 DEF l
<1>2. \A doc : Named(PypiListing(doc, decisions))
  <2> SUFFICES ASSUME NEW doc PROVE Named(PypiListing(doc, decisions))
    OBVIOUS
  <2> DEFINE kept == Kept(doc.files, decisions)
             l == PypiListing(doc, decisions)
  <2>1. /\ l.pointers = {PypiInferVersion(doc.name, f) : f \in Range(kept)}
        /\ l.entries = [i \in DOMAIN kept |-> PypiEntry(doc, kept[i])]
    BY DEF PypiListing
  <2> HIDE DEF kept, l
  <2>2. \A i \in DOMAIN kept : l.entries[i].version = PypiInferVersion(doc.name, kept[i])
    BY <2>1 DEF PypiEntry, Entry
  <2>3. Named(l)
    BY <2>1, <2>2 DEF Range
  <2> QED BY <2>3 DEF l
<1>3. \A index, pages : Named(NugetListing(index, pages, decisions))
  <2> SUFFICES ASSUME NEW index, NEW pages PROVE Named(NugetListing(index, pages, decisions))
    OBVIOUS
  <2> DEFINE kept == Kept(NugetLeaves(index, pages), decisions)
             l == NugetListing(index, pages, decisions)
             linkOf(leaf) == IF leaf.catalog = "object" THEN leaf.version ELSE NoLink
  <2>1. /\ l.pointers \subseteq {leaf.version : leaf \in Range(kept)}
        /\ l.entries = [i \in DOMAIN kept |-> Entry(kept[i].version, linkOf(kept[i]))]
    BY DEF NugetListing, NugetFlatIndex
  <2> HIDE DEF kept, l
  <2>2. \A i \in DOMAIN kept : l.entries[i].version = kept[i].version
    BY <2>1 DEF Entry
  <2>3. Named(l)
    BY <2>1, <2>2 DEF Range
  <2> QED BY <2>3 DEF l
<1>4. Named(MavenListing(artifacts, decisions))
  <2> DEFINE kept == Kept(artifacts, decisions)
             l == MavenListing(artifacts, decisions)
  <2>1. /\ l.pointers \subseteq {kept[i].version : i \in DOMAIN kept}
        /\ l.entries = [i \in DOMAIN kept |-> Entry(kept[i].version, kept[i].version)]
    BY DEF MavenListing, RenderMetadata
  <2> HIDE DEF kept, l
  <2>2. \A i \in DOMAIN kept : l.entries[i].version = kept[i].version
    BY <2>1 DEF Entry
  <2>3. Named(l)
    BY <2>1, <2>2 DEF Range
  <2> QED BY <2>3 DEF l
<1>5. /\ \A lines : CargoListing(lines, decisions).pointers = {}
      /\ GoListing(artifacts, decisions).pointers = {}
      /\ \A name, lines : GemListing(name, lines, decisions).pointers = {}
  BY DEF CargoListing, GoListing, GemListing
<1>6. CASE registry = "npm"
  BY <1>1, <1>6 DEF ListingOf
<1>7. CASE registry = "pypi"
  BY <1>2, <1>7 DEF ListingOf
<1>8. CASE registry = "nuget"
  BY <1>3, <1>8 DEF ListingOf
<1>9. CASE registry = "maven"
  BY <1>4, <1>9 DEF ListingOf
<1>10. CASE registry \in {"cargo", "go", "rubygems"}
  <2>1. ListingOf(registry, got, artifacts, decisions).pointers = {}
    BY <1>5, <1>10 DEF ListingOf
  <2> QED BY <2>1
<1> QED BY <1>6, <1>7, <1>8, <1>9, <1>10, DocumentsAreWellFormed

\* The listing is left alone but where it is asked for and answered.
LEMMA ListingSteps ==
  [Next]_vars =>
    \/ listing' = None
    \/ AnswerListing
    \/ UNCHANGED <<listing, copy>>
BY DEF Next, vars, AskListing, AskArtifact, AskCheck, Fetch, Decide, Deliver, Look, Judge,
       UpstreamChanges, StoreChanges, World, Tick

\* A new listing shows what it names, and the client holds it or nothing.
LEMMA AnswerIsCurrent ==
  ASSUME ServeInv, AnswerListing
  PROVE  \/ UNCHANGED <<listing, copy>>
         \/ /\ copy' \in {<<>>, listing'.entries}
            /\ listing'.pointers \subseteq {e.version : e \in Range(listing'.entries)}
<1> DEFINE artifacts == ListCandidates(registry, request.got).artifacts
           decisions == EvaluateArtifacts(policy, artifacts, request.now,
                                          StoreBatch(policy, Present.store, artifacts))
           shown == ListingOf(registry, request.got, artifacts, decisions)
<1>1. CASE ListCandidates(registry, request.got).ok
  <2>1. /\ copy' = CopyAfter(ListReply(shown.entries)) /\ listing'.entries = shown.entries
        /\ listing'.pointers = shown.pointers
    BY <1>1 DEF AnswerListing
  <2>2. request # Idle
    BY DEF AnswerListing, Idle
  <2>3. request.ask \in {"full", "revalidate", "range"} /\ registry \in Registries
    BY <2>2 DEF ServeInv, RequestInv, HistoryInv
  <2>4. shown.pointers \subseteq {e.version : e \in Range(shown.entries)}
    BY <2>3, PointersAreShown
  <2> HIDE DEF shown
  <2> QED BY <2>1, <2>3, <2>4, CopyIsBody
<1>2. CASE ~ListCandidates(registry, request.got).ok
  BY <1>2 DEF AnswerListing
<1> QED BY <1>1, <1>2

\* A client that revalidates its copy of a listing, or asks for what follows it, holds the
\* listing that was filtered for it or nothing, whatever it held before (apply_if_none_match
\* of cargo.rs and maven.rs, filtered_representation_response of rubygems.rs).
THEOREM CopyIsCurrent == Spec => []ClientCopyIsCurrent
<1>1. Init => ClientCopyIsCurrent
  BY DEF Init, ClientCopyIsCurrent
<1>2. ServeInv /\ ClientCopyIsCurrent /\ [Next]_vars => ClientCopyIsCurrent'
  BY ListingSteps, AnswerIsCurrent DEF ClientCopyIsCurrent
<1> QED BY <1>1, <1>2, ServeInvariant, PTL DEF Spec

\* What names a version beside the entries names one that the entries show, whatever policy
\* removed (npm's dist-tags, Maven's latest and release, the flat container index).
THEOREM PointersAreNamed == Spec => []PointersNameShown
<1>1. Init => PointersNameShown
  BY DEF Init, PointersNameShown
<1>2. ServeInv /\ PointersNameShown /\ [Next]_vars => PointersNameShown'
  BY ListingSteps, AnswerIsCurrent DEF PointersNameShown
<1> QED BY <1>1, <1>2, ServeInvariant, PTL DEF Spec

-----------------------------------------------------------------------------
(* What is taken from a sequence, and in what order. *)

\* Finitely many numbers.
Places(indices) == indices \subseteq Nat /\ IsFiniteSet(indices)

\* The members of a sequence have numbers from one on.
Sized(s) == \E n \in Nat : DOMAIN s = 1..n

\* What is at some places of a sequence is taken from it, once each and nothing else.
LEMMA TakenFromPlaces ==
  ASSUME NEW items, NEW indices, Places(indices)
  PROVE  /\ Cardinality(indices) \in Nat
         /\ DOMAIN AtIndices(items, indices) = 1..Cardinality(indices)
         /\ \A n \in DOMAIN AtIndices(items, indices) :
              \E i \in indices : AtIndices(items, indices)[n] = items[i]
         /\ \A i \in indices :
              \E n \in DOMAIN AtIndices(items, indices) : AtIndices(items, indices)[n] = items[i]
<1> DEFINE taken == AtIndices(items, indices)
<1>1. /\ Cardinality(indices) \in Nat
      /\ \A i \in indices : Rank(indices, i) \in 1..Cardinality(indices)
      /\ \A i, k \in indices : Rank(indices, i) = Rank(indices, k) => i = k
      /\ \A n \in 1..Cardinality(indices) : \E i \in indices : Rank(indices, i) = n
  BY RankIsPlace DEF Places
<1>2. taken = [n \in 1..Cardinality(indices) |-> items[CHOOSE i \in indices : Rank(indices, i) = n]]
  BY DEF AtIndices, Rank
<1>3. ASSUME NEW i \in indices PROVE taken[Rank(indices, i)] = items[i]
  <2>1. (CHOOSE k \in indices : Rank(indices, k) = Rank(indices, i)) = i
    BY <1>1
  <2> HIDE DEF taken
  <2> QED BY <1>1, <1>2, <2>1
<1> HIDE DEF taken
<1>4. ASSUME NEW n \in DOMAIN taken PROVE \E i \in indices : taken[n] = items[i]
  <2>1. PICK i \in indices : Rank(indices, i) = n
    BY <1>1, <1>2
  <2> QED BY <1>3, <2>1
<1>5. DOMAIN taken = 1..Cardinality(indices)
  BY <1>2
<1> QED BY <1>1, <1>3, <1>4, <1>5 DEF taken

\* What is taken at a set of places is what is there.
LEMMA TakenAre ==
  ASSUME NEW items, NEW indices, Places(indices)
  PROVE  /\ Sized(AtIndices(items, indices))
         /\ Range(AtIndices(items, indices)) = {items[i] : i \in indices}
<1> DEFINE taken == AtIndices(items, indices)
<1>1. Cardinality(indices) \in Nat /\ DOMAIN taken = 1..Cardinality(indices)
  BY TakenFromPlaces
<1>2. \A n \in DOMAIN taken : \E i \in indices : taken[n] = items[i]
  BY TakenFromPlaces
<1>3. \A i \in indices : \E n \in DOMAIN taken : taken[n] = items[i]
  BY TakenFromPlaces
<1> HIDE DEF taken
<1> QED BY <1>1, <1>2, <1>3 DEF Range, Sized, taken

\* What is kept are the items that are allowed.
LEMMA KeptAreAllowed ==
  ASSUME NEW items, Sized(items), NEW decisions
  PROVE  /\ Sized(Kept(items, decisions))
         /\ \A k \in DOMAIN Kept(items, decisions) : \E i \in DOMAIN items :
              decisions[i].allowed /\ Kept(items, decisions)[k] = items[i]
         /\ \A i \in DOMAIN items : decisions[i].allowed =>
              \E k \in DOMAIN Kept(items, decisions) : Kept(items, decisions)[k] = items[i]
<1> DEFINE indices == {i \in DOMAIN items : decisions[i].allowed}
<1>1. Places(indices)
  <2> PICK n \in Nat : DOMAIN items = 1..n
    BY DEF Sized
  <2>1. IsFiniteSet(1..n)
    BY FS_Interval
  <2>2. indices \in SUBSET (1..n) /\ indices \subseteq Nat
    OBVIOUS
  <2> HIDE DEF indices
  <2>3. IsFiniteSet(indices)
    BY <2>1, <2>2, FS_Subset
  <2> QED BY <2>2, <2>3 DEF Places
<1>2. Kept(items, decisions) = AtIndices(items, indices)
  BY DEF Kept
<1>3. \A i : i \in indices <=> i \in DOMAIN items /\ decisions[i].allowed
  OBVIOUS
<1> HIDE DEF indices
<1> QED BY <1>1, <1>2, <1>3, TakenFromPlaces DEF Sized

\* Versions in their order are those versions.
LEMMA InOrderAreAll ==
  ASSUME NEW versions, IsFiniteSet(versions), \A v \in versions : v.n \in Nat,
         \A v, w \in versions : v.n = w.n => v = w
  PROVE  Sized(InOrder(versions)) /\ Range(InOrder(versions)) = versions
<1> DEFINE numbers == {v.n : v \in versions}
           number == [v \in versions |-> v.n]
           named == [n \in numbers |-> CHOOSE v \in versions : v.n = n]
<1>1. Places(numbers)
  <2>1. number \in Surjection(versions, numbers)
    BY DEF Surjection
  <2>2. numbers \subseteq Nat
    OBVIOUS
  <2> HIDE DEF number, numbers
  <2> QED BY <2>1, <2>2, FS_Surjection DEF Places
<1>2. InOrder(versions) = AtIndices(named, numbers)
  BY DEF InOrder
<1>3. \A v \in versions : v.n \in numbers /\ named[v.n] = v
  OBVIOUS
<1>4. \A n \in numbers : named[n] \in versions
  OBVIOUS
<1> HIDE DEF numbers, named
<1>5. /\ Sized(AtIndices(named, numbers))
      /\ Range(AtIndices(named, numbers)) = {named[i] : i \in numbers}
  BY <1>1, TakenAre
<1>6. {named[i] : i \in numbers} = versions
  BY <1>3, <1>4
<1> QED BY <1>2, <1>5, <1>6

-----------------------------------------------------------------------------
(* What policy decides. *)

\* The decision about an artifact, with the store as it is.
Allowed(p, store, a, at) == Evaluate(p, a, at, StoreCheck(store, a)).allowed

\* The batch of a listing decides about each artifact as it is decided by itself.
LEMMA BatchDecides ==
  ASSUME NEW p, NEW store, NEW artifacts, NEW n \in Nat, DOMAIN artifacts = 1..n, NEW at,
         NEW i \in DOMAIN artifacts
  PROVE  EvaluateArtifacts(p, artifacts, at, StoreBatch(p, store, artifacts))[i].allowed
           = Allowed(p, store, artifacts[i], at)
<1> DEFINE indices == Indices(p, artifacts)
           checked == Checked(p, artifacts)
           answer == StoreBatch(p, store, artifacts)
           result == BatchResult(p, artifacts, answer, i)
<1>1. EvaluateArtifacts(p, artifacts, at, answer)[i] = Evaluate(p, artifacts[i], at, result)
  BY DEF EvaluateArtifacts
<1>2. CASE ShouldCheckOsv(p, artifacts[i])
  <2>1. i \in indices /\ indices \in SUBSET (1..n)
    BY <1>2 DEF Indices
  <2>2. indices \subseteq Nat /\ IsFiniteSet(indices)
    <3>1. IsFiniteSet(1..n)
      BY FS_Interval
    <3> QED BY <2>1, <3>1, FS_Subset
  <2>3. /\ Rank(indices, i) \in 1..Cardinality(indices)
        /\ \A k \in indices : Rank(indices, k) = Rank(indices, i) => k = i
    BY <2>1, <2>2, RankIsPlace
  <2>4. (CHOOSE k \in indices : Rank(indices, k) = Rank(indices, i)) = i
    BY <2>1, <2>3
  <2>5. /\ BatchIndex(p, artifacts, i) \in DOMAIN checked
        /\ checked[BatchIndex(p, artifacts, i)] = artifacts[i]
    BY <2>3, <2>4 DEF Checked, AtIndices, BatchIndex, Rank
  <2> HIDE DEF checked
  <2>6. /\ answer.ok = store.ok /\ DOMAIN answer.results = DOMAIN checked
        /\ answer.results[BatchIndex(p, artifacts, i)] = HitsOf(store, artifacts[i])
    BY <2>5 DEF StoreBatch, checked
  <2>7. result = StoreCheck(store, artifacts[i])
    BY <2>1, <2>6 DEF BatchResult, StoreCheck, checked
  <2> QED BY <1>1, <2>7 DEF Allowed
<1>3. CASE ~ShouldCheckOsv(p, artifacts[i])
  BY <1>1, <1>3 DEF Allowed, Evaluate
<1> QED BY <1>2, <1>3

\* What is allowed stays so as time goes on.
LEMMA AllowedGrows ==
  ASSUME NEW p, p.minimumAge \in Int, NEW store, NEW a, a.published \in Int,
         NEW at \in Int, NEW later \in Int, at <= later, Allowed(p, store, a, at)
  PROVE  Allowed(p, store, a, later)
<1> DEFINE osv == StoreCheck(store, a)
           byOsv == IF ShouldCheckOsv(p, a) THEN OsvDecision(p, osv) ELSE Pass
<1>1. TooYoung(p, a, later) => TooYoung(p, a, at)
  BY DEF TooYoung, EligibleAt
<1>2. AgeDecision(p, a, at).allowed => AgeDecision(p, a, later).allowed
  BY <1>1 DEF AgeDecision, Blocked, Allow
<1>3. ListDecision(p, a, at).allowed => ListDecision(p, a, later).allowed
  BY <1>2 DEF ListDecision
<1> HIDE DEF byOsv
<1>4. /\ Allowed(p, store, a, at) = IF byOsv # Pass THEN byOsv.allowed ELSE ListDecision(p, a, at).allowed
      /\ Allowed(p, store, a, later) = IF byOsv # Pass THEN byOsv.allowed ELSE ListDecision(p, a, later).allowed
  BY DEF Allowed, Evaluate, byOsv
<1> QED BY <1>3, <1>4

-----------------------------------------------------------------------------
(* What a listing shows. *)

\* What a request has of a state of upstream, when it has these parts.
Fetched(got, parts, docs) ==
  parts \subseteq DOMAIN got /\ \A p \in DOMAIN got : got[p] = StatedBy(docs, p)

\* The link to an artifact of a listing, and its entry.
LinkAt(r, got, i) ==
  CASE r = "npm" -> NpmLink(Body(got), Body(got).versions[i])
    [] r = "pypi" -> PypiEntry(Body(got), Body(got).files[i]).link
    [] r = "nuget" -> LET leaf == NugetLeaves(Body(got), Pages(got))[i]
                      IN IF leaf.catalog = "object" THEN leaf.version ELSE NoLink
    [] r = "rubygems" -> GemFile(GemName, Body(got)[i])
    [] OTHER -> ListCandidates(r, got).artifacts[i].version
EntryAt(r, got, i) == Entry(ListCandidates(r, got).artifacts[i].version, LinkAt(r, got, i))

\* The artifacts that are decided are dated, and the entries that are shown are theirs.
Shows(r, got, decisions) ==
  LET artifacts == ListCandidates(r, got).artifacts
  IN Range(ListingOf(r, got, artifacts, decisions).entries) =
       {EntryAt(r, got, i) : i \in {j \in DOMAIN artifacts : decisions[j].allowed}}
Listable(r, got) ==
  LET artifacts == ListCandidates(r, got).artifacts
  IN /\ Sized(artifacts) /\ \A i \in DOMAIN artifacts : artifacts[i].published \in Int
     /\ \A decisions : Shows(r, got, decisions)

\* What is stated of a part is well formed.
LEMMA StatedIsWellFormed ==
  ASSUME NEW r \in Registries, NEW docs \in Documents(r), NEW p, StatedBy(docs, p).status = 200
  PROVE  p \in DOMAIN docs /\ docs[p] = StatedBy(docs, p) /\ WellFormed(r, p, docs[p].body)
<1>1. p \in DOMAIN docs /\ docs[p] = StatedBy(docs, p)
  BY DEF StatedBy, Absent, Refusal
<1> QED BY <1>1, DocumentsAreWellFormed

\* A listing that makes one entry of each item that is kept shows the entries of the items
\* that are allowed.
LEMMA KeptShows ==
  ASSUME NEW r, NEW got, NEW items, Sized(items),
         DOMAIN ListCandidates(r, got).artifacts = DOMAIN items, NEW decisions, NEW entries,
         ListingOf(r, got, ListCandidates(r, got).artifacts, decisions).entries = entries,
         DOMAIN entries = DOMAIN Kept(items, decisions),
         \A k \in DOMAIN entries : \A i \in DOMAIN items :
           Kept(items, decisions)[k] = items[i] => entries[k] = EntryAt(r, got, i)
  PROVE  Shows(r, got, decisions)
<1>1. /\ \A k \in DOMAIN entries : \E i \in DOMAIN items :
           decisions[i].allowed /\ Kept(items, decisions)[k] = items[i]
      /\ \A i \in DOMAIN items : decisions[i].allowed =>
           \E k \in DOMAIN entries : Kept(items, decisions)[k] = items[i]
  BY KeptAreAllowed
<1>2. Range(entries) = {EntryAt(r, got, i) : i \in {j \in DOMAIN items : decisions[j].allowed}}
  BY <1>1 DEF Range
<1> QED BY <1>2 DEF Shows

\* A listing is made of the index that upstream states (every adapter).
ListsFrom(r, got, docs) ==
  /\ r \in Registries /\ docs \in Documents(r)
  /\ Fetched(got, ListParts(r, got), docs) /\ ListCandidates(r, got).ok

\* The document that a listing begins with is the one that upstream states.
LEMMA IndexIsStated ==
  ASSUME NEW r, NEW got, NEW docs, ListsFrom(r, got, docs)
  PROVE  /\ Index \in DOMAIN got /\ Index \in DOMAIN docs /\ docs[Index] = got[Index]
         /\ docs[Index].status = 200 /\ docs[Index].body = Body(got)
         /\ WellFormed(r, Index, Body(got))
<1>1. r \in {"npm", "pypi", "cargo", "go", "nuget", "rubygems", "maven"}
  BY DocumentsAreWellFormed DEF ListsFrom
<1>2. Index \in ListParts(r, got)
  BY <1>1 DEF ListParts, IndexParts
<1>3. Index \in DOMAIN got /\ got[Index] = StatedBy(docs, Index)
  BY <1>2 DEF ListsFrom, Fetched
<1>4. got[Index].status = 200
  BY <1>3 DEF ListsFrom, ListCandidates, NoListing
<1>5. Index \in DOMAIN docs /\ docs[Index] = got[Index] /\ WellFormed(r, Index, docs[Index].body)
  BY <1>3, <1>4, StatedIsWellFormed DEF ListsFrom
<1> QED BY <1>3, <1>4, <1>5 DEF Body

\* npm: versions in the order of the document (npm.rs 210-262).
LEMMA NpmListable ==
  ASSUME NEW got, NEW docs, ListsFrom("npm", got, docs)
  PROVE  Listable("npm", got)
<1> DEFINE doc == Body(got)
           artifacts == ListCandidates("npm", got).artifacts
<1>1. artifacts = [i \in DOMAIN doc.versions |-> NpmArtifact(doc.versions[i])]
  BY DEF ListsFrom, ListCandidates, NpmCandidates, Candidates, NoListing
<1>2. doc.versions \in Seq(Range(doc.versions)) /\ \A e \in Range(doc.versions) : e.published \in Int
  BY IndexIsStated DEF WellFormed
<1>3. Sized(doc.versions) /\ DOMAIN artifacts = DOMAIN doc.versions /\ Sized(artifacts)
  BY <1>1, <1>2 DEF Sized
<1>4. ASSUME NEW i \in DOMAIN artifacts PROVE artifacts[i].published \in Int
  <2>1. artifacts[i] = NpmArtifact(doc.versions[i]) /\ doc.versions[i] \in Range(doc.versions)
    BY <1>1 DEF Range
  <2> QED BY <1>2, <2>1 DEF NpmArtifact, Artifact
<1>5. \A i \in DOMAIN doc.versions :
        EntryAt("npm", got, i) = Entry(doc.versions[i].version, NpmLink(doc, doc.versions[i]))
  BY <1>1 DEF EntryAt, LinkAt, NpmArtifact, Artifact
<1>6. ASSUME NEW decisions PROVE Shows("npm", got, decisions)
  <2> DEFINE kept == Kept(doc.versions, decisions)
             entries == NpmListing(doc, decisions).entries
  <2>1. /\ entries = [k \in DOMAIN kept |-> Entry(kept[k].version, NpmLink(doc, kept[k]))]
        /\ ListingOf("npm", got, artifacts, decisions).entries = entries
    BY DEF NpmListing, ListingOf
  <2> HIDE DEF entries, doc
  <2>2. /\ DOMAIN entries = DOMAIN kept
        /\ \A k \in DOMAIN entries : \A i \in DOMAIN doc.versions :
             kept[k] = doc.versions[i] => entries[k] = EntryAt("npm", got, i)
    BY <1>5, <2>1
  <2> QED BY <1>3, <2>1, <2>2, KeptShows
<1> QED BY <1>3, <1>4, <1>6 DEF Listable

\* PyPI: files whose version could be inferred (pypi.rs).
LEMMA PypiListable ==
  ASSUME NEW got, NEW docs, ListsFrom("pypi", got, docs)
  PROVE  Listable("pypi", got)
<1> DEFINE doc == Body(got)
           artifacts == ListCandidates("pypi", got).artifacts
<1>1. artifacts = [i \in DOMAIN doc.files |-> PypiArtifact(doc, doc.files[i])]
  BY DEF ListsFrom, ListCandidates, PypiCandidates, Candidates, NoListing
<1>2. doc.files \in Seq(Range(doc.files)) /\ \A f \in Range(doc.files) : f.published \in Int
  BY IndexIsStated DEF WellFormed
<1>3. Sized(doc.files) /\ DOMAIN artifacts = DOMAIN doc.files /\ Sized(artifacts)
  BY <1>1, <1>2 DEF Sized
<1>4. ASSUME NEW i \in DOMAIN artifacts PROVE artifacts[i].published \in Int
  <2>1. artifacts[i] = PypiArtifact(doc, doc.files[i]) /\ doc.files[i] \in Range(doc.files)
    BY <1>1 DEF Range
  <2> QED BY <1>2, <2>1 DEF PypiArtifact, Artifact
<1>5. \A i \in DOMAIN doc.files : EntryAt("pypi", got, i) = PypiEntry(doc, doc.files[i])
  BY <1>1 DEF EntryAt, LinkAt, PypiArtifact, Artifact, PypiEntry, Entry
<1>6. ASSUME NEW decisions PROVE Shows("pypi", got, decisions)
  <2> DEFINE kept == Kept(doc.files, decisions)
             entries == PypiListing(doc, decisions).entries
  <2>1. /\ entries = [k \in DOMAIN kept |-> PypiEntry(doc, kept[k])]
        /\ ListingOf("pypi", got, artifacts, decisions).entries = entries
    BY DEF PypiListing, ListingOf
  <2> HIDE DEF entries, doc
  <2>2. /\ DOMAIN entries = DOMAIN kept
        /\ \A k \in DOMAIN entries : \A i \in DOMAIN doc.files :
             kept[k] = doc.files[i] => entries[k] = EntryAt("pypi", got, i)
    BY <1>5, <2>1
  <2> QED BY <1>3, <2>1, <2>2, KeptShows
<1> QED BY <1>3, <1>4, <1>6 DEF Listable

\* Cargo: one entry per index line (cargo.rs).
LEMMA CargoListable ==
  ASSUME NEW got, NEW docs, ListsFrom("cargo", got, docs)
  PROVE  Listable("cargo", got)
<1> DEFINE lines == Body(got)
           artifacts == ListCandidates("cargo", got).artifacts
<1>1. artifacts = [i \in DOMAIN lines |-> CargoArtifact(lines[i])]
  BY DEF ListsFrom, ListCandidates, CargoCandidates, Candidates, NoListing
<1>2. lines \in Seq(Range(lines)) /\ \A l \in Range(lines) : l.published \in Int
  BY IndexIsStated DEF WellFormed
<1>3. Sized(lines) /\ DOMAIN artifacts = DOMAIN lines /\ Sized(artifacts)
  BY <1>1, <1>2 DEF Sized
<1>4. ASSUME NEW i \in DOMAIN artifacts PROVE artifacts[i].published \in Int
  <2>1. artifacts[i] = CargoArtifact(lines[i]) /\ lines[i] \in Range(lines)
    BY <1>1 DEF Range
  <2> QED BY <1>2, <2>1 DEF CargoArtifact, Artifact
<1>5. \A i \in DOMAIN lines : EntryAt("cargo", got, i) = Entry(lines[i].version, lines[i].version)
  BY <1>1 DEF EntryAt, LinkAt, CargoArtifact, Artifact
<1>6. ASSUME NEW decisions PROVE Shows("cargo", got, decisions)
  <2> DEFINE kept == Kept(lines, decisions)
             entries == CargoListing(lines, decisions).entries
  <2>1. /\ entries = [k \in DOMAIN kept |-> Entry(kept[k].version, kept[k].version)]
        /\ ListingOf("cargo", got, artifacts, decisions).entries = entries
    BY DEF CargoListing, ListingOf
  <2> HIDE DEF entries, lines
  <2>2. /\ DOMAIN entries = DOMAIN kept
        /\ \A k \in DOMAIN entries : \A i \in DOMAIN lines :
             kept[k] = lines[i] => entries[k] = EntryAt("cargo", got, i)
    BY <1>5, <2>1
  <2> QED BY <1>3, <2>1, <2>2, KeptShows
<1> QED BY <1>3, <1>4, <1>6 DEF Listable

\* RubyGems: one entry per line of the compact index, with its platform (rubygems.rs).
LEMMA GemsListable ==
  ASSUME NEW got, NEW docs, ListsFrom("rubygems", got, docs)
  PROVE  Listable("rubygems", got)
<1> DEFINE lines == Body(got)
           artifacts == ListCandidates("rubygems", got).artifacts
<1>1. artifacts = [i \in DOMAIN lines |-> GemArtifact(GemName, lines[i])]
  BY DEF ListsFrom, ListCandidates, GemCandidates, Candidates, NoListing
<1>2. Sized(lines) /\ DOMAIN artifacts = DOMAIN lines /\ Sized(artifacts)
  <2>1. WellFormed("rubygems", Index, lines)
    BY IndexIsStated
  <2> HIDE DEF lines, artifacts
  <2>2. lines \in Seq(Range(lines))
    BY <2>1 DEF WellFormed
  <2> QED BY <1>1, <2>2 DEF Sized
<1>3. ASSUME NEW i \in DOMAIN artifacts PROVE artifacts[i].published \in Int
  <2>1. artifacts[i] = GemArtifact(GemName, lines[i]) /\ lines[i] \in Range(lines)
    BY <1>1 DEF Range
  <2>2. \A v \in Range(lines) : v.created \in Int
    BY IndexIsStated DEF WellFormed
  <2> QED BY <2>1, <2>2 DEF GemArtifact, Artifact
<1>4. \A i \in DOMAIN lines : EntryAt("rubygems", got, i) =
                                Entry(GemId(GemName, lines[i].number), GemFile(GemName, lines[i]))
  BY <1>1 DEF EntryAt, LinkAt, GemArtifact, Artifact
<1>5. ASSUME NEW decisions PROVE Shows("rubygems", got, decisions)
  <2> DEFINE kept == Kept(lines, decisions)
             entries == GemListing(GemName, lines, decisions).entries
  <2>1. /\ entries = [k \in DOMAIN kept |->
                        Entry(GemId(GemName, kept[k].number), GemFile(GemName, kept[k]))]
        /\ ListingOf("rubygems", got, artifacts, decisions).entries = entries
    BY DEF GemListing, ListingOf
  <2> HIDE DEF entries, lines
  <2>2. /\ DOMAIN entries = DOMAIN kept
        /\ \A k \in DOMAIN entries : \A i \in DOMAIN lines :
             kept[k] = lines[i] => entries[k] = EntryAt("rubygems", got, i)
    BY <1>4, <2>1
  <2> QED BY <1>2, <2>1, <2>2, KeptShows
<1> QED BY <1>2, <1>3, <1>5 DEF Listable

\* The leaves of a registration are those of its index and of its pages.
LEMMA NugetLeavesAre ==
  ASSUME NEW index, NEW pages, WellFormed("nuget", Index, index), NugetHydrates(index, pages),
         \A k \in DOMAIN index :
           ~index[k].inline /\ pages[k].status = 200 => WellFormed("nuget", Part(k), pages[k].body)
  PROVE  /\ NugetLeaves(index, pages) \in Seq(Range(NugetLeaves(index, pages)))
         /\ \A leaf \in Range(NugetLeaves(index, pages)) : \E k \in DOMAIN index :
              /\ leaf.published \in Int
              /\ \/ index[k].inline /\ leaf \in Range(index[k].leaves)
                 \/ ~index[k].inline /\ leaf \in Range(pages[k].body)
<1> DEFINE leaves == NugetLeaves(index, pages)
           all == NugetPages(index, pages)
           S == UNION {Range(all[k]) : k \in DOMAIN index}
<1>1. index \in Seq(Range(index)) /\ DOMAIN index = 1..Len(index) /\ Len(index) \in Nat
  BY DEF WellFormed
<1>2. ASSUME NEW k \in DOMAIN index
      PROVE  /\ all[k] = IF index[k].inline THEN index[k].leaves ELSE pages[k].body
             /\ all[k] \in Seq(Range(all[k])) /\ \A leaf \in Range(all[k]) : leaf.published \in Int
  <2>1. CASE index[k].inline
    <3>1. index[k] \in Range(index)
      BY DEF Range
    <3> QED BY <2>1, <3>1 DEF NugetPages, WellFormed, Index
  <2>2. CASE ~index[k].inline
    <3>1. WellFormed("nuget", Part(k), pages[k].body) /\ Part(k) # Index
      BY <2>2 DEF NugetHydrates, Part, Index
    <3> QED BY <2>2, <3>1 DEF NugetPages, WellFormed
  <2> QED BY <2>1, <2>2
<1> HIDE DEF all
<1>3. ASSUME NEW k \in DOMAIN index PROVE all[k] \in Seq(S)
  <2>1. all[k] \in Seq(Range(all[k])) /\ Range(all[k]) \subseteq S
    BY <1>2
  <2> HIDE DEF S
  <2> QED BY <2>1, SeqMonotonic
<1>4. all \in Seq(Seq(S))
  <2>1. DOMAIN all = 1..Len(index) /\ all = [k \in 1..Len(index) |-> all[k]]
    BY <1>1 DEF NugetPages, all
  <2> HIDE DEF S
  <2> QED BY <1>1, <1>3, <2>1, IsASeq
<1>5. leaves \in Seq(S)
  <2> HIDE DEF S
  <2> QED BY <1>4, FlattenedType DEF NugetLeaves, all
<1>6. leaves \in Seq(Range(leaves)) /\ Range(leaves) \subseteq S
  <2> HIDE DEF S, leaves
  <2> QED BY <1>5, SeqOfRange, RangeOfSeq
<1>7. ASSUME NEW leaf \in S
      PROVE  \E k \in DOMAIN index :
               /\ leaf.published \in Int
               /\ \/ index[k].inline /\ leaf \in Range(index[k].leaves)
                  \/ ~index[k].inline /\ leaf \in Range(pages[k].body)
  <2>1. PICK k \in DOMAIN index : leaf \in Range(all[k])
    BY <1>7
  <2> QED BY <1>2, <2>1
<1> HIDE DEF S, leaves
<1> QED BY <1>6, <1>7 DEF leaves

\* The leaves that a request has fetched are those that upstream states.
LEMMA NugetLeavesAreStated ==
  ASSUME "nuget" \in Registries, NEW docs \in Documents("nuget"), NEW got,
         Fetched(got, ListParts("nuget", got), docs), got[Index].status = 200,
         NugetHydrates(Body(got), Pages(got))
  PROVE  /\ Sized(NugetLeaves(Body(got), Pages(got)))
         /\ \A leaf \in Range(NugetLeaves(Body(got), Pages(got))) :
              /\ leaf.published \in Int
              /\ \E p \in DOMAIN docs : docs[p].status = 200 /\ leaf \in LeavesOf(p, docs[p].body)
<1> DEFINE index == Body(got)
           pages == Pages(got)
<1>1. Index \in DOMAIN got /\ PagesOf(index) \subseteq DOMAIN got
  BY DEF Fetched, ListParts, IndexParts, Body
<1>2. Index \in DOMAIN docs /\ docs[Index] = got[Index] /\ WellFormed("nuget", Index, index)
  BY <1>1, StatedIsWellFormed DEF Fetched, Body
<1>3. ASSUME NEW k \in DOMAIN index, ~index[k].inline
      PROVE  /\ pages[k].status = 200 /\ Part(k) \in DOMAIN docs /\ docs[Part(k)] = pages[k]
             /\ WellFormed("nuget", Part(k), pages[k].body) /\ Part(k) # Index
  <2>1. Part(k) \in DOMAIN got /\ pages[k] = got[Part(k)] /\ pages[k].status = 200
    BY <1>1, <1>3 DEF PagesOf, Pages, Parts, NugetHydrates
  <2>2. Part(k) # Index
    BY DEF Part, Index
  <2> HIDE DEF pages
  <2> QED BY <2>1, <2>2, StatedIsWellFormed DEF Fetched
<1> HIDE DEF index, pages
<1>4. /\ NugetLeaves(index, pages) \in Seq(Range(NugetLeaves(index, pages)))
      /\ \A leaf \in Range(NugetLeaves(index, pages)) : \E k \in DOMAIN index :
           /\ leaf.published \in Int
           /\ \/ index[k].inline /\ leaf \in Range(index[k].leaves)
              \/ ~index[k].inline /\ leaf \in Range(pages[k].body)
  BY <1>2, <1>3, NugetLeavesAre DEF index, pages
<1>5. ASSUME NEW leaf \in Range(NugetLeaves(index, pages))
      PROVE  /\ leaf.published \in Int
             /\ \E p \in DOMAIN docs : docs[p].status = 200 /\ leaf \in LeavesOf(p, docs[p].body)
  <2>1. PICK k \in DOMAIN index :
          /\ leaf.published \in Int
          /\ \/ index[k].inline /\ leaf \in Range(index[k].leaves)
             \/ ~index[k].inline /\ leaf \in Range(pages[k].body)
    BY <1>4
  <2>2. CASE index[k].inline
    <3>1. index[k] \in {h \in Range(index) : h.inline}
      BY <2>2 DEF Range
    <3>2. leaf \in LeavesOf(Index, index)
      BY <2>1, <2>2, <3>1 DEF LeavesOf
    <3> QED BY <1>2, <2>1, <3>2 DEF index, Body
  <2>3. CASE ~index[k].inline
    <3>1. leaf \in LeavesOf(Part(k), pages[k].body)
      BY <1>3, <2>1, <2>3 DEF LeavesOf
    <3> QED BY <1>3, <2>1, <2>3, <3>1
  <2> QED BY <2>2, <2>3
<1>6. Sized(NugetLeaves(index, pages))
  BY <1>4 DEF Sized
<1> QED BY <1>5, <1>6 DEF index, pages

\* NuGet: the leaves of all pages that have a catalogEntry (nuget.rs).
LEMMA NugetListable ==
  ASSUME NEW got, NEW docs, ListsFrom("nuget", got, docs)
  PROVE  Listable("nuget", got)
<1> DEFINE leaves == NugetLeaves(Body(got), Pages(got))
           artifacts == ListCandidates("nuget", got).artifacts
           link(leaf) == IF leaf.catalog = "object" THEN leaf.version ELSE NoLink
<1>1. artifacts = [i \in DOMAIN leaves |-> NugetArtifact(leaves[i])]
  BY DEF ListsFrom, ListCandidates, NugetCandidates, Candidates, NoListing
<1>2. Sized(leaves) /\ \A leaf \in Range(leaves) : leaf.published \in Int
  <2>1. NugetHydrates(Body(got), Pages(got))
    BY DEF ListsFrom, ListCandidates, NugetCandidates, NoListing
  <2> QED BY <2>1, IndexIsStated, NugetLeavesAreStated DEF ListsFrom
<1>3. DOMAIN artifacts = DOMAIN leaves /\ Sized(artifacts)
  BY <1>1, <1>2 DEF Sized
<1>4. ASSUME NEW i \in DOMAIN artifacts PROVE artifacts[i].published \in Int
  <2>1. artifacts[i] = NugetArtifact(leaves[i]) /\ leaves[i] \in Range(leaves)
    BY <1>1 DEF Range
  <2> QED BY <1>2, <2>1 DEF NugetArtifact, Artifact
<1>5. \A i \in DOMAIN leaves : EntryAt("nuget", got, i) = Entry(leaves[i].version, link(leaves[i]))
  BY <1>1 DEF EntryAt, LinkAt, NugetArtifact, Artifact
<1>6. ASSUME NEW decisions PROVE Shows("nuget", got, decisions)
  <2> DEFINE kept == Kept(leaves, decisions)
             entries == NugetListing(Body(got), Pages(got), decisions).entries
  <2>1. /\ entries = [k \in DOMAIN kept |-> Entry(kept[k].version, link(kept[k]))]
        /\ ListingOf("nuget", got, artifacts, decisions).entries = entries
    BY DEF NugetListing, ListingOf
  <2> HIDE DEF entries, leaves
  <2>2. /\ DOMAIN entries = DOMAIN kept
        /\ \A k \in DOMAIN entries : \A i \in DOMAIN leaves :
             kept[k] = leaves[i] => entries[k] = EntryAt("nuget", got, i)
    BY <1>5, <2>1
  <2> QED BY <1>2, <1>3, <2>1, <2>2, KeptShows
<1> QED BY <1>3, <1>4, <1>6 DEF Listable

\* The versions of Maven metadata have no order but their numbers, and each that is left in has
\* the POM that upstream states (maven.rs, filtered_metadata_from_document).
LEMMA MavenPresentAre ==
  ASSUME NEW got, NEW docs, ListsFrom("maven", got, docs)
  PROVE  LET versions == Range(Body(got).versions)
             present == MavenPresent(Body(got), Parts(got, versions))
             artifacts == ListCandidates("maven", got).artifacts
             stated(v) == StatedBy(docs, Part(v))
         IN /\ Sized(present) /\ DOMAIN artifacts = DOMAIN present
            /\ \A i \in DOMAIN present :
                 /\ present[i] \in versions /\ ~present[i].snapshot
                 /\ stated(present[i]).status = 200
                 /\ artifacts[i] = MavenArtifact(present[i], stated(present[i]).body)
                 /\ artifacts[i].published \in Int
            /\ \A v \in versions : stated(v).status = 200 => \E i \in DOMAIN present : present[i] = v
<1> DEFINE metadata == Body(got)
           versions == Range(metadata.versions)
           poms == Parts(got, versions)
           sorted == MavenVersions(metadata)
           places == {i \in DOMAIN sorted : poms[sorted[i]].status # 404}
           present == MavenPresent(metadata, poms)
           artifacts == ListCandidates("maven", got).artifacts
           stated(v) == StatedBy(docs, Part(v))
<1>1. PomsOf(metadata) # {} /\ MavenCandidates(metadata, poms).ok
      /\ artifacts = MavenCandidates(metadata, poms).artifacts
  BY DEF ListsFrom, ListCandidates, NoListing
<1>2. /\ \A v \in versions : ~v.snapshot
      /\ \A v \in Range(present) : MavenReadable(poms[v])
      /\ artifacts = [i \in DOMAIN present |-> MavenArtifact(present[i], poms[present[i]].body)]
  BY <1>1 DEF MavenCandidates, Candidates, NoListing
<1>3. ASSUME NEW v \in versions PROVE poms[v] = stated(v)
  <2>1. Part(v) \in PomsOf(metadata)
    BY <1>1 DEF PomsOf
  <2>2. Part(v) \in DOMAIN got
    BY <2>1, IndexIsStated DEF ListsFrom, Fetched, ListParts, IndexParts, Body
  <2> QED BY <2>2 DEF Parts, ListsFrom, Fetched
<1>4. /\ IsFiniteSet(versions) /\ \A v \in versions : v.n \in Nat
      /\ \A v, w \in versions : v.n = w.n => v = w
  <2>1. metadata.versions \in Seq(versions)
    BY IndexIsStated DEF WellFormed
  <2>2. IsFiniteSet(versions)
    <3>1. IsFiniteSet(1..Len(metadata.versions)) /\ metadata.versions \in
            Surjection(1..Len(metadata.versions), versions)
      <4>1. Len(metadata.versions) \in Nat /\ metadata.versions \in [1..Len(metadata.versions) -> versions]
        BY <2>1, LenProperties
      <4>2. \A v \in versions : \E i \in 1..Len(metadata.versions) : metadata.versions[i] = v
        BY <4>1 DEF Range
      <4> HIDE DEF versions
      <4> QED BY <4>1, <4>2, FS_Interval DEF Surjection
    <3> QED BY <3>1, FS_Surjection
  <2>3. Unambiguous("maven", docs)
    BY DocumentsAreWellFormed DEF ListsFrom
  <2>4. docs[Index].body = metadata /\ Index \in {p \in DOMAIN docs : docs[p].status = 200}
    BY IndexIsStated
  <2> QED BY <2>2, <2>3, <2>4 DEF Unambiguous
<1> HIDE DEF versions, poms, stated
<1>5. Sized(sorted) /\ Range(sorted) = versions
  BY <1>4, InOrderAreAll DEF MavenVersions, versions
<1> HIDE DEF sorted
<1>6. Places(places)
  <2>1. PICK n \in Nat : DOMAIN sorted = 1..n
    BY <1>5 DEF Sized
  <2>2. IsFiniteSet(1..n) /\ places \in SUBSET (1..n) /\ places \subseteq Nat
    BY <2>1, FS_Interval
  <2> HIDE DEF places
  <2> QED BY <2>2, FS_Subset DEF Places
<1>7. present = AtIndices(sorted, places)
  BY DEF MavenPresent, sorted
<1>8. \A i : i \in places <=> i \in DOMAIN sorted /\ poms[sorted[i]].status # 404
  OBVIOUS
<1>9. \A i \in DOMAIN sorted : sorted[i] \in versions
  BY <1>5 DEF Range
<1>10. \A v \in versions : \E i \in DOMAIN sorted : sorted[i] = v
  BY <1>5 DEF Range
<1> HIDE DEF places, present
<1>11. /\ Sized(present)
       /\ \A n \in DOMAIN present : \E i \in places : present[n] = sorted[i]
       /\ \A i \in places : \E n \in DOMAIN present : present[n] = sorted[i]
  BY <1>6, <1>7, TakenFromPlaces DEF Sized
<1>12. DOMAIN artifacts = DOMAIN present
  BY <1>2
<1>13. ASSUME NEW i \in DOMAIN present
       PROVE  /\ present[i] \in versions /\ ~present[i].snapshot
              /\ stated(present[i]).status = 200
              /\ artifacts[i] = MavenArtifact(present[i], stated(present[i]).body)
              /\ artifacts[i].published \in Int
  <2>1. present[i] \in versions
    BY <1>8, <1>9, <1>11
  <2>2. present[i] \in Range(present)
    BY DEF Range
  <2>3. poms[present[i]] = stated(present[i])
    BY <1>3, <2>1
  <2>4. stated(present[i]).status = 200
    BY <1>2, <2>2, <2>3 DEF MavenReadable
  <2>5. artifacts[i] = MavenArtifact(present[i], stated(present[i]).body)
    BY <1>2, <2>3
  <2>6. /\ Part(present[i]) \in DOMAIN docs /\ docs[Part(present[i])] = stated(present[i])
        /\ WellFormed("maven", Part(present[i]), docs[Part(present[i])].body)
    BY <2>4, StatedIsWellFormed DEF ListsFrom, stated
  <2>7. Part(present[i]) # Index
    BY DEF Part, Index
  <2>8. stated(present[i]).body.published \in Int
    BY <2>6, <2>7 DEF WellFormed
  <2> QED BY <1>2, <2>1, <2>4, <2>5, <2>8 DEF MavenArtifact, Artifact
<1>14. ASSUME NEW v \in versions, stated(v).status = 200 PROVE \E i \in DOMAIN present : present[i] = v
  <2>1. PICK i \in DOMAIN sorted : sorted[i] = v
    BY <1>10
  <2>2. i \in places
    BY <1>3, <1>8, <1>14, <2>1
  <2> QED BY <1>11, <2>1, <2>2
<1> HIDE DEF artifacts, metadata
<1> QED BY <1>11, <1>12, <1>13, <1>14 DEF versions, poms, stated, artifacts, metadata, present

\* Maven: the versions of the metadata, dated by their POMs (maven.rs).
LEMMA MavenListable ==
  ASSUME NEW got, NEW docs, ListsFrom("maven", got, docs)
  PROVE  Listable("maven", got)
<1> DEFINE artifacts == ListCandidates("maven", got).artifacts
<1>1. Sized(artifacts) /\ \A i \in DOMAIN artifacts : artifacts[i].published \in Int
  BY MavenPresentAre DEF Sized
<1>2. \A i \in DOMAIN artifacts :
        EntryAt("maven", got, i) = Entry(artifacts[i].version, artifacts[i].version)
  BY DEF EntryAt, LinkAt
<1>3. ASSUME NEW decisions PROVE Shows("maven", got, decisions)
  <2> DEFINE kept == Kept(artifacts, decisions)
             entries == MavenListing(artifacts, decisions).entries
  <2>1. /\ entries = [k \in DOMAIN kept |-> Entry(kept[k].version, kept[k].version)]
        /\ ListingOf("maven", got, artifacts, decisions).entries = entries
    BY DEF MavenListing, RenderMetadata, ListingOf
  <2> HIDE DEF entries, artifacts
  <2>2. /\ DOMAIN entries = DOMAIN kept
        /\ \A k \in DOMAIN entries : \A i \in DOMAIN artifacts :
             kept[k] = artifacts[i] => entries[k] = EntryAt("maven", got, i)
    BY <1>2, <2>1
  <2> QED BY <1>1, <2>1, <2>2, KeptShows DEF artifacts
<1> QED BY <1>1, <1>3 DEF Listable

\* Each info of a Go list is the one that upstream states of the version that it names (go.rs,
\* filtered_infos).
LEMMA GoInfosAre ==
  ASSUME NEW got, NEW docs, ListsFrom("go", got, docs)
  PROVE  LET list == Body(got)
             artifacts == ListCandidates("go", got).artifacts
             own(i) == StatedBy(docs, Part(artifacts[i].version))
         IN /\ Sized(list) /\ DOMAIN artifacts = DOMAIN list
            /\ \A i \in DOMAIN list :
                 /\ Part(list[i]) \in DOMAIN got /\ artifacts[i] = GoArtifact(StatedBy(docs, Part(list[i])).body)
                 /\ own(i).status = 200 /\ artifacts[i] = GoArtifact(own(i).body)
                 /\ artifacts[i].published \in Int /\ artifacts[i].version.n \in Nat
                 /\ artifacts[i].version # Latest
            /\ \A i, j \in DOMAIN list :
                 artifacts[i].version.n = artifacts[j].version.n => artifacts[i] = artifacts[j]
<1> DEFINE list == Body(got)
           infos == Parts(got, Range(list))
           artifacts == ListCandidates("go", got).artifacts
           own(i) == StatedBy(docs, Part(artifacts[i].version))
           there == {p \in DOMAIN docs : docs[p].status = 200} \ {Index, Part(Latest)}
<1>1. list \in Seq(Range(list)) /\ Latest \notin Range(list)
  BY IndexIsStated DEF WellFormed
<1>2. /\ InfosOf(list) # {} \/ list = <<>>
      /\ \A v \in Range(list) : infos[v].status = 200
      /\ artifacts = [i \in DOMAIN list |-> GoArtifact(infos[list[i]].body)]
  BY DEF ListsFrom, ListCandidates, GoCandidates, Candidates, NoListing
<1>3. ASSUME NEW v \in Range(list)
      PROVE  Part(v) \in DOMAIN got /\ infos[v] = StatedBy(docs, Part(v))
  <2>1. list # <<>>
    BY DEF Range
  <2>2. Part(v) \in InfosOf(list)
    BY <1>2, <2>1 DEF InfosOf
  <2>3. Part(v) \in DOMAIN got
    BY <2>2, IndexIsStated DEF ListsFrom, Fetched, ListParts, IndexParts, Body
  <2> QED BY <2>3 DEF Parts, ListsFrom, Fetched
<1> HIDE DEF infos
<1>4. ASSUME NEW i \in DOMAIN list
      PROVE  /\ Part(list[i]) \in there /\ docs[Part(list[i])] = StatedBy(docs, Part(list[i]))
             /\ WellFormed("go", Part(list[i]), docs[Part(list[i])].body)
             /\ infos[list[i]] = docs[Part(list[i])] /\ Part(list[i]) \in DOMAIN got
  <2>1. list[i] \in Range(list) /\ list[i] # Latest
    BY <1>1 DEF Range
  <2>2. StatedBy(docs, Part(list[i])).status = 200 /\ infos[list[i]] = StatedBy(docs, Part(list[i]))
    BY <1>2, <1>3, <2>1
  <2>3. Part(list[i]) # Index /\ Part(list[i]) # Part(Latest)
    BY <2>1 DEF Part, Index
  <2> QED BY <1>3, <2>1, <2>2, <2>3, StatedIsWellFormed DEF ListsFrom
<1>5. /\ \A p \in there : docs[p].body.version.n \in Nat
      /\ \A p, q \in there : docs[p].body.version.n = docs[q].body.version.n =>
           docs[p].body.version = docs[q].body.version
      /\ \A p \in there : /\ Part(docs[p].body.version) \in there
                          /\ docs[Part(docs[p].body.version)] = docs[p]
  <2> DEFINE versions == {docs[p].body.version : p \in there}
  <2>1. Unambiguous("go", docs)
    BY DocumentsAreWellFormed DEF ListsFrom
  <2>2. /\ \A v \in versions : v.n \in Nat
        /\ \A v, w \in versions : v.n = w.n => v = w
        /\ \A p \in there : /\ Part(docs[p].body.version) \in there
                            /\ docs[Part(docs[p].body.version)] = docs[p]
    BY <2>1 DEF Unambiguous
  <2>3. \A p \in there : docs[p].body.version \in versions
    OBVIOUS
  <2> HIDE DEF versions, there
  <2> QED BY <2>2, <2>3
<1> HIDE DEF there
<1>6. ASSUME NEW i \in DOMAIN list
      PROVE  LET info == docs[Part(list[i])]
             IN /\ artifacts[i] = GoArtifact(info.body) /\ artifacts[i].version = info.body.version
                /\ info.body.published \in Int /\ info.body.version # Latest
                /\ own(i) = info
  <2> DEFINE info == docs[Part(list[i])]
  <2>1. artifacts[i] = GoArtifact(info.body) /\ artifacts[i].version = info.body.version
    BY <1>2, <1>4 DEF GoArtifact, Artifact
  <2>2. Part(list[i]) # Index
    BY DEF Part, Index
  <2>3. info.body.published \in Int /\ info.body.version # Latest
    BY <1>4, <2>2 DEF WellFormed
  <2>4. Part(info.body.version) \in DOMAIN docs /\ docs[Part(info.body.version)] = info
    BY <1>4, <1>5 DEF there
  <2> HIDE DEF artifacts
  <2> QED BY <2>1, <2>3, <2>4 DEF StatedBy
<1>7. ASSUME NEW i \in DOMAIN list
      PROVE  /\ own(i).status = 200 /\ artifacts[i] = GoArtifact(own(i).body)
             /\ artifacts[i].published \in Int /\ artifacts[i].version.n \in Nat
             /\ artifacts[i].version # Latest /\ Part(artifacts[i].version) \in there
  <2>1. docs[Part(list[i])].status = 200 /\ docs[Part(list[i])].body.version.n \in Nat
        /\ Part(docs[Part(list[i])].body.version) \in there
    BY <1>4, <1>5 DEF there
  <2>2. GoArtifact(docs[Part(list[i])].body).published = docs[Part(list[i])].body.published
    BY DEF GoArtifact, Artifact
  <2> HIDE DEF artifacts
  <2> QED BY <1>6, <2>1, <2>2
<1>8. ASSUME NEW i \in DOMAIN list, NEW j \in DOMAIN list,
             artifacts[i].version.n = artifacts[j].version.n
      PROVE  artifacts[i] = artifacts[j]
  <2>1. artifacts[i].version = artifacts[j].version
    <3>1. /\ Part(list[i]) \in there /\ artifacts[i].version = docs[Part(list[i])].body.version
          /\ Part(list[j]) \in there /\ artifacts[j].version = docs[Part(list[j])].body.version
      BY <1>4, <1>6
    <3> HIDE DEF artifacts
    <3> QED BY <1>5, <1>8, <3>1
  <2>2. artifacts[i] = GoArtifact(own(i).body) /\ artifacts[j] = GoArtifact(own(j).body)
    BY <1>7
  <2> QED BY <2>1, <2>2
<1>9. DOMAIN artifacts = DOMAIN list /\ Sized(list)
  BY <1>1, <1>2 DEF Sized
<1>10. \A i \in DOMAIN list : Part(list[i]) \in DOMAIN got
                              /\ artifacts[i] = GoArtifact(StatedBy(docs, Part(list[i])).body)
  BY <1>4, <1>6
<1> HIDE DEF artifacts, list
<1> QED BY <1>7, <1>8, <1>9, <1>10 DEF artifacts, list

\* Go: the versions of the list, dated by their infos (go.rs).
LEMMA GoListable ==
  ASSUME NEW got, NEW docs, ListsFrom("go", got, docs)
  PROVE  Listable("go", got)
<1> DEFINE artifacts == ListCandidates("go", got).artifacts
<1>1. /\ Sized(artifacts)
      /\ \A i \in DOMAIN artifacts : artifacts[i].published \in Int /\ artifacts[i].version.n \in Nat
      /\ \A i, j \in DOMAIN artifacts :
           artifacts[i].version.n = artifacts[j].version.n => artifacts[i] = artifacts[j]
  BY GoInfosAre DEF Sized
<1>2. \A i \in DOMAIN artifacts :
        EntryAt("go", got, i) = Entry(artifacts[i].version, artifacts[i].version)
  BY DEF EntryAt, LinkAt
<1> HIDE DEF artifacts
<1>3. ASSUME NEW decisions PROVE Shows("go", got, decisions)
  <2> DEFINE kept == Kept(artifacts, decisions)
             versions == {a.version : a \in Range(kept)}
             sorted == InOrder(versions)
             entries == GoListing(artifacts, decisions).entries
  <2>1. /\ entries = [k \in DOMAIN sorted |-> Entry(sorted[k], sorted[k])]
        /\ ListingOf("go", got, artifacts, decisions).entries = entries
    BY DEF GoListing, ListingOf
  <2>2. /\ Sized(kept)
        /\ \A k \in DOMAIN kept : \E i \in DOMAIN artifacts :
             decisions[i].allowed /\ kept[k] = artifacts[i]
        /\ \A i \in DOMAIN artifacts : decisions[i].allowed =>
             \E k \in DOMAIN kept : kept[k] = artifacts[i]
    BY <1>1, KeptAreAllowed
  <2> HIDE DEF kept
  <2>3. versions = {artifacts[i].version : i \in {j \in DOMAIN artifacts : decisions[j].allowed}}
    BY <2>2 DEF Range
  <2>4. IsFiniteSet(versions)
    <3> DEFINE shown == [k \in DOMAIN kept |-> kept[k].version]
    <3>1. IsFiniteSet(DOMAIN kept)
      <4>1. PICK n \in Nat : DOMAIN kept = 1..n
        BY <2>2 DEF Sized
      <4> QED BY <4>1, FS_Interval
    <3>2. shown \in Surjection(DOMAIN kept, versions)
      BY DEF Surjection, Range
    <3> HIDE DEF shown, versions
    <3> QED BY <3>1, <3>2, FS_Surjection
  <2>5. /\ \A v \in versions : v.n \in Nat
        /\ \A v, w \in versions : v.n = w.n => v = w
    <3> HIDE DEF versions
    <3>1. \A v \in versions : \E i \in DOMAIN artifacts : v = artifacts[i].version
      BY <2>3
    <3> QED BY <1>1, <3>1
  <2> HIDE DEF versions
  <2>6. Range(sorted) = versions
    BY <2>4, <2>5, InOrderAreAll
  <2> HIDE DEF sorted
  <2>7. Range(entries) = {Entry(v, v) : v \in versions}
    BY <2>1, <2>6 DEF Range
  <2>8. {Entry(v, v) : v \in versions} =
          {EntryAt("go", got, i) : i \in {j \in DOMAIN artifacts : decisions[j].allowed}}
    BY <1>2, <2>3
  <2> HIDE DEF entries
  <2> QED BY <2>1, <2>7, <2>8 DEF Shows, artifacts
<1> QED BY <1>1, <1>3 DEF Listable, artifacts

\* Every registry's listing shows the entries of the artifacts that are allowed.
LEMMA AllListable ==
  ASSUME NEW r, NEW got, NEW docs, ListsFrom(r, got, docs)
  PROVE  Listable(r, got)
BY NpmListable, PypiListable, CargoListable, GoListable, NugetListable, GemsListable,
   MavenListable, DocumentsAreWellFormed DEF ListsFrom

-----------------------------------------------------------------------------
(* What a link of a listing finds. *)

\* The artifact of a listing that a link was made for, and whether the artifact path finds it.
LinksTo(r, got, docs, after, i) ==
  /\ ListsFrom(r, got, docs) /\ i \in DOMAIN ListCandidates(r, got).artifacts
  /\ LinkAt(r, got, i) # NoLink
  /\ Fetched(after, LinkParts(r, LinkAt(r, got, i), after), docs)
Finds(r, got, docs, after, i) ==
  LET found == FindLink(r, after, LinkAt(r, got, i))
      a == ListCandidates(r, got).artifacts[i]
  IN /\ found.status = 200 => found = Found(a)
     /\ ~Unservable(r, docs, LinkAt(r, got, i)) => found = Found(a) /\ a.content # NoLink

\* What is the same at some places is the first there.
LEMMA FirstIsAll ==
  ASSUME NEW items, NEW indices, indices \subseteq Nat, NEW i \in indices,
         \A j \in indices : items[j] = items[i]
  PROVE  FirstAt(items, indices) = <<items[i]>>
<1>1. FirstAt(items, indices) # <<>>
  BY DEF FirstAt
<1>2. PICK j \in indices : FirstAt(items, indices) = <<items[j]>>
  BY <1>1, FirstIsMember
<1> QED BY <1>2

\* The index that a request has again is the one of the listing.
LEMMA IndexIsSame ==
  ASSUME NEW r, NEW got, NEW docs, ListsFrom(r, got, docs), NEW after, NEW parts,
         Fetched(after, parts, docs)
  PROVE  Index \in DOMAIN after => after[Index].status = 200 /\ Body(after) = Body(got)
BY IndexIsStated DEF Fetched, StatedBy, Body

\* The version in a file name that begins with the package name is the rest of it.
LEMMA NpmInfers ==
  ASSUME NEW doc, doc.name \in Seq(Range(doc.name)), NEW v, v \in Seq(Range(v)), v # <<>>
  PROVE  NpmInferVersion(doc, doc.name \o v) = v
<1> DEFINE name == doc.name
           file == name \o v
           S == Range(name) \cup Range(v)
<1>1. name \in Seq(S) /\ v \in Seq(S)
  <2>1. Range(name) \subseteq S /\ Range(v) \subseteq S
    OBVIOUS
  <2> HIDE DEF S
  <2> QED BY <2>1, SeqMonotonic
<1> HIDE DEF S, name
<1>2. /\ Len(name) \in Nat /\ Len(v) \in Nat \ {0} /\ file \in Seq(S)
      /\ Len(file) = Len(name) + Len(v)
      /\ \A i \in 1..Len(name) + Len(v) :
           file[i] = IF i <= Len(name) THEN name[i] ELSE v[i - Len(name)]
  BY <1>1, ConcatProperties, EmptySeq
<1>3. SubSeq(file, 1, Len(name)) = SubSeq(name, 1, Len(name))
  BY <1>1, <1>2
<1>4. IsStrictPrefix(name, file)
  BY <1>2, <1>3 DEF IsStrictPrefix, IsPrefix
<1>5. SubSeq(file, Len(name) + 1, Len(file)) = v
  BY <1>1, <1>2
<1> QED BY <1>4, <1>5 DEF NpmInferVersion, name

\* npm: the link names the version, or is the one in dist.tarball.
LEMMA NpmFinds ==
  ASSUME NEW got, NEW docs, NEW after, NEW i, LinksTo("npm", got, docs, after, i)
  PROVE  Finds("npm", got, docs, after, i)
<1> DEFINE doc == Body(got)
           link == LinkAt("npm", got, i)
           e == doc.versions[i]
<1>1. /\ doc.valid /\ i \in DOMAIN doc.versions
      /\ ListCandidates("npm", got).artifacts[i] = NpmArtifact(e)
  BY DEF LinksTo, ListsFrom, ListCandidates, NpmCandidates, Candidates, NoListing
<1>2. e \in Range(doc.versions)
  BY <1>1 DEF Range
<1>3. e.dist /\ link = IF e.tarball = NoTarball THEN doc.name \o e.version ELSE e.tarball
  BY DEF LinksTo, LinkAt, NpmLink
<1>4. /\ doc.versions \in Seq(Range(doc.versions)) /\ doc.name \in Seq(Range(doc.name))
      /\ \A f \in Range(doc.versions) : /\ f.version \in Seq(Range(f.version))
                                        /\ f.version # <<>> /\ f.version # NoLink
      /\ Index \in DOMAIN docs /\ docs[Index].status = 200 /\ docs[Index].body = doc
  <2>1. /\ WellFormed("npm", Index, doc)
        /\ Index \in DOMAIN docs /\ docs[Index].status = 200 /\ docs[Index].body = doc
    BY IndexIsStated DEF LinksTo
  <2> HIDE DEF doc
  <2> QED BY <2>1 DEF WellFormed
<1>5. \A f, g \in Range(doc.versions) :
        f.version = g.version \/ (f.tarball = g.tarball /\ f.tarball # NoTarball) => f = g
  <2>1. Unambiguous("npm", docs)
    BY DocumentsAreWellFormed DEF LinksTo, ListsFrom
  <2> HIDE DEF doc
  <2> QED BY <1>4, <2>1 DEF Unambiguous
<1>6. FindLink("npm", after, link) = NpmFind(doc, link)
  <2>1. Index \in DOMAIN after
    BY DEF LinksTo, Fetched, LinkParts
  <2> QED BY <2>1, IndexIsSame DEF LinksTo, FindLink
<1>7. \A f \in Range(doc.versions) : NpmInferVersion(doc, doc.name \o f.version) = f.version
  BY <1>4, NpmInfers
<1> HIDE DEF doc, link
<1>8. \A f \in Range(doc.versions) : NpmEntryOf(doc, f.version) = <<f>>
  <2> SUFFICES ASSUME NEW k \in DOMAIN doc.versions
               PROVE  NpmEntryOf(doc, doc.versions[k].version) = <<doc.versions[k]>>
    BY DEF Range
  <2> DEFINE places == {j \in DOMAIN doc.versions : doc.versions[j].version = doc.versions[k].version}
  <2>1. places \subseteq Nat /\ k \in places
    BY <1>4
  <2>2. \A j \in places : doc.versions[j] = doc.versions[k]
    BY <1>5 DEF Range
  <2> HIDE DEF places
  <2>3. FirstAt(doc.versions, places) = <<doc.versions[k]>>
    BY <2>1, <2>2, FirstIsAll
  <2> QED BY <2>3 DEF NpmEntryOf, places
<1>9. \A version : NpmEntryOf(doc, version) # <<>> =>
        \E f \in Range(doc.versions) : NpmEntryOf(doc, version) = <<f>> /\ f.version = version
  <2> SUFFICES ASSUME NEW version, NpmEntryOf(doc, version) # <<>>
               PROVE  \E f \in Range(doc.versions) :
                        NpmEntryOf(doc, version) = <<f>> /\ f.version = version
    OBVIOUS
  <2> DEFINE places == {j \in DOMAIN doc.versions : doc.versions[j].version = version}
  <2>1. places \subseteq Nat
    BY <1>4
  <2>2. FirstAt(doc.versions, places) # <<>> /\ NpmEntryOf(doc, version) = FirstAt(doc.versions, places)
    BY DEF NpmEntryOf
  <2>3. PICK j \in places : FirstAt(doc.versions, places) = <<doc.versions[j]>>
    <3> HIDE DEF places
    <3> QED BY <2>1, <2>2, FirstIsMember
  <2> QED BY <2>2, <2>3 DEF Range
<1>10. ASSUME NpmFind(doc, link).status = 200 PROVE NpmFind(doc, link) = Found(NpmArtifact(e))
  <2>1. PICK f \in Range(doc.versions) :
          /\ NpmEntryOf(doc, NpmInferVersion(doc, link)) = <<f>>
          /\ f.version = NpmInferVersion(doc, link)
    BY <1>9, <1>10 DEF NpmFind, NotFound, InternalError
  <2>2. f.tarball = link /\ NpmFind(doc, link) = Found(NpmArtifact(f))
    BY <1>10, <2>1 DEF NpmFind, NotFound, InternalError
  <2>3. f = e
    BY <1>2, <1>3, <1>5, <1>7, <2>1, <2>2
  <2> QED BY <2>2, <2>3
<1>11. ASSUME NEW g \in Range(doc.versions), doc.name \o g.version = link, g.tarball = link
       PROVE  NpmFind(doc, link) = Found(NpmArtifact(e)) /\ e.version # NoLink
  <2>1. NpmInferVersion(doc, link) = g.version /\ NpmEntryOf(doc, g.version) = <<g>>
    BY <1>7, <1>8, <1>11
  <2>2. g = e
    BY <1>2, <1>3, <1>5, <1>7, <1>11, <2>1
  <2> QED BY <1>1, <1>2, <1>3, <1>4, <1>11, <2>1, <2>2 DEF NpmFind
<1>12. ~Unservable("npm", docs, link) =>
         NpmFind(doc, link) = Found(NpmArtifact(e)) /\ e.version # NoLink
  BY <1>4, <1>11 DEF Unservable
<1> QED BY <1>1, <1>6, <1>10, <1>12 DEF Finds, NpmArtifact, Artifact, link

\* PyPI: the file name is found in the project, with the version inferred from it.
LEMMA PypiFinds ==
  ASSUME NEW got, NEW docs, NEW after, NEW i, LinksTo("pypi", got, docs, after, i)
  PROVE  Finds("pypi", got, docs, after, i)
<1> DEFINE doc == Body(got)
           link == LinkAt("pypi", got, i)
           f == doc.files[i]
           places == {j \in DOMAIN doc.files : PypiFile(doc.files[j]) = PypiFile(f)}
<1>1. /\ i \in DOMAIN doc.files /\ PypiInferVersion(doc.name, f) # NoVersion
      /\ ListCandidates("pypi", got).artifacts[i] = PypiArtifact(doc, f)
  BY DEF LinksTo, ListsFrom, ListCandidates, PypiCandidates, Candidates, NoListing, Range
<1>2. link.version = PypiInferVersion(doc.name, f) /\ link.file = PypiFile(f)
  BY DEF LinkAt, PypiEntry, Entry
<1>3. /\ WellFormed("pypi", Index, doc)
      /\ Index \in DOMAIN docs /\ docs[Index].status = 200 /\ docs[Index].body = doc
  BY IndexIsStated DEF LinksTo
<1>4. FindLink("pypi", after, link) = PypiFind(doc, link)
  <2>1. Index \in DOMAIN after
    BY DEF LinksTo, Fetched, LinkParts
  <2> QED BY <2>1, IndexIsSame DEF LinksTo, FindLink
<1> HIDE DEF doc, link
<1>5. doc.files \in Seq(Range(doc.files)) /\ f.version # NoLink
  BY <1>1, <1>3 DEF WellFormed, NamedAfterRelease, Range
<1>6. \A g, h \in Range(doc.files) : PypiFile(g) = PypiFile(h) => g = h
  <2>1. Unambiguous("pypi", docs)
    BY DocumentsAreWellFormed DEF LinksTo, ListsFrom
  <2> QED BY <1>3, <2>1 DEF Unambiguous
<1>7. PypiFileOf(doc, PypiFile(f)) = <<f>>
  <2>1. places \subseteq Nat /\ i \in places
    BY <1>1, <1>5
  <2>2. \A j \in places : doc.files[j] = f
    BY <1>1, <1>6 DEF Range
  <2> HIDE DEF places
  <2>3. FirstAt(doc.files, places) = <<f>>
    BY <2>1, <2>2, FirstIsAll
  <2> QED BY <2>3 DEF PypiFileOf, places
<1>8. PypiFind(doc, link) = Found(PypiArtifact(doc, f))
  BY <1>1, <1>2, <1>7 DEF PypiFind
<1> QED BY <1>1, <1>4, <1>5, <1>8 DEF Finds, PypiArtifact, Artifact, link

\* Cargo: the link names the version of one index line.
LEMMA CargoFinds ==
  ASSUME NEW got, NEW docs, NEW after, NEW i, LinksTo("cargo", got, docs, after, i)
  PROVE  Finds("cargo", got, docs, after, i)
<1> DEFINE lines == Body(got)
           link == LinkAt("cargo", got, i)
           line == lines[i]
           places == {j \in DOMAIN lines : lines[j].version = line.version}
<1>1. /\ i \in DOMAIN lines /\ \A l \in Range(lines) : l.parses /\ l.consistent
      /\ ListCandidates("cargo", got).artifacts[i] = CargoArtifact(line)
  BY DEF LinksTo, ListsFrom, ListCandidates, CargoCandidates, Candidates, NoListing
<1>2. link = line.version /\ link # NoLink
  BY <1>1 DEF LinksTo, LinkAt, CargoArtifact, Artifact
<1>3. /\ WellFormed("cargo", Index, lines)
      /\ Index \in DOMAIN docs /\ docs[Index].status = 200 /\ docs[Index].body = lines
  BY IndexIsStated DEF LinksTo
<1>4. FindLink("cargo", after, link) = CargoFind(lines, link)
  <2>1. Index \in DOMAIN after
    BY DEF LinksTo, Fetched, LinkParts
  <2> QED BY <2>1, IndexIsSame DEF LinksTo, FindLink
<1> HIDE DEF lines, link
<1>5. lines \in Seq(Range(lines))
  BY <1>3 DEF WellFormed
<1>6. \A l, m \in Range(lines) : l.version = m.version => l = m
  <2>1. Unambiguous("cargo", docs)
    BY DocumentsAreWellFormed DEF LinksTo, ListsFrom
  <2> QED BY <1>3, <2>1 DEF Unambiguous
<1>7. CargoLineOf(lines, line.version) = <<line>>
  <2>1. places \subseteq Nat /\ i \in places
    BY <1>1, <1>5
  <2>2. \A j \in places : lines[j] = line
    BY <1>1, <1>6 DEF Range
  <2> HIDE DEF places
  <2>3. FirstAt(lines, places) = <<line>>
    BY <2>1, <2>2, FirstIsAll
  <2> QED BY <2>3 DEF CargoLineOf, places
<1>8. line \in Range(lines)
  BY <1>1 DEF Range
<1>9. CargoFind(lines, link) = Found(CargoArtifact(line))
  BY <1>1, <1>2, <1>7, <1>8 DEF CargoFind
<1> QED BY <1>1, <1>2, <1>4, <1>9 DEF Finds, CargoArtifact, Artifact, link

\* Go: the link names the version whose info is fetched.
LEMMA GoFinds ==
  ASSUME NEW got, NEW docs, NEW after, NEW i, LinksTo("go", got, docs, after, i)
  PROVE  Finds("go", got, docs, after, i)
<1> DEFINE link == LinkAt("go", got, i)
           a == ListCandidates("go", got).artifacts[i]
           info == StatedBy(docs, Part(link))
<1>1. link = a.version /\ link # NoLink
  BY DEF LinksTo, LinkAt
<1>2. info.status = 200 /\ a = GoArtifact(info.body) /\ link # Latest
  BY <1>1, GoInfosAre DEF LinksTo
<1>3. Index \in DOMAIN after => after[Index].status = 200
  BY IndexIsSame DEF LinksTo
<1> HIDE DEF link, a
<1>4. info.body.version = link
  BY <1>1, <1>2 DEF GoArtifact, Artifact
<1>5. CASE GoRoutable(link)
  <2>1. Part(link) \in DOMAIN after
    BY <1>5 DEF LinksTo, Fetched, LinkParts, link
  <2>2. after[Part(link)] = info
    BY <2>1 DEF LinksTo, Fetched
  <2>3. FindLink("go", after, link) = GoFind(link, info)
    BY <1>2, <1>3, <1>5, <2>2 DEF FindLink
  <2>4. [GoArtifact(info.body) EXCEPT !.content = link] = a
    BY <1>2, <1>4 DEF GoArtifact, Artifact
  <2>5. GoFind(link, info) = Found(a)
    BY <1>2, <1>4, <1>5, <2>4 DEF GoFind
  <2>6. a.content = link
    BY <1>2, <1>4 DEF GoArtifact, Artifact
  <2> QED BY <1>1, <2>3, <2>5, <2>6 DEF Finds, link, a
<1>6. CASE ~GoRoutable(link)
  <2>1. FindLink("go", after, link) = NotFound
    BY <1>2, <1>3, <1>6 DEF FindLink
  <2>2. Unservable("go", docs, link)
    BY <1>6 DEF Unservable, GoRoutable
  <2> QED BY <2>1, <2>2 DEF Finds, link, NotFound
<1> QED BY <1>5, <1>6

\* Maven: the link names the version whose POM is fetched.
LEMMA MavenFinds ==
  ASSUME NEW got, NEW docs, NEW after, NEW i, LinksTo("maven", got, docs, after, i)
  PROVE  Finds("maven", got, docs, after, i)
<1> DEFINE link == LinkAt("maven", got, i)
           a == ListCandidates("maven", got).artifacts[i]
           pom == StatedBy(docs, Part(link))
<1>1. link = a.version /\ link # NoLink
  BY DEF LinksTo, LinkAt
<1>2. pom.status = 200 /\ a = MavenArtifact(link, pom.body) /\ ~link.snapshot
  <2>1. PICK v : /\ a = MavenArtifact(v, StatedBy(docs, Part(v)).body) /\ ~v.snapshot
                 /\ StatedBy(docs, Part(v)).status = 200
    BY MavenPresentAre DEF LinksTo
  <2>2. v = link
    BY <1>1, <2>1 DEF MavenArtifact, Artifact
  <2> QED BY <2>1, <2>2
<1>3. Index \in DOMAIN after => after[Index].status = 200
  BY IndexIsSame DEF LinksTo
<1> HIDE DEF a
<1>4. Part(link) \in DOMAIN after
  BY <1>2 DEF LinksTo, Fetched, LinkParts
<1> HIDE DEF link
<1>5. after[Part(link)] = pom
  BY <1>4 DEF LinksTo, Fetched
<1>6. FindLink("maven", after, link) = Found(a)
  BY <1>2, <1>3, <1>5 DEF FindLink, MavenFind
<1>7. a.content = link
  BY <1>2 DEF MavenArtifact, Artifact
<1> QED BY <1>1, <1>6, <1>7 DEF Finds, link, a

\* NuGet: the link names the version of a leaf on one of the pages.
LEMMA NugetFinds ==
  ASSUME NEW got, NEW docs, NEW after, NEW i, LinksTo("nuget", got, docs, after, i)
  PROVE  Finds("nuget", got, docs, after, i)
<1> DEFINE index == Body(got)
           pages == Pages(got)
           leaves == NugetLeaves(index, pages)
           leaf == leaves[i]
           link == LinkAt("nuget", got, i)
           places == {j \in DOMAIN leaves : /\ leaves[j].catalog = "object" /\ leaves[j].valid
                                            /\ leaves[j].version = leaf.version}
<1>1. /\ i \in DOMAIN leaves /\ NugetHydrates(index, pages) /\ \A l \in Range(leaves) : l.valid
      /\ ListCandidates("nuget", got).artifacts[i] = NugetArtifact(leaf)
  BY DEF LinksTo, ListsFrom, ListCandidates, NugetCandidates, Candidates, NoListing
<1>2. leaf \in Range(leaves)
  BY <1>1 DEF Range
<1>3. link = leaf.version /\ leaf.catalog = "object"
  BY DEF LinksTo, LinkAt
<1>4. /\ Sized(leaves)
      /\ \A l \in Range(leaves) :
           \E p \in DOMAIN docs : docs[p].status = 200 /\ l \in LeavesOf(p, docs[p].body)
  BY <1>1, IndexIsStated, NugetLeavesAreStated DEF LinksTo, ListsFrom
<1>5. FindLink("nuget", after, link) = NugetFind(index, pages, link)
  <2>1. Index \in DOMAIN after /\ after[Index].status = 200 /\ Body(after) = index
    <3>1. Index \in DOMAIN after
      BY DEF LinksTo, Fetched, LinkParts, IndexParts
    <3> QED BY <3>1, IndexIsSame DEF LinksTo
  <2>2. Index \in DOMAIN got /\ got[Index].status = 200
    BY IndexIsStated DEF LinksTo
  <2>3. ASSUME NEW k \in {j \in DOMAIN index : ~index[j].inline}
        PROVE  after[Part(k)] = got[Part(k)]
    <3>1. Part(k) \in PagesOf(index)
      BY <1>1 DEF PagesOf, NugetHydrates
    <3>2. Part(k) \in DOMAIN after
      BY <2>1, <3>1 DEF LinksTo, Fetched, LinkParts, IndexParts, Body
    <3>3. Part(k) \in DOMAIN got
      BY <2>2, <3>1 DEF LinksTo, ListsFrom, Fetched, ListParts, IndexParts, Body
    <3> QED BY <3>2, <3>3 DEF LinksTo, ListsFrom, Fetched
  <2>4. Pages(after) = pages
    BY <2>1, <2>3 DEF Pages, Parts
  <2> QED BY <2>1, <2>4 DEF FindLink
<1> HIDE DEF index, pages, leaves, link
<1>6. \A l, m \in Range(leaves) : l.version = m.version => l = m
  <2>1. Unambiguous("nuget", docs)
    BY DocumentsAreWellFormed DEF LinksTo, ListsFrom
  <2> QED BY <1>4, <2>1 DEF Unambiguous
<1>7. NugetLeafOf(leaves, leaf.version) = <<leaf>>
  <2>1. places \subseteq Nat /\ i \in places
    BY <1>1, <1>2, <1>3, <1>4 DEF Sized
  <2>2. \A j \in places : leaves[j] = leaf
    BY <1>1, <1>2, <1>6 DEF Range
  <2> HIDE DEF places
  <2>3. FirstAt(leaves, places) = <<leaf>>
    BY <2>1, <2>2, FirstIsAll
  <2> QED BY <2>3 DEF NugetLeafOf, places
<1>8. NugetFind(index, pages, link) = Found(NugetArtifact(leaf))
  BY <1>1, <1>3, <1>7 DEF NugetFind, leaves
<1>9. ~Unservable("nuget", docs, link) => NugetArtifact(leaf).content # NoLink
  <2>1. PICK p \in DOMAIN docs : docs[p].status = 200 /\ leaf \in LeavesOf(p, docs[p].body)
    BY <1>2, <1>4
  <2>2. NugetArtifact(leaf) \in ReleasedBy("nuget", p, docs[p].body)
    BY <2>1 DEF ReleasedBy
  <2>3. NugetArtifact(leaf) \in Released("nuget", docs)
    BY <2>1, <2>2 DEF Released
  <2>4. NugetArtifact(leaf).version = link
    BY <1>3 DEF NugetArtifact, Artifact
  <2> QED BY <2>3, <2>4 DEF Unservable
<1> QED BY <1>1, <1>5, <1>8, <1>9 DEF Finds, link

\* The file name of a gem tells the number and the platform of its version, and begins with
\* the name of the gem.
LEMMA GemFileTells ==
  ASSUME NEW v, v.platform \in Seq(Range(v.platform)), NEW w, w.platform \in Seq(Range(w.platform)),
         NEW name, name \in Seq(Range(name)), Len(name) > 0
  PROVE  /\ name \in GemNames(GemFile(name, v))
         /\ GemId(name, v.number) = GemId(name, w.number) => v.number = w.number
         /\ GemFile(name, v) = GemFile(name, w) => CompactKey(v) = CompactKey(w)
<1> DEFINE S == Range(name) \cup {v.number, w.number} \cup Range(v.platform) \cup Range(w.platform)
<1>1. /\ name \in Seq(S) /\ v.platform \in Seq(S) /\ w.platform \in Seq(S)
      /\ v.number \in S /\ w.number \in S
  <2>1. /\ Range(name) \subseteq S /\ Range(v.platform) \subseteq S /\ Range(w.platform) \subseteq S
        /\ v.number \in S /\ w.number \in S
    OBVIOUS
  <2> HIDE DEF S
  <2> QED BY <2>1, SeqMonotonic
<1> HIDE DEF S
<1> DEFINE n == Len(name)
<1>2. n \in Nat \ {0}
  BY <1>1
<1>3. ASSUME NEW x \in S
      PROVE  /\ GemId(name, x) \in Seq(S) /\ Len(GemId(name, x)) = n + 1
             /\ GemId(name, x)[n + 1] = x /\ \A i \in 1..n : GemId(name, x)[i] = name[i]
  <2>1. <<x>> \in Seq(S) /\ Len(<<x>>) = 1 /\ <<x>>[1] = x
    OBVIOUS
  <2> QED BY <1>1, <1>2, <2>1, ConcatProperties DEF GemId
<1>4. ASSUME NEW u, u.number \in S, u.platform \in Seq(S)
      PROVE  LET file == GemFile(name, u)
             IN /\ file \in Seq(S) /\ Len(file) \in Nat /\ n + 1 <= Len(file)
                /\ file[n + 1] = u.number /\ \A i \in 1..n : file[i] = name[i]
  <2> DEFINE file == GemFile(name, u)
             id == GemId(name, u.number)
  <2>1. /\ id \in Seq(S) /\ Len(id) = n + 1 /\ id[n + 1] = u.number
        /\ \A i \in 1..n : id[i] = name[i]
    BY <1>3, <1>4
  <2> HIDE DEF id
  <2>2. /\ file \in Seq(S) /\ Len(file) = n + 1 + Len(u.platform) /\ Len(u.platform) \in Nat
        /\ \A i \in 1..n + 1 : file[i] = id[i]
    <3>1. file = id \o u.platform
      BY DEF GemFile, id
    <3>2. Len(u.platform) \in Nat
      BY <1>4
    <3> DEFINE both == id \o u.platform
    <3>3. /\ both \in Seq(S) /\ Len(both) = Len(id) + Len(u.platform)
          /\ \A i \in 1..Len(id) + Len(u.platform) :
               both[i] = IF i <= Len(id) THEN id[i] ELSE u.platform[i - Len(id)]
      BY <1>4, <2>1, ConcatProperties
    <3> HIDE DEF file, both, n
    <3> QED BY <1>2, <2>1, <3>1, <3>2, <3>3 DEF both
  <2> HIDE DEF file, n
  <2>3. /\ Len(file) \in Nat /\ n + 1 <= Len(file)
        /\ file[n + 1] = u.number /\ \A i \in 1..n : file[i] = name[i]
    <3>1. n + 1 \in 1..n + 1 /\ \A i \in 1..n : i \in 1..n + 1
      BY <1>2
    <3>2. file[n + 1] = id[n + 1] /\ \A i \in 1..n : file[i] = id[i]
      BY <2>2, <3>1
    <3>3. Len(file) \in Nat /\ n + 1 <= Len(file)
      BY <1>2, <2>2
    <3> QED BY <2>1, <3>2, <3>3
  <2> QED BY <2>2, <2>3 DEF file
<1>5. GemId(name, v.number) = GemId(name, w.number) => v.number = w.number
  BY <1>1, <1>3
<1>6. GemFile(name, v) = GemFile(name, w) => CompactKey(v) = CompactKey(w)
  <2> SUFFICES ASSUME GemFile(name, v) = GemFile(name, w)
               PROVE  v.number = w.number /\ v.platform = w.platform
    BY DEF CompactKey
  <2>1. v.number = w.number
    <3>1. GemFile(name, v)[n + 1] = v.number
      BY <1>1, <1>4
    <3>2. GemFile(name, w)[n + 1] = w.number
      BY <1>1, <1>4
    <3> QED BY <3>1, <3>2
  <2>2. GemId(name, v.number) \o v.platform = GemId(name, v.number) \o w.platform
    BY <2>1 DEF GemFile
  <2>3. GemId(name, v.number) \in Seq(S)
    BY <1>1, <1>3
  <2>4. \A s, t, u \in Seq(S) : s \o t = s \o u => t = u
    BY ConcatSimplifications
  <2> HIDE DEF n
  <2> QED BY <1>1, <2>1, <2>2, <2>3, <2>4
<1>7. name \in GemNames(GemFile(name, v))
  <2> DEFINE file == GemFile(name, v)
  <2>1. /\ file \in Seq(S) /\ Len(file) \in Nat /\ n + 1 <= Len(file)
        /\ \A i \in 1..n : file[i] = name[i]
    BY <1>1, <1>4
  <2> HIDE DEF file
  <2>2. n \in 1..Len(file) - 1
    BY <1>2, <2>1
  <2>3. SubSeq(file, 1, n) = name
    BY <1>1, <1>2, <2>1
  <2> QED BY <2>2, <2>3 DEF GemNames, file
<1> QED BY <1>5, <1>6, <1>7

\* Each line is a version and each version a line, and none of them is there twice.
OneForOne(lines, current) ==
  /\ Sized(lines) /\ Sized(current)
  /\ \A v \in Range(lines) \cup Range(current) : v.platform \in Seq(Range(v.platform))
  /\ \A i, j \in DOMAIN lines : CompactKey(lines[i]) = CompactKey(lines[j]) => i = j
  /\ \A i, j \in DOMAIN current : CompactKey(current[i]) = CompactKey(current[j]) => i = j
  /\ \A i \in DOMAIN lines : \E j \in DOMAIN current : Agrees(lines[i], current[j])
  /\ \A j \in DOMAIN current : \E i \in DOMAIN lines : Agrees(lines[i], current[j])

\* The two upstream documents of a gem state the same versions of it (filter_compact_info).
LEMMA GemsAre ==
  ASSUME NEW got, NEW docs, ListsFrom("rubygems", got, docs)
  PROVE  /\ DOMAIN ListCandidates("rubygems", got).artifacts = DOMAIN Body(got)
         /\ \A i \in DOMAIN Body(got) :
              ListCandidates("rubygems", got).artifacts[i] = GemArtifact(GemName, Body(got)[i])
         /\ StatedBy(docs, GemPart(GemName)).status = 200
         /\ OneForOne(Body(got), Current(StatedBy(docs, GemPart(GemName)).body))
<1> DEFINE lines == Body(got)
           gem == StatedBy(docs, GemPart(GemName))
           current == Current(gem.body)
           Q == {i \in DOMAIN gem.body : ~gem.body[i].yanked}
<1>1. GemPart(GemName) \in DOMAIN got /\ got[GemPart(GemName)] = gem
  BY DEF ListsFrom, Fetched, ListParts
<1>2. gem.status = 200
  BY <1>1 DEF ListsFrom, ListCandidates, NoListing
<1>3. /\ GemsAgree(lines, gem.body)
      /\ ListCandidates("rubygems", got).artifacts =
           [i \in DOMAIN lines |-> GemArtifact(GemName, lines[i])]
  BY <1>1 DEF ListsFrom, ListCandidates, GemCandidates, Candidates, NoListing
<1>4. WellFormed("rubygems", GemPart(GemName), gem.body) /\ WellFormed("rubygems", Index, lines)
  BY <1>2, StatedIsWellFormed, IndexIsStated DEF ListsFrom
<1> HIDE DEF lines, gem
<1>5. /\ lines \in Seq(Range(lines)) /\ gem.body \in Seq(Range(gem.body))
      /\ \A v \in Range(lines) \cup Range(gem.body) : v.platform \in Seq(Range(v.platform))
  BY <1>4 DEF WellFormed
<1>6. Places(Q)
  <2>1. PICK n \in Nat : DOMAIN gem.body = 1..n
    BY <1>5
  <2>2. IsFiniteSet(1..n) /\ Q \in SUBSET (1..n)
    BY <2>1, FS_Interval
  <2> HIDE DEF Q
  <2>3. Q \subseteq Nat
    BY <2>2
  <2> QED BY <2>2, <2>3, FS_Subset DEF Places
<1>7. current = AtIndices(gem.body, Q)
  BY DEF Current
<1>8. Q \subseteq DOMAIN gem.body
  OBVIOUS
<1> HIDE DEF Q, current
<1>9. Sized(current) /\ Range(current) = {gem.body[i] : i \in Q}
  BY <1>6, <1>7, TakenAre
<1>10. Range(current) \subseteq Range(gem.body)
  BY <1>8, <1>9 DEF Range
<1>11. PICK n \in Nat : DOMAIN current = 1..n
  BY <1>9 DEF Sized
<1>12. PICK m \in Nat : DOMAIN lines = 1..m
  BY <1>5
<1>13. /\ \A i, j \in DOMAIN lines : CompactKey(lines[i]) = CompactKey(lines[j]) => i = j
       /\ \A i, j \in DOMAIN current : CompactKey(current[i]) = CompactKey(current[j]) => i = j
  <2>1. ~Duplicates(lines) /\ ~Duplicates(current)
    BY <1>3 DEF GemsAgree, current
  <2>2. \A i, j \in DOMAIN lines : i = j \/ i < j \/ j < i
    BY <1>12
  <2>3. \A i, j \in DOMAIN current : i = j \/ i < j \/ j < i
    BY <1>11
  <2> QED BY <2>1, <2>2, <2>3 DEF Duplicates
<1>14. \A i \in DOMAIN lines : \E j \in DOMAIN current : Agrees(lines[i], current[j])
  BY <1>3 DEF GemsAgree, Range, current
<1>15. m = n
  <2>1. Len(lines) = Len(current)
    BY <1>3 DEF GemsAgree, current
  <2>2. Len(lines) = m
    BY <1>5, <1>12
  <2>3. Len(current) = n
    <3>1. current \in Seq(Range(current))
      <4>1. current = [j \in DOMAIN current |-> current[j]]
        BY <1>7 DEF AtIndices
      <4>2. \A j \in 1..n : current[j] \in Range(current)
        BY <1>11 DEF Range
      <4> QED BY <1>11, <4>1, <4>2
    <3> QED BY <1>11, <3>1
  <2> QED BY <2>1, <2>2, <2>3
<1>16. \A j \in DOMAIN current : \E i \in DOMAIN lines : Agrees(lines[i], current[j])
  <2> DEFINE f == [i \in DOMAIN lines |-> CHOOSE j \in DOMAIN current : Agrees(lines[i], current[j])]
  <2>1. \A i \in DOMAIN lines : f[i] \in DOMAIN current /\ Agrees(lines[i], current[f[i]])
    BY <1>14
  <2>2. f \in [DOMAIN lines -> DOMAIN current]
    BY <2>1
  <2> HIDE DEF f
  <2>3. \A i, j \in DOMAIN lines : f[i] = f[j] => i = j
    BY <1>13, <2>1 DEF Agrees
  <2>4. f \in Injection(1..n, 1..n)
    BY <1>11, <1>12, <1>15, <2>2, <2>3 DEF Injection, IsInjective
  <2>5. f \in Surjection(1..n, 1..n)
    <3>1. IsFiniteSet(1..n)
      BY FS_Interval
    <3> QED BY <2>4, <3>1, FS_Injection
  <2>6. \A j \in 1..n : \E i \in 1..n : f[i] = j
    BY <2>5 DEF Surjection
  <2> QED BY <1>11, <1>12, <1>15, <2>1, <2>6
<1>17. /\ Sized(lines)
       /\ \A v \in Range(lines) \cup Range(current) : v.platform \in Seq(Range(v.platform))
  BY <1>5, <1>10, <1>12 DEF Sized
<1>18. OneForOne(lines, current)
  BY <1>9, <1>13, <1>14, <1>16, <1>17 DEF OneForOne
<1> QED BY <1>2, <1>3, <1>18 DEF lines, gem, current

\* RubyGems: a gem's file name is taken apart into every name and version it may stand for,
\* and one of them is stated.
LEMMA GemFinds ==
  ASSUME NEW got, NEW docs, NEW after, NEW i, LinksTo("rubygems", got, docs, after, i)
  PROVE  Finds("rubygems", got, docs, after, i)
<1> DEFINE lines == Body(got)
           link == LinkAt("rubygems", got, i)
           gem == StatedBy(docs, GemPart(GemName))
           current == Current(gem.body)
           replies == Gems(after, link)
           own == GemArtifact(GemName, lines[i])
           matches == GemMatches(link, replies)
<1>1. ListsFrom("rubygems", got, docs)
  BY DEF LinksTo
<1>2. /\ ListCandidates("rubygems", got).artifacts[i] = own /\ i \in DOMAIN lines
      /\ link = GemFile(GemName, lines[i]) /\ link # NoLink
  BY <1>1, GemsAre DEF LinksTo, LinkAt
<1>3. /\ gem.status = 200
      /\ \A v \in Range(lines) \cup Range(current) : v.platform \in Seq(Range(v.platform))
      /\ \A j, k \in DOMAIN current : CompactKey(current[j]) = CompactKey(current[k]) => j = k
      /\ \E j \in DOMAIN current : Agrees(lines[i], current[j])
  <2>1. gem.status = 200 /\ OneForOne(lines, current)
    BY <1>1, GemsAre
  <2> HIDE DEF gem, lines, current
  <2> QED BY <1>2, <2>1 DEF OneForOne
<1>4. FindLink("rubygems", after, link) = GemFind(link, replies)
  BY <1>1, IndexIsSame DEF LinksTo, FindLink
<1>5. ASSUME ~TooManyNames(link)
      PROVE  \A n \in GemNames(link) : replies[n] = StatedBy(docs, GemPart(n))
  <2>1. \A n \in GemNames(link) : GemPart(n) \in DOMAIN after
    BY <1>5 DEF LinksTo, Fetched, LinkParts
  <2> QED BY <2>1 DEF LinksTo, Fetched, Gems
<1> HIDE DEF lines, link, gem, current, replies
<1>6. /\ lines[i].platform \in Seq(Range(lines[i].platform))
      /\ GemName \in Seq(Range(GemName)) /\ Len(GemName) > 0
  BY <1>2, <1>3 DEF Range, GemName
<1>7. GemName \in GemNames(link)
  BY <1>2, <1>6, GemFileTells
<1>8. PICK j \in DOMAIN current : Agrees(lines[i], current[j])
  BY <1>3
<1>9. GemArtifact(GemName, current[j]) = own /\ GemFile(GemName, current[j]) = link
  BY <1>2, <1>8 DEF Agrees, CompactKey, GemArtifact, GemFile
<1>10. \A k \in DOMAIN current : GemFile(GemName, current[k]) = link => k = j
  <2> SUFFICES ASSUME NEW k \in DOMAIN current, GemFile(GemName, current[k]) = link
               PROVE  k = j
    OBVIOUS
  <2>1. current[k] \in Range(current)
    BY DEF Range
  <2>2. CompactKey(current[k]) = CompactKey(lines[i])
    BY <1>2, <1>3, <1>6, <2>1, GemFileTells
  <2>3. CompactKey(current[j]) = CompactKey(lines[i])
    BY <1>8 DEF Agrees
  <2> QED BY <1>3, <2>2, <2>3
<1> HIDE DEF own
<1>11. ASSUME ~TooManyNames(link)
       PROVE  /\ replies[GemName].status = 200 /\ Current(replies[GemName].body) = current
              /\ [name |-> GemName, at |-> j] \in matches
  <2>1. replies[GemName] = gem
    BY <1>5, <1>7, <1>11 DEF gem
  <2>2. Current(replies[GemName].body) = current
    BY <2>1 DEF current
  <2> DEFINE named == {n \in GemNames(link) : replies[n].status = 200}
             places(n) == {k \in DOMAIN Current(replies[n].body) :
                             GemFile(n, Current(replies[n].body)[k]) = link}
             found(n) == {[name |-> n, at |-> k] : k \in places(n)}
  <2>3. GemName \in named /\ j \in places(GemName)
    BY <1>3, <1>7, <1>9, <2>1, <2>2
  <2>4. matches = UNION {found(n) : n \in named}
    BY DEF GemMatches
  <2>5. [name |-> GemName, at |-> j] \in found(GemName)
    BY <2>3
  <2> HIDE DEF found, named, matches
  <2>6. [name |-> GemName, at |-> j] \in matches
    BY <2>3, <2>4, <2>5
  <2> QED BY <1>3, <2>1, <2>2, <2>6
<1>12. ASSUME ~TooManyNames(link), matches = {[name |-> GemName, at |-> j]},
              \A n \in GemNames(link) : replies[n].status \in {200, 404, 410}
       PROVE  GemFind(link, replies) = Found(own)
  <2>1. (CHOOSE m \in matches : TRUE) = [name |-> GemName, at |-> j]
    BY <1>12
  <2> HIDE DEF matches
  <2>2. GemFind(link, replies) = Found(GemArtifact(GemName, current[j]))
    BY <1>11, <1>12, <2>1 DEF GemFind, matches
  <2> QED BY <1>9, <2>2
<1>13. ASSUME GemFind(link, replies).status = 200
       PROVE  GemFind(link, replies) = Found(own)
  <2>1. /\ ~TooManyNames(link) /\ matches = {CHOOSE m \in matches : TRUE}
        /\ \A n \in GemNames(link) : replies[n].status \in {200, 404, 410}
    BY <1>13 DEF GemFind, NotFound, GatewayError
  <2> HIDE DEF matches
  <2>2. matches = {[name |-> GemName, at |-> j]}
    BY <1>11, <2>1
  <2> QED BY <1>12, <2>1, <2>2
<1>14. ASSUME ~Unservable("rubygems", docs, link)
       PROVE  GemFind(link, replies) = Found(own) /\ own.content # NoLink
  <2>1. ~TooManyNames(link)
    BY <1>14 DEF Unservable
  <2>2. \A n \in GemNames(link) \ {GemName} : replies[n].status = 404
    BY <1>5, <1>14, <2>1 DEF Unservable, StatedBy, Absent, Refusal
  <2>3. \A n \in GemNames(link) : replies[n].status \in {200, 404, 410}
    BY <1>11, <2>1, <2>2
  <2>4. \A m \in matches : m = [name |-> GemName, at |-> j]
    <3> SUFFICES ASSUME NEW n \in GemNames(link), replies[n].status = 200,
                        NEW k \in DOMAIN Current(replies[n].body),
                        GemFile(n, Current(replies[n].body)[k]) = link
                 PROVE  n = GemName /\ k = j
      BY DEF GemMatches
    <3>1. n = GemName
      BY <2>2
    <3> QED BY <1>10, <1>11, <2>1, <3>1
  <2>5. matches = {[name |-> GemName, at |-> j]}
    BY <1>11, <2>1, <2>4
  <2> QED BY <1>2, <1>12, <2>1, <2>3, <2>5 DEF GemArtifact, Artifact, own
<1> QED BY <1>2, <1>4, <1>13, <1>14 DEF Finds, link, own

\* A link of any listing leads to the artifact that it was written for.
LEMMA AllFinds ==
  ASSUME NEW r, NEW got, NEW docs, NEW after, NEW i, LinksTo(r, got, docs, after, i)
  PROVE  Finds(r, got, docs, after, i)
BY NpmFinds, PypiFinds, CargoFinds, GoFinds, NugetFinds, GemFinds, MavenFinds,
   DocumentsAreWellFormed DEF LinksTo, ListsFrom

-----------------------------------------------------------------------------
(* What the check command looks for. *)

\* The artifacts of a version, looked for while upstream is as it was for a listing.
Looks(r, got, docs, after, version) ==
  /\ ListsFrom(r, got, docs) /\ version \in Versions(r)
  /\ Fetched(after, CheckParts(r, version, after), docs) /\ CheckLookup(r, after, version).ok

\* They are all those of the listing that have their version, and no entry of the listing is
\* one of theirs and of another artifact.
Agreeing(r, got, looked) ==
  LET artifacts == ListCandidates(r, got).artifacts
      entry(i) == EntryAt(r, got, i)
  IN /\ looked \in Seq(Range(looked)) /\ looked # <<>>
     /\ \E version :
          /\ \A k \in DOMAIN looked : looked[k].version = version
          /\ \A i \in DOMAIN artifacts : artifacts[i].version = version =>
               \E k \in DOMAIN looked : looked[k] = artifacts[i]
     /\ \A k \in DOMAIN looked : \E i \in DOMAIN artifacts :
          /\ artifacts[i] = looked[k]
          /\ \A j \in DOMAIN artifacts : entry(j) = entry(i) => artifacts[j] = looked[k]

\* One artifact that no other of the listing has the version of.
LEMMA OneAgrees ==
  ASSUME NEW r, NEW got, NEW a, NEW i \in DOMAIN ListCandidates(r, got).artifacts,
         ListCandidates(r, got).artifacts[i] = a,
         \A j \in DOMAIN ListCandidates(r, got).artifacts :
           ListCandidates(r, got).artifacts[j].version = a.version =>
             ListCandidates(r, got).artifacts[j] = a
  PROVE  Agreeing(r, got, <<a>>)
<1>1. <<a>> \in Seq(Range(<<a>>)) /\ <<a>> # <<>> /\ DOMAIN <<a>> = {1} /\ <<a>>[1] = a
  BY DEF Range
<1>2. \A j : EntryAt(r, got, j) = EntryAt(r, got, i) =>
        ListCandidates(r, got).artifacts[j].version = a.version
  BY DEF EntryAt, Entry
<1> QED BY <1>1, <1>2 DEF Agreeing

\* npm: the command looks at the one entry of the version.
LEMMA NpmChecks ==
  ASSUME NEW got, NEW docs, NEW after, NEW version, Looks("npm", got, docs, after, version)
  PROVE  Agreeing("npm", got, CheckLookup("npm", after, version).artifacts)
<1> DEFINE doc == Body(got)
           artifacts == ListCandidates("npm", got).artifacts
           places == {j \in DOMAIN doc.versions : doc.versions[j].version = version}
<1>1. /\ DOMAIN artifacts = DOMAIN doc.versions
      /\ \A j \in DOMAIN doc.versions : artifacts[j] = NpmArtifact(doc.versions[j])
  BY DEF Looks, ListsFrom, ListCandidates, NpmCandidates, Candidates, NoListing
<1>2. CheckLookup("npm", after, version) = NpmLookup(doc, version)
  <2>1. Index \in DOMAIN after
    BY DEF Looks, Fetched, CheckParts
  <2> QED BY <2>1, IndexIsSame DEF Looks, CheckLookup, NoListing
<1>3. /\ doc.versions \in Seq(Range(doc.versions))
      /\ Index \in DOMAIN docs /\ docs[Index].status = 200 /\ docs[Index].body = doc
  <2>1. /\ WellFormed("npm", Index, doc)
        /\ Index \in DOMAIN docs /\ docs[Index].status = 200 /\ docs[Index].body = doc
    BY IndexIsStated DEF Looks
  <2> HIDE DEF doc
  <2> QED BY <2>1 DEF WellFormed
<1>4. \A f, g \in Range(doc.versions) : f.version = g.version => f = g
  <2>1. Unambiguous("npm", docs)
    BY DocumentsAreWellFormed DEF Looks, ListsFrom
  <2> HIDE DEF doc
  <2> QED BY <1>3, <2>1 DEF Unambiguous
<1>5. NpmLookup(doc, version).ok
  BY <1>2 DEF Looks
<1> HIDE DEF doc
<1>6. /\ FirstAt(doc.versions, places) # <<>>
      /\ NpmLookup(doc, version).artifacts = <<NpmArtifact(FirstAt(doc.versions, places)[1])>>
  BY <1>5 DEF NpmLookup, NpmEntryOf, NoListing, Candidates
<1>7. PICK i \in places : FirstAt(doc.versions, places) = <<doc.versions[i]>>
  <2>1. places \subseteq Nat
    BY <1>3
  <2> HIDE DEF places
  <2> QED BY <1>6, <2>1, FirstIsMember
<1>8. i \in DOMAIN artifacts /\ NpmLookup(doc, version).artifacts = <<artifacts[i]>>
  BY <1>1, <1>6, <1>7
<1>9. \A j \in DOMAIN artifacts : artifacts[j].version = artifacts[i].version => artifacts[j] = artifacts[i]
  <2> HIDE DEF artifacts
  <2>1. \A j \in DOMAIN artifacts : artifacts[j].version = doc.versions[j].version
    <3>1. \A e : NpmArtifact(e).version = e.version
      BY DEF NpmArtifact, Artifact
    <3> QED BY <1>1, <3>1
  <2>2. \A j \in DOMAIN artifacts : doc.versions[j] \in Range(doc.versions)
    BY <1>1 DEF Range
  <2> QED BY <1>1, <1>4, <1>8, <2>1, <2>2
<1> HIDE DEF artifacts
<1>10. Agreeing("npm", got, <<artifacts[i]>>)
  BY <1>8, <1>9, OneAgrees DEF artifacts
<1> QED BY <1>2, <1>8, <1>10

\* Cargo: the command looks at the one line of the version.
LEMMA CargoChecks ==
  ASSUME NEW got, NEW docs, NEW after, NEW version, Looks("cargo", got, docs, after, version)
  PROVE  Agreeing("cargo", got, CheckLookup("cargo", after, version).artifacts)
<1> DEFINE lines == Body(got)
           artifacts == ListCandidates("cargo", got).artifacts
           places == {j \in DOMAIN lines : lines[j].version = version}
<1>1. /\ DOMAIN artifacts = DOMAIN lines
      /\ \A j \in DOMAIN lines : artifacts[j] = CargoArtifact(lines[j])
  BY DEF Looks, ListsFrom, ListCandidates, CargoCandidates, Candidates, NoListing
<1>2. CheckLookup("cargo", after, version) = Single(CargoFind(lines, version))
  <2>1. Index \in DOMAIN after
    BY DEF Looks, Fetched, CheckParts
  <2> QED BY <2>1, IndexIsSame DEF Looks, CheckLookup, NoListing
<1>3. /\ lines \in Seq(Range(lines))
      /\ Index \in DOMAIN docs /\ docs[Index].status = 200 /\ docs[Index].body = lines
  <2>1. /\ WellFormed("cargo", Index, lines)
        /\ Index \in DOMAIN docs /\ docs[Index].status = 200 /\ docs[Index].body = lines
    BY IndexIsStated DEF Looks
  <2> HIDE DEF lines
  <2> QED BY <2>1 DEF WellFormed
<1>4. \A f, g \in Range(lines) : f.version = g.version => f = g
  <2>1. Unambiguous("cargo", docs)
    BY DocumentsAreWellFormed DEF Looks, ListsFrom
  <2> HIDE DEF lines
  <2> QED BY <1>3, <2>1 DEF Unambiguous
<1>5. Single(CargoFind(lines, version)).ok
  BY <1>2 DEF Looks
<1> HIDE DEF lines
<1>6. /\ FirstAt(lines, places) # <<>>
      /\ Single(CargoFind(lines, version)).artifacts = <<CargoArtifact(FirstAt(lines, places)[1])>>
  <2>1. CargoFind(lines, version).status = 200
    BY <1>5 DEF Single, NoListing
  <2>2. /\ FirstAt(lines, places) # <<>>
        /\ CargoFind(lines, version) = Found(CargoArtifact(FirstAt(lines, places)[1]))
    BY <2>1 DEF CargoFind, CargoLineOf, NotFound, GatewayError
  <2> HIDE DEF places
  <2> QED BY <2>2 DEF Single, Found, Candidates
<1>7. PICK i \in places : FirstAt(lines, places) = <<lines[i]>>
  <2>1. places \subseteq Nat
    BY <1>3
  <2> HIDE DEF places
  <2> QED BY <1>6, <2>1, FirstIsMember
<1>8. i \in DOMAIN artifacts /\ Single(CargoFind(lines, version)).artifacts = <<artifacts[i]>>
  BY <1>1, <1>6, <1>7
<1>9. \A j \in DOMAIN artifacts : artifacts[j].version = artifacts[i].version => artifacts[j] = artifacts[i]
  <2> HIDE DEF artifacts
  <2>1. \A j \in DOMAIN artifacts : artifacts[j].version = lines[j].version
    BY <1>1 DEF CargoArtifact, Artifact
  <2>2. \A j \in DOMAIN artifacts : lines[j] \in Range(lines)
    BY <1>1 DEF Range
  <2> QED BY <1>1, <1>4, <1>8, <2>1, <2>2
<1> HIDE DEF artifacts
<1>10. Agreeing("cargo", got, <<artifacts[i]>>)
  BY <1>8, <1>9, OneAgrees DEF artifacts
<1> QED BY <1>2, <1>8, <1>10

\* Go: the command looks at the info of the version, which is the listed one.
LEMMA GoChecks ==
  ASSUME NEW got, NEW docs, NEW after, NEW version, Looks("go", got, docs, after, version)
  PROVE  Agreeing("go", got, CheckLookup("go", after, version).artifacts)
<1> DEFINE list == Body(got)
           artifacts == ListCandidates("go", got).artifacts
           info == StatedBy(docs, Part(version))
<1>1. Part(version) \in DOMAIN after /\ after[Part(version)] = info
  BY DEF Looks, Fetched, CheckParts
<1>2. /\ CheckLookup("go", after, version) = Single(GoFindLatest(info))
      /\ Single(GoFindLatest(info)).ok
  BY <1>1 DEF Looks, CheckLookup, NoListing
<1>3. info.status = 200 /\ Single(GoFindLatest(info)).artifacts = <<GoArtifact(info.body)>>
  <2>1. GoFindLatest(info).status = 200
    BY <1>2 DEF Single, NoListing
  <2>2. info.status = 200 /\ GoFindLatest(info) = Found(GoArtifact(info.body))
    BY <2>1 DEF GoFindLatest, Missing, NotFound, GatewayError
  <2> QED BY <2>2 DEF Single, Found, Candidates
<1>4. version \in Range(list)
  <2>1. /\ ChecksListed("go", docs) /\ version \in Versions("go")
        /\ Part(version) \in DOMAIN docs /\ docs[Part(version)].status = 200
    BY <1>3, StatedIsWellFormed, DocumentsAreWellFormed DEF Looks, ListsFrom
  <2>2. Index \in DOMAIN docs /\ docs[Index].status = 200 /\ docs[Index].body = list
    BY IndexIsStated DEF Looks
  <2> HIDE DEF list
  <2> QED BY <2>1, <2>2 DEF ChecksListed
<1>5. PICK i \in DOMAIN list : list[i] = version
  BY <1>4 DEF Range
<1>6. i \in DOMAIN artifacts /\ artifacts[i] = GoArtifact(info.body)
  BY <1>5, GoInfosAre DEF Looks
<1>7. \A j \in DOMAIN artifacts : artifacts[j].version = artifacts[i].version => artifacts[j] = artifacts[i]
  BY <1>5, <1>6, GoInfosAre DEF Looks
<1> HIDE DEF artifacts
<1>8. Agreeing("go", got, <<artifacts[i]>>)
  BY <1>6, <1>7, OneAgrees DEF artifacts
<1> QED BY <1>2, <1>3, <1>6, <1>8

\* Maven: the command looks at the POM of the version.
LEMMA MavenChecks ==
  ASSUME NEW got, NEW docs, NEW after, NEW version, Looks("maven", got, docs, after, version)
  PROVE  Agreeing("maven", got, CheckLookup("maven", after, version).artifacts)
<1> DEFINE versions == Range(Body(got).versions)
           present == MavenPresent(Body(got), Parts(got, versions))
           artifacts == ListCandidates("maven", got).artifacts
           pom == StatedBy(docs, Part(version))
<1>1. Part(version) \in DOMAIN after /\ after[Part(version)] = pom
  BY DEF Looks, Fetched, CheckParts
<1>2. /\ CheckLookup("maven", after, version) = MavenLookup(version, pom)
      /\ MavenLookup(version, pom).ok
  BY <1>1 DEF Looks, CheckLookup, NoListing
<1>3. pom.status = 200 /\ MavenLookup(version, pom).artifacts = <<MavenArtifact(version, pom.body)>>
  BY <1>2 DEF MavenLookup, MavenReadable, NoListing, Candidates
<1>4. version \in versions
  <2>1. /\ ChecksListed("maven", docs) /\ version \in Versions("maven")
        /\ Part(version) \in DOMAIN docs /\ docs[Part(version)].status = 200
    BY <1>3, StatedIsWellFormed, DocumentsAreWellFormed DEF Looks, ListsFrom
  <2>2. Index \in DOMAIN docs /\ docs[Index].status = 200 /\ docs[Index].body = Body(got)
    BY IndexIsStated DEF Looks
  <2> QED BY <2>1, <2>2 DEF ChecksListed
<1>5. /\ DOMAIN artifacts = DOMAIN present
      /\ \A j \in DOMAIN present :
           artifacts[j] = MavenArtifact(present[j], StatedBy(docs, Part(present[j])).body)
      /\ \E j \in DOMAIN present : present[j] = version
  BY <1>3, <1>4, MavenPresentAre DEF Looks
<1> HIDE DEF present, artifacts
<1>6. PICK i \in DOMAIN artifacts : present[i] = version
  BY <1>5
<1>7. artifacts[i] = MavenArtifact(version, pom.body)
  BY <1>5, <1>6
<1>8. \A j \in DOMAIN artifacts : artifacts[j].version = artifacts[i].version => artifacts[j] = artifacts[i]
  <2>1. \A v, p : MavenArtifact(v, p).version = v
    BY DEF MavenArtifact, Artifact
  <2>2. \A j \in DOMAIN artifacts : artifacts[j].version = present[j]
    BY <1>5, <2>1
  <2> QED BY <1>5, <2>2
<1>9. Agreeing("maven", got, <<artifacts[i]>>)
  BY <1>8, OneAgrees DEF artifacts
<1> QED BY <1>2, <1>3, <1>7, <1>9

\* NuGet: the command looks at the leaf of the version, whatever page it is on.
LEMMA NugetChecks ==
  ASSUME NEW got, NEW docs, NEW after, NEW version, Looks("nuget", got, docs, after, version)
  PROVE  Agreeing("nuget", got, CheckLookup("nuget", after, version).artifacts)
<1> DEFINE index == Body(got)
           pages == Pages(got)
           leaves == NugetLeaves(index, pages)
           artifacts == ListCandidates("nuget", got).artifacts
           places == {j \in DOMAIN leaves : /\ leaves[j].catalog = "object" /\ leaves[j].valid
                                            /\ leaves[j].version = version}
<1>1. /\ NugetHydrates(index, pages) /\ DOMAIN artifacts = DOMAIN leaves
      /\ \A j \in DOMAIN leaves : artifacts[j] = NugetArtifact(leaves[j])
  BY DEF Looks, ListsFrom, ListCandidates, NugetCandidates, Candidates, NoListing
<1>2. /\ Sized(leaves)
      /\ \A l \in Range(leaves) :
           \E p \in DOMAIN docs : docs[p].status = 200 /\ l \in LeavesOf(p, docs[p].body)
  BY <1>1, IndexIsStated, NugetLeavesAreStated DEF Looks, ListsFrom
<1>3. /\ CheckLookup("nuget", after, version) = Single(NugetFind(index, pages, version))
      /\ Single(NugetFind(index, pages, version)).ok
  <2>1. Index \in DOMAIN after /\ after[Index].status = 200 /\ Body(after) = index
    <3>1. Index \in DOMAIN after
      BY DEF Looks, Fetched, CheckParts, IndexParts
    <3> QED BY <3>1, IndexIsSame DEF Looks
  <2>2. Index \in DOMAIN got /\ got[Index].status = 200
    BY IndexIsStated DEF Looks
  <2>3. ASSUME NEW k \in {j \in DOMAIN index : ~index[j].inline}
        PROVE  after[Part(k)] = got[Part(k)]
    <3>1. Part(k) \in PagesOf(index)
      BY <1>1 DEF PagesOf, NugetHydrates
    <3>2. Part(k) \in DOMAIN after
      BY <2>1, <3>1 DEF Looks, Fetched, CheckParts, IndexParts, Body
    <3>3. Part(k) \in DOMAIN got
      BY <2>2, <3>1 DEF Looks, ListsFrom, Fetched, ListParts, IndexParts, Body
    <3> QED BY <3>2, <3>3 DEF Looks, ListsFrom, Fetched
  <2>4. Pages(after) = pages
    BY <2>1, <2>3 DEF Pages, Parts
  <2> QED BY <2>1, <2>4 DEF Looks, CheckLookup, NoListing
<1> HIDE DEF index, pages, leaves
<1>4. \A l, m \in Range(leaves) : l.version = m.version => l = m
  <2>1. Unambiguous("nuget", docs)
    BY DocumentsAreWellFormed DEF Looks, ListsFrom
  <2> QED BY <1>2, <2>1 DEF Unambiguous
<1>5. /\ FirstAt(leaves, places) # <<>>
      /\ Single(NugetFind(index, pages, version)).artifacts =
           <<NugetArtifact(FirstAt(leaves, places)[1])>>
  <2>1. NugetFind(index, pages, version).status = 200
    BY <1>3 DEF Single, NoListing
  <2>2. /\ FirstAt(leaves, places) # <<>>
        /\ NugetFind(index, pages, version) = Found(NugetArtifact(FirstAt(leaves, places)[1]))
    BY <2>1 DEF NugetFind, NugetLeafOf, NotFound, GatewayError, leaves
  <2> HIDE DEF places
  <2> QED BY <2>2 DEF Single, Found, Candidates
<1>6. PICK i \in places : FirstAt(leaves, places) = <<leaves[i]>>
  <2>1. places \subseteq Nat
    BY <1>2 DEF Sized
  <2> HIDE DEF places
  <2> QED BY <1>5, <2>1, FirstIsMember
<1> HIDE DEF artifacts
<1>7. i \in DOMAIN artifacts /\ Single(NugetFind(index, pages, version)).artifacts = <<artifacts[i]>>
  BY <1>1, <1>5, <1>6
<1>8. \A j \in DOMAIN artifacts : artifacts[j].version = artifacts[i].version => artifacts[j] = artifacts[i]
  <2>1. \A l : NugetArtifact(l).version = l.version
    BY DEF NugetArtifact, Artifact
  <2>2. \A j \in DOMAIN artifacts : artifacts[j].version = leaves[j].version
    BY <1>1, <2>1
  <2>3. \A j \in DOMAIN artifacts : leaves[j] \in Range(leaves)
    BY <1>1 DEF Range
  <2> QED BY <1>1, <1>4, <1>7, <2>2, <2>3
<1>9. Agreeing("nuget", got, <<artifacts[i]>>)
  BY <1>7, <1>8, OneAgrees DEF artifacts
<1> QED BY <1>3, <1>7, <1>9

\* What is made of each item that is taken from a sequence is a sequence.
LEMMA MadeOfTaken ==
  ASSUME NEW items, NEW indices, Places(indices), NEW made,
         made = [k \in DOMAIN AtIndices(items, indices) |-> made[k]]
  PROVE  /\ made \in Seq(Range(made))
         /\ AtIndices(items, indices) # <<>> => made # <<>>
<1> DEFINE taken == AtIndices(items, indices)
           n == Cardinality(indices)
<1>1. n \in Nat /\ DOMAIN taken = 1..n
  BY TakenFromPlaces
<1>2. taken = [k \in 1..n |-> taken[k]]
  BY DEF AtIndices
<1> HIDE DEF taken, n
<1>3. made = [k \in 1..n |-> made[k]]
  BY <1>1 DEF taken
<1>4. made \in Seq(Range(made))
  <2>1. \A k \in 1..n : made[k] \in Range(made)
    BY <1>3 DEF Range
  <2> QED BY <1>1, <1>3, <2>1
<1>5. taken # <<>> => made # <<>>
  <2>1. taken \in Seq(Range(taken))
    <3>1. \A k \in 1..n : taken[k] \in Range(taken)
      BY <1>2 DEF Range
    <3> QED BY <1>1, <1>2, <3>1
  <2>2. Len(taken) = n /\ Len(made) = n
    BY <1>1, <1>3, <1>4, <2>1
  <2> QED BY <1>4, <2>1, <2>2, EmptySeq
<1> QED BY <1>4, <1>5 DEF taken

\* PyPI: the command looks at every file of the version, and a file has one version.
LEMMA PypiChecks ==
  ASSUME NEW got, NEW docs, NEW after, NEW version, Looks("pypi", got, docs, after, version)
  PROVE  Agreeing("pypi", got, CheckLookup("pypi", after, version).artifacts)
<1> DEFINE doc == Body(got)
           files == doc.files
           artifacts == ListCandidates("pypi", got).artifacts
           Q == {i \in DOMAIN files : PypiInferVersion(doc.name, files[i]) = version}
           asked == AtIndices(files, Q)
           looked == PypiLookup(doc, version).artifacts
<1>1. /\ DOMAIN artifacts = DOMAIN files
      /\ \A j \in DOMAIN files : artifacts[j] = PypiArtifact(doc, files[j])
  BY DEF Looks, ListsFrom, ListCandidates, PypiCandidates, Candidates, NoListing
<1>2. CheckLookup("pypi", after, version) = PypiLookup(doc, version)
  <2>1. Index \in DOMAIN after
    BY DEF Looks, Fetched, CheckParts
  <2> QED BY <2>1, IndexIsSame DEF Looks, CheckLookup, NoListing
<1>3. /\ files \in Seq(Range(files))
      /\ Index \in DOMAIN docs /\ docs[Index].status = 200 /\ docs[Index].body = doc
  <2>1. /\ WellFormed("pypi", Index, doc)
        /\ Index \in DOMAIN docs /\ docs[Index].status = 200 /\ docs[Index].body = doc
    BY IndexIsStated DEF Looks
  <2> HIDE DEF doc
  <2> QED BY <2>1 DEF WellFormed
<1>4. \A f, g \in Range(files) : PypiFile(f) = PypiFile(g) => f = g
  <2>1. Unambiguous("pypi", docs)
    BY DocumentsAreWellFormed DEF Looks, ListsFrom
  <2> HIDE DEF doc
  <2> QED BY <1>3, <2>1 DEF Unambiguous
<1>5. \A j \in DOMAIN files : EntryAt("pypi", got, j) = PypiEntry(doc, files[j])
  <2>1. \A f : /\ PypiArtifact(doc, f).version = PypiInferVersion(doc.name, f)
                /\ PypiEntry(doc, f) = Entry(PypiInferVersion(doc.name, f), PypiEntry(doc, f).link)
    BY DEF PypiArtifact, Artifact, PypiEntry, Entry
  <2>2. \A j : EntryAt("pypi", got, j) = Entry(artifacts[j].version, PypiEntry(doc, files[j]).link)
    BY DEF EntryAt, LinkAt
  <2> HIDE DEF doc, files, artifacts
  <2> QED BY <1>1, <2>1, <2>2
<1>6. asked # <<>> /\ looked = [k \in DOMAIN asked |-> PypiArtifact(doc, asked[k])]
  <2>1. PypiLookup(doc, version).ok
    BY <1>2 DEF Looks
  <2> HIDE DEF doc
  <2> QED BY <2>1 DEF PypiLookup, NoListing, Candidates
<1> HIDE DEF doc, files, artifacts, looked
<1>7. Places(Q)
  <2>1. PICK n \in Nat : DOMAIN files = 1..n
    BY <1>3
  <2>2. IsFiniteSet(1..n)
    BY FS_Interval
  <2>3. Q \in SUBSET (1..n) /\ Q \subseteq Nat
    BY <2>1
  <2> HIDE DEF Q
  <2> QED BY <2>2, <2>3, FS_Subset DEF Places
<1>8. \A i : i \in Q <=> i \in DOMAIN files /\ PypiInferVersion(doc.name, files[i]) = version
  OBVIOUS
<1> HIDE DEF Q, asked
<1>9. looked \in Seq(Range(looked)) /\ looked # <<>> /\ DOMAIN looked = DOMAIN asked
  BY <1>6, <1>7, MadeOfTaken DEF asked
<1>10. /\ \A k \in DOMAIN asked : \E i \in Q : asked[k] = files[i]
       /\ \A i \in Q : \E k \in DOMAIN asked : asked[k] = files[i]
  BY <1>7, TakenFromPlaces DEF asked
<1>11. \A f : PypiArtifact(doc, f).version = PypiInferVersion(doc.name, f)
  BY DEF PypiArtifact, Artifact
<1>12. \A k \in DOMAIN looked : /\ looked[k].version = version
                                /\ \E i \in DOMAIN artifacts : artifacts[i] = looked[k]
  BY <1>1, <1>6, <1>8, <1>9, <1>10, <1>11
<1>13. ASSUME NEW i \in DOMAIN artifacts, artifacts[i].version = version
       PROVE  \E k \in DOMAIN looked : looked[k] = artifacts[i]
  <2>1. i \in Q
    BY <1>1, <1>8, <1>11, <1>13
  <2> QED BY <1>1, <1>6, <1>9, <1>10, <2>1
<1>14. ASSUME NEW i \in DOMAIN artifacts, NEW j \in DOMAIN artifacts,
              EntryAt("pypi", got, j) = EntryAt("pypi", got, i)
       PROVE  artifacts[j] = artifacts[i]
  <2>1. PypiFile(files[j]) = PypiFile(files[i])
    BY <1>1, <1>5, <1>14 DEF PypiEntry, Entry
  <2>2. files[j] \in Range(files) /\ files[i] \in Range(files)
    BY <1>1 DEF Range
  <2> QED BY <1>1, <1>4, <2>1, <2>2
<1>15. Agreeing("pypi", got, looked)
  <2>1. \A k \in DOMAIN looked : \E i \in DOMAIN artifacts :
          /\ artifacts[i] = looked[k]
          /\ \A j \in DOMAIN artifacts :
               EntryAt("pypi", got, j) = EntryAt("pypi", got, i) => artifacts[j] = looked[k]
    BY <1>12, <1>14
  <2> QED BY <1>9, <1>12, <1>13, <2>1 DEF Agreeing, artifacts
<1> QED BY <1>2, <1>15 DEF looked, doc

\* RubyGems: the command looks at every platform of the version.
LEMMA GemChecks ==
  ASSUME NEW got, NEW docs, NEW after, NEW version, Looks("rubygems", got, docs, after, version)
  PROVE  Agreeing("rubygems", got, CheckLookup("rubygems", after, version).artifacts)
<1> DEFINE lines == Body(got)
           gem == StatedBy(docs, GemPart(GemName))
           current == Current(gem.body)
           artifacts == ListCandidates("rubygems", got).artifacts
           Q == {i \in DOMAIN current : GemId(GemName, current[i].number) = version}
           asked == AtIndices(current, Q)
           looked == GemLookup(GemName, gem.body, version).artifacts
<1>1. ListsFrom("rubygems", got, docs)
  BY DEF Looks
<1>2. /\ DOMAIN artifacts = DOMAIN lines
      /\ \A j \in DOMAIN lines : artifacts[j] = GemArtifact(GemName, lines[j])
      /\ OneForOne(lines, current)
  BY <1>1, GemsAre
<1>3. /\ CheckLookup("rubygems", after, version) = GemLookup(GemName, gem.body, version)
      /\ GemLookup(GemName, gem.body, version).ok
  <2>1. GemPart(GemName) \in DOMAIN after /\ after[GemPart(GemName)] = gem
    BY DEF Looks, Fetched, CheckParts
  <2> QED BY <2>1 DEF Looks, CheckLookup, NoListing
<1>4. \A j \in DOMAIN lines : EntryAt("rubygems", got, j) =
                                Entry(GemId(GemName, lines[j].number), GemFile(GemName, lines[j]))
  <2>1. \A v : GemArtifact(GemName, v).version = GemId(GemName, v.number)
    BY DEF GemArtifact, Artifact
  <2>2. \A j : EntryAt("rubygems", got, j) = Entry(artifacts[j].version, GemFile(GemName, lines[j]))
    BY DEF EntryAt, LinkAt
  <2> HIDE DEF lines, artifacts
  <2> QED BY <1>2, <2>1, <2>2
<1> HIDE DEF lines, gem, artifacts
<1>5. asked # <<>> /\ looked = [k \in DOMAIN asked |-> GemArtifact(GemName, asked[k])]
  BY <1>3 DEF GemLookup, NoListing, Candidates
<1> HIDE DEF looked, current
<1>6. /\ Sized(lines) /\ Sized(current)
      /\ \A v \in Range(lines) \cup Range(current) : v.platform \in Seq(Range(v.platform))
      /\ \A i, j \in DOMAIN lines : CompactKey(lines[i]) = CompactKey(lines[j]) => i = j
      /\ \A i \in DOMAIN lines : \E j \in DOMAIN current : Agrees(lines[i], current[j])
      /\ \A j \in DOMAIN current : \E i \in DOMAIN lines : Agrees(lines[i], current[j])
  BY <1>2 DEF OneForOne
<1>7. Places(Q)
  <2>1. PICK n \in Nat : DOMAIN current = 1..n
    BY <1>6 DEF Sized
  <2>2. IsFiniteSet(1..n)
    BY FS_Interval
  <2>3. Q \in SUBSET (1..n) /\ Q \subseteq Nat
    BY <2>1
  <2> HIDE DEF Q
  <2> QED BY <2>2, <2>3, FS_Subset DEF Places
<1>8. \A i : i \in Q <=> i \in DOMAIN current /\ GemId(GemName, current[i].number) = version
  OBVIOUS
<1> HIDE DEF Q, asked
<1>9. looked \in Seq(Range(looked)) /\ looked # <<>> /\ DOMAIN looked = DOMAIN asked
  BY <1>5, <1>7, MadeOfTaken DEF asked
<1>10. /\ \A k \in DOMAIN asked : \E i \in Q : asked[k] = current[i]
       /\ \A i \in Q : \E k \in DOMAIN asked : asked[k] = current[i]
  BY <1>7, TakenFromPlaces DEF asked
<1>11. \A v : GemArtifact(GemName, v).version = GemId(GemName, v.number)
  BY DEF GemArtifact, Artifact
<1>12. \A i \in DOMAIN lines : \A j \in DOMAIN current : Agrees(lines[i], current[j]) =>
         GemArtifact(GemName, lines[i]) = GemArtifact(GemName, current[j])
  BY DEF Agrees, CompactKey, GemArtifact, GemFile
<1>13. \A k \in DOMAIN looked : /\ looked[k].version = version
                                /\ \E i \in DOMAIN artifacts : artifacts[i] = looked[k]
  <2> SUFFICES ASSUME NEW k \in DOMAIN looked
               PROVE  /\ looked[k].version = version
                      /\ \E i \in DOMAIN artifacts : artifacts[i] = looked[k]
    OBVIOUS
  <2>1. PICK j \in Q : asked[k] = current[j]
    BY <1>9, <1>10
  <2>2. PICK i \in DOMAIN lines : Agrees(lines[i], current[j])
    BY <1>6, <1>8, <2>1
  <2>3. looked[k] = GemArtifact(GemName, current[j])
    BY <1>5, <1>9, <2>1
  <2> QED BY <1>2, <1>8, <1>11, <1>12, <2>1, <2>2, <2>3
<1>14. ASSUME NEW i \in DOMAIN artifacts, artifacts[i].version = version
       PROVE  \E k \in DOMAIN looked : looked[k] = artifacts[i]
  <2>1. PICK j \in DOMAIN current : Agrees(lines[i], current[j])
    BY <1>2, <1>6
  <2>2. artifacts[i] = GemArtifact(GemName, current[j])
    BY <1>2, <1>12, <2>1
  <2>3. j \in Q
    BY <1>8, <1>11, <1>14, <2>1, <2>2
  <2>4. PICK k \in DOMAIN asked : asked[k] = current[j]
    BY <1>10, <2>3
  <2> QED BY <1>5, <1>9, <2>2, <2>4
<1>15. ASSUME NEW i \in DOMAIN artifacts, NEW j \in DOMAIN artifacts,
              EntryAt("rubygems", got, j) = EntryAt("rubygems", got, i)
       PROVE  artifacts[j] = artifacts[i]
  <2>1. GemFile(GemName, lines[j]) = GemFile(GemName, lines[i])
    BY <1>2, <1>4, <1>15 DEF Entry
  <2>2. lines[j] \in Range(lines) /\ lines[i] \in Range(lines)
    BY <1>2 DEF Range
  <2>3. GemName \in Seq(Range(GemName)) /\ Len(GemName) > 0
    BY DEF Range, GemName
  <2>4. CompactKey(lines[j]) = CompactKey(lines[i])
    BY <1>6, <2>1, <2>2, <2>3, GemFileTells
  <2> QED BY <1>2, <1>6, <2>4
<1>16. Agreeing("rubygems", got, looked)
  BY <1>9, <1>13, <1>14, <1>15 DEF Agreeing, artifacts
<1> QED BY <1>3, <1>16 DEF looked

\* The command looks at all that a listing shows or hides of a version, and at nothing else.
LEMMA AllCheck ==
  ASSUME NEW r, NEW got, NEW docs, NEW after, NEW version, Looks(r, got, docs, after, version)
  PROVE  Agreeing(r, got, CheckLookup(r, after, version).artifacts)
BY NpmChecks, PypiChecks, CargoChecks, GoChecks, NugetChecks, GemChecks, MavenChecks,
   DocumentsAreWellFormed DEF Looks, ListsFrom

-----------------------------------------------------------------------------
(* The times and versions of requests. *)

\* A request asks at a time for a version that may be checked, and leaves no answer before it
\* has its own.
AskedInv ==
  /\ now \in Int /\ policy \in Policies(registry)
  /\ request # Idle => /\ request.now \in Int /\ reply = None
                       /\ request.kind = "check" => request.link \in Versions(registry)
                       /\ request.stage = "fetch" => request.allowed = TRUE

\* There is no request at first.
LEMMA AskedInit == Init => AskedInv
BY DEF Init, AskedInv

\* Requests take the time of the clock, and each has one answer.
LEMMA AskedNext == ServeInv /\ AskedInv /\ [Next]_vars => AskedInv'
<1> SUFFICES ASSUME ServeInv, AskedInv, [Next]_vars PROVE AskedInv'
  OBVIOUS
<1>1. now' \in Int /\ UNCHANGED <<registry, policy>>
  <2>1. now' \in {now, now + 1} /\ UNCHANGED <<registry, policy>>
    <3>1. CASE UNCHANGED vars \/ Tick
      BY <3>1 DEF vars, Tick
    <3>2. CASE \/ \E ask : AskListing(ask)
               \/ \E link : AskArtifact(link) \/ AskCheck(link) \/ Fetch(link)
      BY <3>2 DEF AskListing, AskArtifact, AskCheck, Fetch
    <3>3. CASE AnswerListing \/ Decide \/ Deliver
      BY <3>3 DEF AnswerListing, Decide, Deliver
    <3>4. CASE Look \/ Judge \/ UpstreamChanges \/ StoreChanges
      BY <3>4 DEF Look, Judge, UpstreamChanges, StoreChanges, World
    <3> QED BY <3>1, <3>2, <3>3, <3>4 DEF Next
  <2> QED BY <2>1 DEF AskedInv
<1>2. CASE request' = Idle
  BY <1>1, <1>2 DEF AskedInv
<1>3. CASE UNCHANGED <<request, reply>>
  BY <1>1, <1>3 DEF AskedInv
<1>4. ASSUME NEW kind, NEW link, NEW ask, NEW since, request' = Started(kind, link, ask, since),
             reply' = None, kind = "check" => link \in Versions(registry)
      PROVE  AskedInv'
  <2>1. /\ request'.now = now /\ request'.kind = kind /\ request'.link = link
        /\ request'.allowed = TRUE
    BY <1>4 DEF Started
  <2> QED BY <1>1, <1>4, <2>1 DEF AskedInv
<1>5. ASSUME NEW ask, AskListing(ask) PROVE AskedInv'
  BY <1>4, <1>5 DEF AskListing
<1>6. ASSUME NEW link, AskArtifact(link) PROVE AskedInv'
  BY <1>4, <1>6 DEF AskArtifact
<1>7. ASSUME NEW version \in Versions(registry), AskCheck(version) PROVE AskedInv'
  BY <1>4, <1>7 DEF AskCheck
\* A request that goes on is the one it was.
<1>8. ASSUME request # Idle, reply' = reply, DOMAIN request' = DOMAIN request,
             request'.now = request.now, request'.kind = request.kind,
             request'.link = request.link,
             request'.stage = "fetch" => request.stage = "fetch" /\ request'.allowed = request.allowed
      PROVE  AskedInv'
  BY <1>1, <1>8 DEF AskedInv
<1>9. request # Idle => Fields \subseteq DOMAIN request
  BY DEF ServeInv, RequestInv
<1>10. ASSUME NEW part, Fetch(part) PROVE AskedInv'
  <2>1. request # Idle /\ reply' = reply
    BY <1>10 DEF Fetch, Idle
  <2>2. /\ DOMAIN request' = DOMAIN request /\ request'.now = request.now
        /\ request'.kind = request.kind /\ request'.link = request.link
        /\ request'.stage = request.stage /\ request'.allowed = request.allowed
    BY <1>9, <1>10, <2>1 DEF Fetch, Fields
  <2> QED BY <1>8, <2>1, <2>2
<1>11. CASE AnswerListing \/ Deliver
  BY <1>2, <1>11 DEF AnswerListing, Deliver, Answered
<1>12. CASE Decide
  <2>1. request # Idle
    BY <1>12 DEF Decide, Idle
  <2>2. CASE \E status, content : Answered(status, content)
    BY <1>2, <2>2 DEF Answered
  <2>3. CASE /\ UNCHANGED reply
             /\ \E content : request' = [request EXCEPT !.stage = "deliver", !.content = content]
    <3>1. /\ DOMAIN request' = DOMAIN request /\ request'.now = request.now
          /\ request'.kind = request.kind /\ request'.link = request.link
          /\ request'.stage = "deliver"
      BY <1>9, <2>1, <2>3 DEF Fields
    <3> QED BY <1>8, <2>1, <2>3, <3>1
  <2> QED BY <1>12, <2>2, <2>3 DEF Decide
<1>13. CASE Look
  <2>1. request # Idle
    BY <1>13 DEF Look, Idle
  <2>2. CASE \E status, content : Answered(status, content)
    BY <1>2, <2>2 DEF Answered
  <2>3. CASE /\ UNCHANGED reply
             /\ \E left : request' = [request EXCEPT !.stage = "judge", !.left = left]
    <3>1. /\ DOMAIN request' = DOMAIN request /\ request'.now = request.now
          /\ request'.kind = request.kind /\ request'.link = request.link
          /\ request'.stage = "judge"
      BY <1>9, <2>1, <2>3 DEF Fields
    <3> QED BY <1>8, <2>1, <2>3, <3>1
  <2> QED BY <1>13, <2>2, <2>3 DEF Look
<1>14. CASE Judge
  <2>1. request # Idle /\ request.stage = "judge"
    BY <1>14 DEF Judge, Idle
  <2>2. CASE \E status, content : Answered(status, content)
    BY <1>2, <2>2 DEF Answered
  <2>3. CASE /\ UNCHANGED reply
             /\ \E left, allowed : request' = [request EXCEPT !.left = left, !.allowed = allowed]
    <3>1. /\ DOMAIN request' = DOMAIN request /\ request'.now = request.now
          /\ request'.kind = request.kind /\ request'.link = request.link
          /\ request'.stage = "judge"
      BY <1>9, <2>1, <2>3 DEF Fields
    <3> QED BY <1>8, <2>1, <2>3, <3>1
  <2> QED BY <1>14, <2>2, <2>3 DEF Judge
<1>15. CASE UpstreamChanges \/ StoreChanges \/ Tick \/ UNCHANGED vars
  BY <1>3, <1>15 DEF UpstreamChanges, StoreChanges, World, Tick, vars
<1> QED BY <1>5, <1>6, <1>7, <1>10, <1>11, <1>12, <1>13, <1>14, <1>15 DEF Next

-----------------------------------------------------------------------------
(* Upstream and the store as they were for the listing. *)

\* The listing shows the entries of the artifacts that are allowed at its time, and hides the
\* others.
ListedFrom(l, r, p, w, got) ==
  LET artifacts == ListCandidates(r, got).artifacts
  IN /\ ListsFrom(r, got, w.docs) /\ l.now \in Int
     /\ Range(l.entries) =
          {EntryAt(r, got, i) : i \in {j \in DOMAIN artifacts : Allowed(p, w.store, artifacts[j], l.now)}}
     /\ l.hidden = {EntryAt(r, got, i) : i \in DOMAIN artifacts} \ Range(l.entries)

\* The artifact that a link asks for, found and allowed.
LinkFetched(r, got, w, link) == Fetched(got, LinkParts(r, link, got), w.docs)
LinkAllowed(r, got, p, w, link, at) ==
  LET found == FindLink(r, got, link)
  IN found.status = 200 /\ Allowed(p, w.store, found.artifact, at)

\* The artifacts of a version that is checked.
CheckFetched(r, got, w, version) ==
  /\ version \in Versions(r) /\ Fetched(got, CheckParts(r, version, got), w.docs)
  /\ CheckLookup(r, got, version).ok

\* How far the check of a version has come.
Judged(looked, left, allowed, p, w, at) ==
  \E done \in 0..Len(looked) - 1 :
    /\ left = SubSeq(looked, done + 1, Len(looked))
    /\ allowed <=> \A k \in 1..done : Allowed(p, w.store, looked[k], at)

SteadyRequest(q, r, p, w) ==
  /\ q.stage = "deliver" =>
       /\ q.kind = "artifact" /\ LinkFetched(r, q.got, w, q.link)
       /\ LinkAllowed(r, q.got, p, w, q.link, q.now)
       /\ q.content = FindLink(r, q.got, q.link).artifact.content
  /\ q.stage = "judge" =>
       /\ q.kind = "check" /\ CheckFetched(r, q.got, w, q.link)
       /\ Judged(CheckLookup(r, q.got, q.link).artifacts, q.left, q.allowed, p, w, q.now)

\* What was answered follows from the artifacts that were found.
ArtifactReply(y, r, p, w) ==
  /\ y.now \in Int
  /\ \E got : /\ LinkFetched(r, got, w, y.link)
              /\ y.status = 200 <=> /\ LinkAllowed(r, got, p, w, y.link, y.now)
                                    /\ FindLink(r, got, y.link).artifact.content # NoLink
CheckReply(y, r, p, w) ==
  /\ y.now \in Int
  /\ y.status \in {0, 2} => \E got :
       LET looked == CheckLookup(r, got, y.link).artifacts
       IN /\ CheckFetched(r, got, w, y.link)
          /\ y.status = 0 <=> \A k \in DOMAIN looked : Allowed(p, w.store, looked[k], y.now)
          /\ \E k \in DOMAIN looked : y.content = looked[k].version
SteadyReply(y, r, p, w) ==
  /\ y.kind = "artifact" => ArtifactReply(y, r, p, w)
  /\ y.kind = "check" => CheckReply(y, r, p, w)

Steady == listing # None /\ Len(history) = 1
SteadyInv ==
  Steady =>
    /\ \E got : ListedFrom(listing, registry, policy, history[1], got)
    /\ request # Idle => SteadyRequest(request, registry, policy, history[1])
    /\ reply # None => SteadyReply(reply, registry, policy, history[1])

\* There is no listing at first.
LEMMA SteadyInit == Init => SteadyInv
BY DEF Init, SteadyInv, Steady

\* The state of upstream when there has been no other.
LEMMA OneWorld ==
  ASSUME ServeInv, Len(history) = 1
  PROVE  /\ registry \in Registries /\ history[1].docs \in Documents(registry)
         /\ Present = history[1]
         /\ request # Idle =>
              \A p \in DOMAIN request.got : request.got[p] = StatedBy(history[1].docs, p)
<1>1. /\ registry \in Registries /\ history \in Seq(Worlds(registry))
      /\ history[1] \in Worlds(registry)
  BY DEF ServeInv, HistoryInv
<1>2. history[1].docs \in Documents(registry)
  BY <1>1 DEF Worlds
<1>3. ASSUME request # Idle, NEW p \in DOMAIN request.got
      PROVE  request.got[p] = StatedBy(history[1].docs, p)
  <2>1. request.since \in 1..1 /\ FetchedInv(request, history)
    BY <1>3 DEF ServeInv, RequestInv
  <2> QED BY <1>3, <2>1 DEF FetchedInv
<1> QED BY <1>1, <1>2, <1>3 DEF Present, Last

\* A listing is answered from what upstream states, and decided with the store as it is.
LEMMA AnswerIsSteady ==
  ASSUME ServeInv, AskedInv, AnswerListing, Len(history) = 1,
         ListCandidates(registry, request.got).ok
  PROVE  ListedFrom(listing', registry, policy, history[1], request.got)
<1> DEFINE w == history[1]
           got == request.got
           artifacts == ListCandidates(registry, got).artifacts
           decisions == EvaluateArtifacts(policy, artifacts, request.now,
                                          StoreBatch(policy, w.store, artifacts))
           allowAll == [i \in DOMAIN artifacts |-> Pass]
           shown == ListingOf(registry, got, artifacts, decisions)
           all == ListingOf(registry, got, artifacts, allowAll)
<1>1. request # Idle /\ request.kind = "list" /\ Pending = {}
  BY DEF AnswerListing, Idle
<1>2. ListsFrom(registry, got, w.docs)
  <2>1. ListParts(registry, got) \subseteq DOMAIN got
    BY <1>1 DEF Pending, Needed
  <2> QED BY <1>1, <2>1, OneWorld DEF ListsFrom, Fetched
<1>3. /\ listing'.entries = shown.entries /\ listing'.now = request.now
      /\ listing'.hidden = Range(all.entries) \ Range(shown.entries)
  BY OneWorld DEF AnswerListing
<1>4. Listable(registry, got)
  BY <1>2, AllListable
<1>5. /\ Range(shown.entries) = {EntryAt(registry, got, i) : i \in {j \in DOMAIN artifacts : decisions[j].allowed}}
      /\ Range(all.entries) = {EntryAt(registry, got, i) : i \in {j \in DOMAIN artifacts : allowAll[j].allowed}}
  BY <1>4 DEF Listable, Shows
<1>6. {j \in DOMAIN artifacts : allowAll[j].allowed} = DOMAIN artifacts
  BY DEF Pass, Allow
<1>7. {j \in DOMAIN artifacts : decisions[j].allowed} =
        {j \in DOMAIN artifacts : Allowed(policy, w.store, artifacts[j], request.now)}
  <2>1. PICK n \in Nat : DOMAIN artifacts = 1..n
    BY <1>4 DEF Listable, Sized
  <2>2. \A j \in DOMAIN artifacts :
          decisions[j].allowed = Allowed(policy, w.store, artifacts[j], request.now)
    BY <2>1, BatchDecides
  <2> HIDE DEF decisions, artifacts
  <2> QED BY <2>2
<1>8. request.now \in Int
  BY <1>1 DEF AskedInv
<1> HIDE DEF shown, all, decisions, allowAll
<1>9. /\ Range(shown.entries) = {EntryAt(registry, got, i) : i \in
            {j \in DOMAIN artifacts : Allowed(policy, w.store, artifacts[j], request.now)}}
      /\ Range(all.entries) = {EntryAt(registry, got, i) : i \in DOMAIN artifacts}
  BY <1>5, <1>6, <1>7
<1> QED BY <1>2, <1>3, <1>8, <1>9 DEF ListedFrom

\* A lookup for a download decides with the store that the listing saw.
LEMMA DecideIsSteady ==
  ASSUME ServeInv, AskedInv, Decide, Len(history) = 1
  PROVE  /\ request' # Idle => SteadyRequest(request', registry, policy, history[1])
         /\ reply' = reply \/ SteadyReply(reply', registry, policy, history[1])
<1> DEFINE w == history[1]
           found == FindLink(registry, request.got, request.link)
           a == found.artifact
           allowed == Allowed(policy, w.store, a, request.now)
<1>1. request # Idle /\ request.kind = "artifact" /\ Pending = {}
  BY DEF Decide, Idle
<1>2. LinkFetched(registry, request.got, w, request.link)
  <2>1. LinkParts(registry, request.link, request.got) \subseteq DOMAIN request.got
    BY <1>1 DEF Pending, Needed
  <2> QED BY <1>1, <2>1, OneWorld DEF LinkFetched, Fetched
<1>3. Fields \subseteq DOMAIN request /\ request.now \in Int
  BY <1>1 DEF ServeInv, RequestInv, AskedInv
<1>4. \/ found.status # 200 /\ Answered(found.status, NoLink)
      \/ found.status = 200 /\ ~allowed /\ Answered(403, NoLink)
      \/ /\ found.status = 200 /\ allowed
         /\ request' = [request EXCEPT !.stage = "deliver", !.content = a.content]
         /\ UNCHANGED reply
  <2>1. Present = w
    BY OneWorld
  <2> HIDE DEF found, w
  <2> QED BY <2>1 DEF Decide, Allowed, found
<1>5. LinkAllowed(registry, request.got, policy, w, request.link, request.now) <=>
        found.status = 200 /\ allowed
  BY DEF LinkAllowed
<1> HIDE DEF found, allowed, w
<1>6. ASSUME NEW status, status # 200, Answered(status, NoLink), ~(found.status = 200 /\ allowed)
      PROVE  request' = Idle /\ SteadyReply(reply', registry, policy, w)
  <2>1. /\ request' = Idle /\ reply'.status = status /\ reply'.kind = "artifact"
        /\ reply'.link = request.link /\ reply'.now = request.now
    BY <1>1, <1>6 DEF Answered
  <2>2. ArtifactReply(reply', registry, policy, w)
    BY <1>2, <1>3, <1>5, <1>6, <2>1 DEF ArtifactReply
  <2> QED BY <2>1, <2>2 DEF SteadyReply
<1>7. ASSUME found.status = 200, allowed,
             request' = [request EXCEPT !.stage = "deliver", !.content = a.content]
      PROVE  SteadyRequest(request', registry, policy, w)
  <2>1. /\ request'.stage = "deliver" /\ request'.content = a.content
        /\ request'.kind = request.kind /\ request'.link = request.link
        /\ request'.got = request.got /\ request'.now = request.now
    BY <1>3, <1>7 DEF Fields
  <2> QED BY <1>1, <1>2, <1>5, <1>7, <2>1 DEF SteadyRequest, found
<1> QED BY <1>4, <1>6, <1>7 DEF w

\* What is delivered is what was decided about.
LEMMA DeliverIsSteady ==
  ASSUME ServeInv, AskedInv, SteadyInv, Deliver, Steady
  PROVE  request' = Idle /\ SteadyReply(reply', registry, policy, history[1])
<1> DEFINE w == history[1]
<1>1. request # Idle /\ request.stage = "deliver"
  BY DEF Deliver, Idle
<1>2. /\ request.kind = "artifact" /\ LinkFetched(registry, request.got, w, request.link)
      /\ LinkAllowed(registry, request.got, policy, w, request.link, request.now)
      /\ request.content = FindLink(registry, request.got, request.link).artifact.content
  BY <1>1 DEF SteadyInv, SteadyRequest
<1>3. request.now \in Int
  BY <1>1 DEF AskedInv
<1>4. /\ request' = Idle /\ reply'.kind = "artifact" /\ reply'.link = request.link
      /\ reply'.now = request.now /\ (reply'.status = 200 <=> request.content # NoLink)
  BY <1>2 DEF Deliver, Answered
<1>5. ArtifactReply(reply', registry, policy, w)
  BY <1>2, <1>3, <1>4 DEF ArtifactReply
<1> QED BY <1>4, <1>5 DEF SteadyReply

\* The check command takes up the artifacts of a version.
LEMMA LookIsSteady ==
  ASSUME ServeInv, AskedInv, SteadyInv, Look, Steady
  PROVE  /\ request' # Idle => SteadyRequest(request', registry, policy, history[1])
         /\ reply' = reply \/ SteadyReply(reply', registry, policy, history[1])
<1> DEFINE w == history[1]
           found == CheckLookup(registry, request.got, request.link)
           looked == found.artifacts
<1>1. request # Idle /\ request.kind = "check" /\ request.stage = "fetch" /\ Pending = {}
  BY DEF Look, Idle
<1>2. /\ Fields \subseteq DOMAIN request /\ request.now \in Int
      /\ request.link \in Versions(registry) /\ request.allowed = TRUE
  BY <1>1 DEF ServeInv, RequestInv, AskedInv
<1>3. CASE ~found.ok
  <2>1. Answered(1, {})
    BY <1>3 DEF Look
  <2>2. /\ request' = Idle /\ reply'.status = 1 /\ reply'.kind = "check"
        /\ reply'.now = request.now
    BY <1>1, <2>1 DEF Answered
  <2>3. CheckReply(reply', registry, policy, w)
    BY <1>2, <2>2 DEF CheckReply
  <2> QED BY <2>2, <2>3 DEF SteadyReply
<1>4. CASE found.ok
  <2>1. request' = [request EXCEPT !.stage = "judge", !.left = looked] /\ reply' = reply
    BY <1>4 DEF Look
  <2>2. Fetched(request.got, CheckParts(registry, request.link, request.got), w.docs)
    <3>1. CheckParts(registry, request.link, request.got) \subseteq DOMAIN request.got
      BY <1>1 DEF Pending, Needed
    <3> QED BY <1>1, <3>1, OneWorld DEF Fetched, Steady
  <2>3. CheckFetched(registry, request.got, w, request.link)
    BY <1>2, <1>4, <2>2 DEF CheckFetched
  <2>4. looked \in Seq(Range(looked)) /\ looked # <<>>
    <3>1. PICK got : ListedFrom(listing, registry, policy, w, got)
      BY DEF SteadyInv
    <3>2. Looks(registry, got, w.docs, request.got, request.link)
      BY <2>3, <3>1 DEF ListedFrom, Looks, CheckFetched
    <3>3. Agreeing(registry, got, looked)
      BY <3>2, AllCheck
    <3> HIDE DEF looked
    <3> QED BY <3>3 DEF Agreeing
  <2>5. /\ request'.stage = "judge" /\ request'.left = looked /\ request'.kind = "check"
        /\ request'.got = request.got /\ request'.link = request.link
        /\ request'.now = request.now /\ request'.allowed = TRUE
    BY <1>1, <1>2, <2>1 DEF Fields
  <2>6. Judged(looked, looked, TRUE, policy, w, request.now)
    <3> HIDE DEF looked
    <3>1. Len(looked) \in Nat \ {0}
      BY <2>4, EmptySeq
    <3>2. 0 \in 0..Len(looked) - 1 /\ looked = SubSeq(looked, 0 + 1, Len(looked))
      BY <2>4, <3>1
    <3>3. TRUE <=> \A k \in 1..0 : Allowed(policy, w.store, looked[k], request.now)
      OBVIOUS
    <3> QED BY <3>2, <3>3 DEF Judged
  <2>7. SteadyRequest(request', registry, policy, w)
    <3> HIDE DEF w
    <3> QED BY <2>3, <2>5, <2>6 DEF SteadyRequest
  <2> QED BY <2>1, <2>7
<1> QED BY <1>3, <1>4

\* One artifact after another is judged, and the last of them gives the verdict.
LEMMA JudgeIsSteady ==
  ASSUME ServeInv, AskedInv, SteadyInv, Judge, Steady
  PROVE  /\ request' # Idle => SteadyRequest(request', registry, policy, history[1])
         /\ reply' = reply \/ SteadyReply(reply', registry, policy, history[1])
<1> DEFINE w == history[1]
           looked == CheckLookup(registry, request.got, request.link).artifacts
           allowed(k) == Allowed(policy, w.store, looked[k], request.now)
<1>1. request # Idle /\ request.stage = "judge"
  BY DEF Judge, Idle
<1>2. /\ request.kind = "check" /\ CheckFetched(registry, request.got, w, request.link)
      /\ Judged(looked, request.left, request.allowed, policy, w, request.now)
  BY <1>1 DEF SteadyInv, SteadyRequest
<1>3. Fields \subseteq DOMAIN request /\ request.now \in Int
  BY <1>1 DEF ServeInv, RequestInv, AskedInv
<1>4. looked \in Seq(Range(looked)) /\ looked # <<>>
  <2>1. PICK got : ListedFrom(listing, registry, policy, w, got)
    BY DEF SteadyInv
  <2>2. Looks(registry, got, w.docs, request.got, request.link)
    BY <1>2, <2>1 DEF ListedFrom, Looks, CheckFetched
  <2>3. Agreeing(registry, got, looked)
    BY <2>2, AllCheck
  <2> HIDE DEF looked
  <2> QED BY <2>3 DEF Agreeing
<1>5. PICK done \in 0..Len(looked) - 1 :
        /\ request.left = SubSeq(looked, done + 1, Len(looked))
        /\ request.allowed <=> \A k \in 1..done : allowed(k)
  BY <1>2 DEF Judged
<1> DEFINE verdict == Verdict(request.allowed,
                              Evaluate(policy, Head(request.left), request.now,
                                       StoreCheck(w.store, Head(request.left))))
<1>6. IF Len(request.left) > 1
      THEN /\ request' = [request EXCEPT !.left = Tail(request.left), !.allowed = verdict]
           /\ reply' = reply
      ELSE Answered(IF verdict THEN 0 ELSE 2, Head(request.left).version)
  <2>1. Present = w
    BY OneWorld DEF Steady
  <2> QED BY <2>1 DEF Judge
<1>7. verdict <=> request.allowed /\ Allowed(policy, w.store, Head(request.left), request.now)
  BY DEF Verdict, Allowed
<1> HIDE DEF looked, verdict, w
<1>8. /\ Len(looked) \in Nat /\ done + 1 \in 1..Len(looked) /\ request.left \in Seq(Range(looked))
      /\ Len(request.left) = Len(looked) - done /\ Head(request.left) = looked[done + 1]
      /\ done + 1 < Len(looked) => Tail(request.left) = SubSeq(looked, done + 2, Len(looked))
  <2>1. Len(looked) \in Nat /\ done + 1 \in 1..Len(looked)
    BY <1>4, <1>5
  <2>2. /\ request.left \in Seq(Range(looked)) /\ Len(request.left) = Len(looked) - done
        /\ \A i \in 1..Len(request.left) : request.left[i] = looked[done + i]
    BY <1>4, <1>5, <2>1
  <2>3. Head(request.left) = looked[done + 1]
    <3>1. 1 \in 1..Len(request.left) /\ request.left # <<>>
      BY <2>1, <2>2
    <3>2. Head(request.left) = request.left[1]
      BY <2>2, <3>1, HeadTailProperties
    <3> QED BY <2>2, <3>1, <3>2
  <2>4. ASSUME done + 1 < Len(looked)
        PROVE  Tail(request.left) = SubSeq(looked, done + 2, Len(looked))
    BY <1>4, <1>5, <2>1, <2>2, <2>4
  <2> QED BY <2>1, <2>2, <2>3, <2>4
<1>9. verdict <=> \A k \in 1..done + 1 : allowed(k)
  BY <1>5, <1>7, <1>8
<1>10. CASE Len(request.left) > 1
  <2>1. /\ request'.left = Tail(request.left) /\ request'.allowed = verdict /\ reply' = reply
        /\ request'.stage = "judge" /\ request'.kind = "check" /\ request'.got = request.got
        /\ request'.link = request.link /\ request'.now = request.now
    BY <1>1, <1>2, <1>3, <1>6, <1>10 DEF Fields
  <2>2. Judged(looked, request'.left, verdict, policy, w, request.now)
    <3>1. done + 1 \in 0..Len(looked) - 1 /\ (done + 1) + 1 = done + 2
      BY <1>5, <1>8, <1>10
    <3>2. request'.left = SubSeq(looked, (done + 1) + 1, Len(looked))
      BY <1>8, <2>1, <3>1
    <3> QED BY <1>9, <3>1, <3>2 DEF Judged
  <2>3. SteadyRequest(request', registry, policy, w)
    BY <1>2, <2>1, <2>2 DEF SteadyRequest, looked
  <2> QED BY <2>1, <2>3 DEF w
<1>11. CASE ~(Len(request.left) > 1)
  <2>1. done + 1 = Len(looked)
    <3>1. Len(looked) \in Nat /\ done + 1 <= Len(looked) /\ ~(Len(looked) - done > 1)
      BY <1>8, <1>11
    <3> QED BY <3>1
  <2>2. /\ request' = Idle /\ reply'.kind = "check" /\ reply'.link = request.link
        /\ reply'.now = request.now /\ reply'.status = (IF verdict THEN 0 ELSE 2)
        /\ reply'.content = looked[done + 1].version
    <3>1. Answered(IF verdict THEN 0 ELSE 2, Head(request.left).version)
      BY <1>6, <1>11
    <3>2. Head(request.left).version = looked[done + 1].version
      BY <1>8
    <3> QED BY <1>2, <3>1, <3>2 DEF Answered
  <2>3. DOMAIN looked = 1..Len(looked)
    BY <1>4
  <2>4. /\ reply'.status = 0 <=> \A k \in DOMAIN looked : allowed(k)
        /\ \E k \in DOMAIN looked : reply'.content = looked[k].version
    BY <1>8, <1>9, <2>1, <2>2, <2>3
  <2>5. CheckReply(reply', registry, policy, w)
    BY <1>2, <1>3, <2>2, <2>4 DEF CheckReply, looked
  <2> QED BY <2>2, <2>5 DEF SteadyReply, w
<1> QED BY <1>10, <1>11

\* Every step keeps to what the listing was made of, until upstream or the store changes.
LEMMA SteadyNext == ServeInv /\ AskedInv /\ SteadyInv /\ [Next]_vars => SteadyInv'
<1> SUFFICES ASSUME ServeInv, AskedInv, SteadyInv, [Next]_vars, Steady'
             PROVE  /\ \E got : ListedFrom(listing', registry', policy', history'[1], got)
                    /\ request' # Idle => SteadyRequest(request', registry', policy', history'[1])
                    /\ reply' # None => SteadyReply(reply', registry', policy', history'[1])
  BY DEF SteadyInv
\* The listing is the one that it was, or is answered now.
<1>1. ASSUME UNCHANGED <<registry, policy, history, listing>>,
             request' # Idle /\ Steady => SteadyRequest(request', registry, policy, history[1]),
             reply' # None /\ Steady =>
               reply' = reply \/ SteadyReply(reply', registry, policy, history[1])
      PROVE  /\ \E got : ListedFrom(listing', registry', policy', history'[1], got)
             /\ request' # Idle => SteadyRequest(request', registry', policy', history'[1])
             /\ reply' # None => SteadyReply(reply', registry', policy', history'[1])
  <2>1. Steady
    BY <1>1 DEF Steady
  <2> QED BY <1>1, <2>1 DEF SteadyInv
<1>2. ASSUME NEW ask, AskListing(ask) PROVE FALSE
  BY <1>2 DEF AskListing, Steady
<1>3. ASSUME request'.stage = "fetch", UNCHANGED <<registry, policy, history, listing>>,
             reply' \in {None, reply}
      PROVE  /\ \E got : ListedFrom(listing', registry', policy', history'[1], got)
             /\ request' # Idle => SteadyRequest(request', registry', policy', history'[1])
             /\ reply' # None => SteadyReply(reply', registry', policy', history'[1])
  <2>1. SteadyRequest(request', registry, policy, history[1])
    BY <1>3 DEF SteadyRequest
  <2> QED BY <1>1, <1>3, <2>1
<1>4. CASE \E link : AskArtifact(link) \/ AskCheck(link)
  <2>1. /\ \E kind, link, ask, since : request' = Started(kind, link, ask, since)
        /\ UNCHANGED <<registry, policy, history, listing>> /\ reply' = None
    BY <1>4 DEF AskArtifact, AskCheck
  <2>2. request'.stage = "fetch"
    BY <2>1 DEF Started
  <2> QED BY <1>3, <2>1, <2>2
<1>5. CASE \E part : Fetch(part)
  <2>1. request # Idle /\ request.stage = "fetch"
    BY <1>5 DEF Fetch, Idle
  <2>2. Fields \subseteq DOMAIN request
    BY <2>1 DEF ServeInv, RequestInv
  <2>3. request'.stage = "fetch"
    BY <1>5, <2>1, <2>2 DEF Fetch, Fields
  <2>4. UNCHANGED <<registry, policy, history, listing, reply>>
    BY <1>5 DEF Fetch
  <2> QED BY <1>3, <2>3, <2>4
<1>6. CASE AnswerListing
  <2>1. /\ request # Idle /\ request' = Idle /\ UNCHANGED <<registry, policy, history, reply>>
    BY <1>6 DEF AnswerListing, Idle
  <2>2. reply' = None
    BY <2>1 DEF AskedInv
  <2>3. CASE ListCandidates(registry, request.got).ok
    <3>1. ListedFrom(listing', registry, policy, history[1], request.got)
      BY <1>6, <2>1, <2>3, AnswerIsSteady DEF Steady
    <3> QED BY <2>1, <2>2, <3>1
  <2>4. CASE ~ListCandidates(registry, request.got).ok
    <3>1. UNCHANGED listing
      BY <1>6, <2>4 DEF AnswerListing
    <3> QED BY <1>1, <2>1, <2>2, <3>1
  <2> QED BY <2>3, <2>4
<1>7. CASE Decide
  <2>1. UNCHANGED <<registry, policy, history, listing>>
    BY <1>7 DEF Decide
  <2> QED BY <1>1, <1>7, <2>1, DecideIsSteady DEF Steady
<1>8. CASE Deliver
  <2>1. UNCHANGED <<registry, policy, history, listing>>
    BY <1>8 DEF Deliver
  <2> QED BY <1>1, <1>8, <2>1, DeliverIsSteady
<1>9. CASE Look
  <2>1. UNCHANGED <<registry, policy, history, listing>>
    BY <1>9 DEF Look
  <2> QED BY <1>1, <1>9, <2>1, LookIsSteady
<1>10. CASE Judge
  <2>1. UNCHANGED <<registry, policy, history, listing>>
    BY <1>10 DEF Judge
  <2> QED BY <1>1, <1>10, <2>1, JudgeIsSteady
<1>11. ASSUME NEW d, NEW s, World(d, s) PROVE FALSE
  <2>1. history \in Seq(Worlds(registry)) /\ Len(history) > 0
    BY DEF ServeInv, HistoryInv
  <2>2. PICK w : history' = Append(history, w)
    BY <1>11 DEF World
  <2> DEFINE T == Worlds(registry) \cup {w}
  <2>3. history \in Seq(T) /\ w \in T
    <3>1. Worlds(registry) \subseteq T /\ w \in T
      OBVIOUS
    <3> HIDE DEF T
    <3> QED BY <2>1, <3>1, SeqMonotonic
  <2> HIDE DEF T
  <2>4. Len(history) \in Nat /\ Len(Append(history, w)) = Len(history) + 1
    BY <2>3, AppendProperties
  <2>5. Len(history') = 1
    BY DEF Steady
  <2> QED BY <2>1, <2>2, <2>4, <2>5
<1>12. CASE Tick \/ UNCHANGED vars
  <2>1. UNCHANGED <<registry, policy, history, listing, request, reply>>
    BY <1>12 DEF Tick, vars
  <2>2. request # Idle /\ Steady => SteadyRequest(request, registry, policy, history[1])
    BY DEF SteadyInv
  <2> QED BY <1>1, <2>1, <2>2
<1> QED BY <1>2, <1>4, <1>5, <1>6, <1>7, <1>8, <1>9, <1>10, <1>11, <1>12
        DEF Next, UpstreamChanges, StoreChanges

\* While upstream and the store stay as they were for a listing, the listing is what policy
\* makes of them, and so are the artifacts and versions that are asked for after it.
THEOREM SteadyInvariant == Spec => [](ServeInv /\ AskedInv /\ SteadyInv)
<1>1. Init => AskedInv /\ SteadyInv
  BY AskedInit, SteadyInit
<1>2. ServeInv /\ AskedInv /\ SteadyInv /\ [Next]_vars => AskedInv' /\ SteadyInv'
  BY AskedNext, SteadyNext
<1> QED BY <1>1, <1>2, ServeInvariant, PTL DEF Spec

-----------------------------------------------------------------------------
(* What a listing promises. *)

\* What is asked for with a link of a listing is the artifact that the listing had decided.
LEMMA LinkIsOfListing ==
  ASSUME ServeInv, AskedInv, SteadyInv, Steady, reply # None, reply.kind = "artifact",
         NEW got, ListedFrom(listing, registry, policy, history[1], got),
         NEW i \in DOMAIN ListCandidates(registry, got).artifacts,
         LinkAt(registry, got, i) = reply.link, reply.link # NoLink
  PROVE  LET a == ListCandidates(registry, got).artifacts[i]
             allowed(at) == Allowed(policy, history[1].store, a, at)
         IN /\ reply.now \in Int /\ listing.now \in Int
            /\ reply.status = 200 => allowed(reply.now)
            /\ ~Unservable(registry, history[1].docs, reply.link) /\ allowed(reply.now)
                 => reply.status = 200
            /\ \A at, later \in Int : at <= later /\ allowed(at) => allowed(later)
<1> DEFINE w == history[1]
           a == ListCandidates(registry, got).artifacts[i]
<1>1. ListsFrom(registry, got, w.docs) /\ listing.now \in Int
  BY DEF ListedFrom
<1>2. ArtifactReply(reply, registry, policy, w)
  BY DEF SteadyInv, SteadyReply
<1>3. PICK after :
        /\ LinkFetched(registry, after, w, reply.link)
        /\ reply.status = 200 <=>
             /\ LinkAllowed(registry, after, policy, w, reply.link, reply.now)
             /\ FindLink(registry, after, reply.link).artifact.content # NoLink
  BY <1>2 DEF ArtifactReply
<1>4. LinksTo(registry, got, w.docs, after, i)
  BY <1>1, <1>3 DEF LinksTo, LinkFetched
<1>5. Finds(registry, got, w.docs, after, i)
  BY <1>4, AllFinds
<1> DEFINE found == FindLink(registry, after, reply.link)
<1>6. /\ found.status = 200 => found = Found(a)
      /\ ~Unservable(registry, w.docs, reply.link) => found = Found(a) /\ a.content # NoLink
  BY <1>5 DEF Finds
<1>7. /\ reply.status = 200 => Allowed(policy, w.store, a, reply.now)
      /\ ~Unservable(registry, w.docs, reply.link) /\ Allowed(policy, w.store, a, reply.now)
           => reply.status = 200
  <2> HIDE DEF found, a, w
  <2> QED BY <1>3, <1>6 DEF LinkAllowed, Found, found
<1>8. ASSUME NEW at \in Int, NEW later \in Int, at <= later, Allowed(policy, w.store, a, at)
      PROVE  Allowed(policy, w.store, a, later)
  <2>1. a.published \in Int
    BY <1>1, AllListable DEF Listable
  <2>2. policy.minimumAge \in Int
    BY AgesAreNumbers DEF AskedInv, ServeInv, HistoryInv
  <2> HIDE DEF a, w
  <2> QED BY <1>8, <2>1, <2>2, AllowedGrows
<1> QED BY <1>1, <1>2, <1>7, <1>8 DEF ArtifactReply

\* A link of a filtered listing can be downloaded while upstream and the store stay as they
\* are, for every registry, document, store, policy and clock: the artifact path of each
\* adapter finds the artifact that the listing decided in its batch (evaluate_artifacts).
THEOREM ShownAreDeliverable == Spec => []ShownIsDeliverable
<1>1. ServeInv /\ AskedInv /\ SteadyInv => ShownIsDeliverable
  <2> SUFFICES ASSUME ServeInv, AskedInv, SteadyInv, Steady, reply # None,
                      reply.kind = "artifact", reply.now >= listing.now,
                      reply.link \in ShownLinks,
                      ~Unservable(registry, history[1].docs, reply.link)
               PROVE  reply.status = 200
    BY DEF ShownIsDeliverable, Steady
  <2>1. PICK got : ListedFrom(listing, registry, policy, history[1], got)
    BY DEF SteadyInv
  <2> DEFINE artifacts == ListCandidates(registry, got).artifacts
             allowed(i, at) == Allowed(policy, history[1].store, artifacts[i], at)
  <2>2. PICK i \in DOMAIN artifacts :
          /\ allowed(i, listing.now) /\ reply.link = EntryAt(registry, got, i).link
          /\ reply.link # NoLink
    BY <2>1 DEF ShownLinks, ListedFrom
  <2>3. LinkAt(registry, got, i) = reply.link
    BY <2>2 DEF EntryAt, Entry
  <2>4. /\ reply.now \in Int /\ listing.now \in Int
        /\ allowed(i, reply.now) => reply.status = 200
        /\ \A at, later \in Int : at <= later /\ allowed(i, at) => allowed(i, later)
    BY <2>1, <2>2, <2>3, LinkIsOfListing
  <2> QED BY <2>2, <2>4
<1> QED BY <1>1, SteadyInvariant, PTL

\* A link that filtering took out of a listing cannot be downloaded by naming it while
\* upstream and the store stay as they are, whatever else the client asks for.
THEOREM HiddenAreRefused == Spec => []HiddenIsRefused
<1>1. ServeInv /\ AskedInv /\ SteadyInv => HiddenIsRefused
  <2> SUFFICES ASSUME ServeInv, AskedInv, SteadyInv, Steady, reply # None,
                      reply.kind = "artifact", reply.now <= listing.now,
                      reply.link \in {e.link : e \in listing.hidden} \ {NoLink},
                      reply.status = 200
               PROVE  FALSE
    BY DEF HiddenIsRefused, Steady
  <2>1. PICK got : ListedFrom(listing, registry, policy, history[1], got)
    BY DEF SteadyInv
  <2> DEFINE artifacts == ListCandidates(registry, got).artifacts
             allowed(i, at) == Allowed(policy, history[1].store, artifacts[i], at)
  <2>2. PICK i \in DOMAIN artifacts :
          /\ EntryAt(registry, got, i) \notin Range(listing.entries)
          /\ reply.link = EntryAt(registry, got, i).link /\ reply.link # NoLink
    BY <2>1 DEF ListedFrom
  <2>3. ~allowed(i, listing.now)
    BY <2>1, <2>2 DEF ListedFrom
  <2>4. LinkAt(registry, got, i) = reply.link
    BY <2>2 DEF EntryAt, Entry
  <2>5. /\ reply.now \in Int /\ listing.now \in Int /\ allowed(i, reply.now)
        /\ \A at, later \in Int : at <= later /\ allowed(i, at) => allowed(i, later)
    BY <2>1, <2>2, <2>4, LinkIsOfListing
  <2> QED BY <2>3, <2>5
<1> QED BY <1>1, SteadyInvariant, PTL

\* The check command and the listings of a registry agree about a version while upstream and
\* the store stay as they are, though they look for its artifacts in different ways
\* (registry_check of cli.rs and the lookups of the adapters).
THEOREM ChecksAgree == Spec => []CheckAgreesWithListing
<1>1. ServeInv /\ AskedInv /\ SteadyInv => CheckAgreesWithListing
  <2> SUFFICES ASSUME ServeInv, AskedInv, SteadyInv, Steady, reply # None, reply.kind = "check"
               PROVE  /\ reply.status = 0 /\ reply.now <= listing.now =>
                           reply.content \notin {e.version : e \in listing.hidden}
                      /\ reply.status = 2 /\ reply.now >= listing.now =>
                           reply.content \in {e.version : e \in listing.hidden}
    BY DEF CheckAgreesWithListing, Steady
  <2>1. PICK got : ListedFrom(listing, registry, policy, history[1], got)
    BY DEF SteadyInv
  <2> DEFINE w == history[1]
             artifacts == ListCandidates(registry, got).artifacts
             allowed(a, at) == Allowed(policy, w.store, a, at)
             entry(i) == EntryAt(registry, got, i)
  <2>2. /\ ListsFrom(registry, got, w.docs) /\ listing.now \in Int
        /\ \A e \in listing.hidden : \E i \in DOMAIN artifacts :
             e = entry(i) /\ ~allowed(artifacts[i], listing.now)
        /\ \A i \in DOMAIN artifacts :
             (\A j \in DOMAIN artifacts : entry(j) = entry(i) => ~allowed(artifacts[j], listing.now))
               => entry(i) \in listing.hidden
    BY <2>1 DEF ListedFrom
  <2>3. CheckReply(reply, registry, policy, w)
    BY DEF SteadyInv, SteadyReply
  <2> SUFFICES ASSUME reply.status \in {0, 2}
               PROVE  /\ reply.status = 0 /\ reply.now <= listing.now =>
                           reply.content \notin {e.version : e \in listing.hidden}
                      /\ reply.status = 2 /\ reply.now >= listing.now =>
                           reply.content \in {e.version : e \in listing.hidden}
    OBVIOUS
  <2>4. PICK after :
          LET looked == CheckLookup(registry, after, reply.link).artifacts
          IN /\ CheckFetched(registry, after, w, reply.link)
             /\ reply.status = 0 <=> \A k \in DOMAIN looked : allowed(looked[k], reply.now)
             /\ \E k \in DOMAIN looked : reply.content = looked[k].version
    BY <2>3 DEF CheckReply
  <2> DEFINE looked == CheckLookup(registry, after, reply.link).artifacts
  <2>5. reply.now \in Int
    BY <2>3 DEF CheckReply
  <2>6. /\ reply.status = 0 <=> \A k \in DOMAIN looked : allowed(looked[k], reply.now)
        /\ \E k \in DOMAIN looked : reply.content = looked[k].version
    BY <2>4
  <2>7. Agreeing(registry, got, looked)
    <3>1. Looks(registry, got, w.docs, after, reply.link)
      BY <2>2, <2>4 DEF Looks, CheckFetched
    <3> QED BY <3>1, AllCheck
  <2> HIDE DEF looked
  <2>8. PICK version :
          /\ \A k \in DOMAIN looked : looked[k].version = version
          /\ \A i \in DOMAIN artifacts : artifacts[i].version = version =>
               \E k \in DOMAIN looked : looked[k] = artifacts[i]
    BY <2>7 DEF Agreeing
  <2>9. \A k \in DOMAIN looked : \E i \in DOMAIN artifacts :
          /\ artifacts[i] = looked[k]
          /\ \A j \in DOMAIN artifacts : entry(j) = entry(i) => artifacts[j] = looked[k]
    BY <2>7 DEF Agreeing
  <2>10. reply.content = version
    BY <2>6, <2>8
  <2>11. ASSUME NEW a, a.published \in Int, NEW at \in Int, NEW later \in Int, at <= later,
                allowed(a, at)
         PROVE  allowed(a, later)
    <3>1. policy.minimumAge \in Int
      BY AgesAreNumbers DEF AskedInv, ServeInv, HistoryInv
    <3> QED BY <2>11, <3>1, AllowedGrows
  <2>12. \A i \in DOMAIN artifacts : artifacts[i].published \in Int
    BY <2>2, AllListable DEF Listable
  <2>13. \A i : entry(i).version = artifacts[i].version
    BY DEF EntryAt, Entry
  <2> HIDE DEF artifacts, allowed, entry, w
  <2>14. ASSUME reply.status = 0, reply.now <= listing.now,
                NEW e \in listing.hidden, reply.content = e.version
         PROVE  FALSE
    <3>1. PICK i \in DOMAIN artifacts : e = entry(i) /\ ~allowed(artifacts[i], listing.now)
      BY <2>2
    <3>2. PICK k \in DOMAIN looked : looked[k] = artifacts[i]
      BY <2>8, <2>10, <2>13, <2>14, <3>1
    <3>3. allowed(artifacts[i], reply.now)
      BY <2>6, <2>14, <3>2
    <3> QED BY <2>2, <2>5, <2>11, <2>12, <2>14, <3>1, <3>3
  <2>15. ASSUME reply.status = 2, reply.now >= listing.now
         PROVE  \E e \in listing.hidden : reply.content = e.version
    <3>1. PICK k \in DOMAIN looked : ~allowed(looked[k], reply.now)
      BY <2>6, <2>15
    <3>2. PICK i \in DOMAIN artifacts :
            /\ artifacts[i] = looked[k]
            /\ \A j \in DOMAIN artifacts : entry(j) = entry(i) => artifacts[j] = looked[k]
      BY <2>9
    <3>3. ~allowed(looked[k], listing.now)
      BY <2>2, <2>5, <2>11, <2>12, <2>15, <3>1, <3>2
    <3>4. entry(i) \in listing.hidden
      BY <2>2, <3>2, <3>3
    <3> QED BY <2>8, <2>10, <2>13, <3>2, <3>4
  <2> QED BY <2>14, <2>15
<1> QED BY <1>1, SteadyInvariant, PTL
=============================================================================
