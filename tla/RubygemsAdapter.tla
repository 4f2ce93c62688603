-------------------------- MODULE RubygemsAdapter ---------------------------
(***************************************************************************)
(* RubyGems (rubygems.rs).  A gem is known from two upstream documents:    *)
(* its compact info, a sequence of lines [number, platform, sha, created], *)
(* and its versions, a sequence of [number, platform, sha, created,        *)
(* yanked].  A gem name is a sequence of pieces between dashes; so is a    *)
(* file name, which goes on with the number and the platform (<<>> for     *)
(* "ruby").  A version is told from those of other gems by its gem.        *)
(***************************************************************************)
EXTENDS Registry

CONSTANT NameLimit   \* how many gems a file name is looked for in

GemId(name, number) == name \o <<number>>
GemFile(name, v) == GemId(name, v.number) \o v.platform
CompactKey(v) == <<v.number, v.platform>>

GemArtifact(name, v) == Artifact(GemId(name, v.number), v.created, GemFile(name, v))

Current(versions) == AtIndices(versions, {i \in DOMAIN versions : ~versions[i].yanked})

Duplicates(items) ==
  \E i, j \in DOMAIN items : i < j /\ CompactKey(items[i]) = CompactKey(items[j])

\* filter_compact_info: the two documents must list the same variants, and agree on the
\* checksum and the time of each.
Agrees(line, v) ==
  CompactKey(line) = CompactKey(v) /\ line.sha = v.sha /\ line.created = v.created
GemsAgree(lines, versions) ==
  LET current == Current(versions)
  IN /\ ~Duplicates(lines) /\ ~Duplicates(current)
     /\ \A line \in Range(lines) : \E v \in Range(current) : Agrees(line, v)
     /\ Len(lines) = Len(current)

GemCandidates(name, lines, versions) ==
  IF GemsAgree(lines, versions)
  THEN Candidates([i \in DOMAIN lines |-> GemArtifact(name, lines[i])])
  ELSE NoListing

GemListing(name, lines, decisions) ==
  LET kept == Kept(lines, decisions)
  IN [entries  |-> [i \in DOMAIN kept |->
                      Entry(GemId(name, kept[i].number), GemFile(name, kept[i]))],
      pointers |-> {}]

\* resolve_artifact: every name that the file name can begin with is looked up, unless they
\* are too many.
TooManyNames(file) == Len(file) > NameLimit + 1
GemNames(file) == {SubSeq(file, 1, i) : i \in 1..Len(file) - 1}

\* Where that file name is among the current versions of the gems that were found.
GemMatches(file, replies) ==
  LET current(name) == Current(replies[name].body)
      places(name) == {i \in DOMAIN current(name) : GemFile(name, current(name)[i]) = file}
  IN UNION {{[name |-> n, at |-> i] : i \in places(n)} :
              n \in {m \in GemNames(file) : replies[m].status = 200}}

\* The file must be in one place.
GemFind(file, replies) ==
  LET matches == GemMatches(file, replies)
      match == CHOOSE m \in matches : TRUE
  IN IF TooManyNames(file) THEN GatewayError
     ELSE IF \E n \in GemNames(file) : replies[n].status \notin {200, 404, 410} THEN GatewayError
     ELSE IF matches = {} THEN NotFound
     ELSE IF matches # {match} THEN GatewayError
          ELSE Found(GemArtifact(match.name, Current(replies[match.name].body)[match.at]))

\* lookup_artifacts: every platform of the version, from the versions document alone.  Two
\* numbers that RubyGems orders as equal are one number here.
GemLookup(name, versions, id) ==
  LET current == Current(versions)
      asked == AtIndices(current, {i \in DOMAIN current : GemId(name, current[i].number) = id})
  IN IF asked = <<>> THEN NoListing
     ELSE Candidates([i \in DOMAIN asked |-> GemArtifact(name, asked[i])])
=============================================================================
