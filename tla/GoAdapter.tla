----------------------------- MODULE GoAdapter ------------------------------
(***************************************************************************)
(* The Go module proxy (go.rs).  Upstream serves a list of versions, an    *)
(* info [version, published] for each of them and one for @latest.  A      *)
(* version is [n, upper]: its place in the order of versions, and whether  *)
(* it has an uppercase letter, which clients escape with "!".              *)
(***************************************************************************)
EXTENDS Registry

CONSTANTS ListInfoLimit,   \* how many versions a list may have
          Latest           \* the link to @latest, which names no version

GoArtifact(info) == Artifact(info.version, info.published, info.version)

\* filtered_infos: one info that cannot be read fails the list.
GoCandidates(list, infos) ==
  IF Len(list) > ListInfoLimit \/ \E v \in Range(list) : infos[v].status # 200
  THEN NoListing
  ELSE Candidates([i \in DOMAIN list |-> GoArtifact(infos[list[i]].body)])

\* The list shows what the infos say, sorted and without duplicates.
GoListing(artifacts, decisions) ==
  LET versions == {a.version : a \in Range(Kept(artifacts, decisions))}
      sorted == InOrder(versions)
  IN [entries |-> [i \in DOMAIN sorted |-> Entry(sorted[i], sorted[i])], pointers |-> {}]

\* parse_route refuses "!" in a version.
GoRoutable(version) == ~version.upper

\* An info, .mod or .zip: the info that upstream has must be of the version asked for.
GoFind(version, info) ==
  IF ~GoRoutable(version) THEN NotFound
  ELSE IF info.status # 200 THEN Missing(info.status)
       ELSE IF info.body.version # version THEN GatewayError
            ELSE Found([GoArtifact(info.body) EXCEPT !.content = version])

GoFindLatest(info) ==
  IF info.status # 200 THEN Missing(info.status) ELSE Found(GoArtifact(info.body))
=============================================================================
