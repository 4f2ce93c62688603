---------------------------- MODULE MavenAdapter ----------------------------
(***************************************************************************)
(* Maven (maven.rs).  A package is known from its maven-metadata.xml,      *)
(* [consistent, versions], whose versions are [n, snapshot], numbered in   *)
(* Maven's order, and from one POM [consistent, published] per version:    *)
(* whether it has the coordinates asked for, and when it was last          *)
(* modified.                                                               *)
(***************************************************************************)
EXTENDS Registry

MavenArtifact(version, pom) == Artifact(version, pom.published, version)

\* filtered_metadata_from_document: in Maven's order, without duplicates.
MavenVersions(metadata) == InOrder(Range(metadata.versions))

\* A version without a POM is left out; every other failure fails the document.
MavenPresent(metadata, poms) ==
  LET versions == MavenVersions(metadata)
  IN AtIndices(versions, {i \in DOMAIN versions : poms[versions[i]].status # 404})
MavenReadable(pom) == pom.status = 200 /\ pom.body.consistent

MavenCandidates(metadata, poms) ==
  LET present == MavenPresent(metadata, poms)
  IN IF \/ ~metadata.consistent \/ metadata.versions = <<>>
        \/ \E v \in Range(metadata.versions) : v.snapshot
        \/ \E v \in Range(present) : ~MavenReadable(poms[v])
     THEN NoListing
     ELSE Candidates([i \in DOMAIN present |-> MavenArtifact(present[i], poms[present[i]].body)])

\* As render_metadata would be if it named upstream's last version.
MavenListingUpstreamLatest(artifacts, decisions) ==
  LET kept == Kept(artifacts, decisions)
  IN [entries  |-> [i \in DOMAIN kept |-> Entry(kept[i].version, kept[i].version)],
      pointers |-> IF artifacts = <<>> THEN {} ELSE {Last(artifacts).version}]

\* Latest and release are the last version that is retained, if any is.
RenderMetadata(kept) ==
  [entries  |-> [i \in DOMAIN kept |-> Entry(kept[i].version, kept[i].version)],
   pointers |-> {kept[i].version : i \in DOMAIN kept \cap {Len(kept)}}]

MavenListing(artifacts, decisions) == RenderMetadata(Kept(artifacts, decisions))

\* As the delivery would be if the answer to the HEAD were not dated.
MavenFindUndated(version, pom) ==
  IF version.snapshot THEN GatewayError
  ELSE IF pom.status # 200 THEN Missing(pom.status)
       ELSE Found(Artifact(version, Unknown, version))

\* artifact_delivery_response: a HEAD of the POM dates every file of the version, and the
\* coordinates inside the POM are not read.
MavenFind(version, pom) ==
  IF version.snapshot THEN GatewayError
  ELSE IF pom.status # 200 THEN Missing(pom.status)
       ELSE Found(MavenArtifact(version, pom.body))

\* lookup_artifact: the POM itself is fetched, and must have the coordinates asked for.
MavenLookup(version, pom) ==
  IF MavenReadable(pom) THEN Candidates(<<MavenArtifact(version, pom.body)>>) ELSE NoListing
=============================================================================
