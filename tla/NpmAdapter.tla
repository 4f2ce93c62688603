----------------------------- MODULE NpmAdapter -----------------------------
(***************************************************************************)
(* The npm registry (npm.rs).  Package metadata is                         *)
(*   [name, valid, versions, tags]                                         *)
(* where `versions` holds [version, published, dist, tarball] in document  *)
(* order and `tags` the versions that dist-tags name.  A version or a file *)
(* name without ".tgz" is the sequence of its pieces between dashes; so is *)
(* `name`, the last part of the package name.                              *)
(***************************************************************************)
EXTENDS Registry

NoTarball == <<>>

NpmArtifact(entry) == Artifact(entry.version, entry.published, entry.version)

\* filter_metadata: metadata.versions must be an object.
NpmCandidates(doc) ==
  IF doc.valid
  THEN Candidates([i \in DOMAIN doc.versions |-> NpmArtifact(doc.versions[i])])
  ELSE NoListing

\* The file name in a rewritten tarball URL; a version without `dist` is left alone.
NpmLink(doc, entry) ==
  IF ~entry.dist THEN NoLink
  ELSE IF entry.tarball = NoTarball THEN doc.name \o entry.version ELSE entry.tarball

NpmListing(doc, decisions) ==
  LET kept == Kept(doc.versions, decisions)
      versions == {e.version : e \in Range(kept)}
  IN [entries  |-> [i \in DOMAIN kept |-> Entry(kept[i].version, NpmLink(doc, kept[i]))],
      pointers |-> doc.tags \cap versions]

\* infer_version_from_tarball: what follows the package name, else the last piece.
NpmInferVersion(doc, file) ==
  IF IsStrictPrefix(doc.name, file) THEN SubSeq(file, Len(doc.name) + 1, Len(file))
  ELSE IF Len(file) > 1 THEN <<Last(file)>> ELSE <<>>

\* The entry that the document has for a version.
NpmEntryOf(doc, version) ==
  FirstAt(doc.versions, {i \in DOMAIN doc.versions : doc.versions[i].version = version})

\* artifact_from_metadata: the version must exist and its file name must be the one asked
\* for.
NpmFind(doc, file) ==
  LET version == NpmInferVersion(doc, file)
      entry == NpmEntryOf(doc, version)
  IN IF version = <<>> THEN NotFound
     ELSE IF ~doc.valid THEN InternalError
     ELSE IF entry = <<>> \/ ~entry[1].dist \/ entry[1].tarball # file THEN NotFound
          ELSE Found(NpmArtifact(entry[1]))

\* artifact_from_package_metadata: the version must have a tarball, of whatever name.
NpmLookup(doc, version) ==
  LET entry == NpmEntryOf(doc, version)
  IN IF ~doc.valid \/ entry = <<>> THEN NoListing
     ELSE IF ~entry[1].dist \/ entry[1].tarball = NoTarball THEN NoListing
          ELSE Candidates(<<NpmArtifact(entry[1])>>)
=============================================================================
