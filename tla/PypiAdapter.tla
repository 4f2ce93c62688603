---------------------------- MODULE PypiAdapter -----------------------------
(***************************************************************************)
(* The PyPI Simple API (pypi.rs).  A project is [name, files]; a file is   *)
(* [ext, parts, published, version].  `parts` are the pieces of its name   *)
(* between dashes, each the sequence of its words, because "-", "_" and    *)
(* "." are the same separator in a project name; `name` is a sequence of   *)
(* words.  `version` is the version that the project released in the file. *)
(***************************************************************************)
EXTENDS Registry

NoVersion == <<>>
Sdist == {"tar.gz", "tar.bz2", "zip", "tgz"}

\* infer_version_from_filename for a source distribution: what follows the first run of
\* pieces that is the project name, else the last piece.
SdistVersion(name, parts) ==
  LET prefixes == {i \in 1..Len(parts) - 1 : FlattenSeq(SubSeq(parts, 1, i)) = name}
  IN IF prefixes # {} THEN SubSeq(parts, Min(prefixes) + 1, Len(parts))
     ELSE IF Len(parts) > 1 THEN <<Last(parts)>> ELSE NoVersion

\* As the inference would be if it took the last piece of every name.
PypiInferLastPiece(name, file) ==
  IF Len(file.parts) > 1 THEN <<Last(file.parts)>> ELSE NoVersion

PypiInferVersion(name, file) ==
  IF file.ext = "whl"
  THEN IF file.parts[1] = name /\ Len(file.parts) > 1 THEN <<file.parts[2]>> ELSE NoVersion
  ELSE IF file.ext \in Sdist THEN SdistVersion(name, file.parts) ELSE NoVersion

PypiArtifact(doc, file) ==
  Artifact(PypiInferVersion(doc.name, file), file.published, file.version)

\* filter_simple_project: one file without a version fails the project.
PypiCandidates(doc) ==
  IF \E f \in Range(doc.files) : PypiInferVersion(doc.name, f) = NoVersion
  THEN NoListing
  ELSE Candidates([i \in DOMAIN doc.files |-> PypiArtifact(doc, doc.files[i])])

\* A download link names the version and the file.
PypiFile(file) == [ext |-> file.ext, parts |-> file.parts]
PypiEntry(doc, file) ==
  LET version == PypiInferVersion(doc.name, file)
  IN Entry(version, [version |-> version, file |-> PypiFile(file)])

PypiListing(doc, decisions) ==
  LET kept == Kept(doc.files, decisions)
  IN [entries  |-> [i \in DOMAIN kept |-> PypiEntry(doc, kept[i])],
      pointers |-> {PypiInferVersion(doc.name, f) : f \in Range(kept)}]

\* The first file that a project has under a name.
PypiFileOf(doc, name) ==
  FirstAt(doc.files, {i \in DOMAIN doc.files : PypiFile(doc.files[i]) = name})

\* artifact_delivery_response: only the requested file has to have a version, and that
\* must be the one in the route.
PypiFind(doc, link) ==
  LET file == PypiFileOf(doc, link.file)
  IN IF file = <<>> \/ link.version = NoVersion THEN NotFound
     ELSE IF PypiInferVersion(doc.name, file[1]) # link.version THEN NotFound
          ELSE Found(PypiArtifact(doc, file[1]))

\* artifacts_for_version: every file must have a version, and those of this one are taken.
PypiLookup(doc, version) ==
  LET files == AtIndices(doc.files, {i \in DOMAIN doc.files :
                                       PypiInferVersion(doc.name, doc.files[i]) = version})
  IN IF ~PypiCandidates(doc).ok \/ files = <<>> THEN NoListing
     ELSE Candidates([i \in DOMAIN files |-> PypiArtifact(doc, files[i])])
=============================================================================
