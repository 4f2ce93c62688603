---------------------------- MODULE CargoAdapter ----------------------------
(***************************************************************************)
(* The Cargo sparse index (cargo.rs).  An index file is a sequence of      *)
(* lines [parses, consistent, version, published]: whether it is a record, *)
(* and whether its crate name is the requested one and its pubtime a time. *)
(***************************************************************************)
EXTENDS Registry

CargoArtifact(line) == Artifact(line.version, line.published, line.version)

\* index_response: any bad line fails the crate.
CargoCandidates(lines) ==
  IF \E l \in Range(lines) : ~l.parses \/ ~l.consistent THEN NoListing
  ELSE Candidates([i \in DOMAIN lines |-> CargoArtifact(lines[i])])

\* Retained lines are unchanged; cargo makes the download link from config.json.
CargoListing(lines, decisions) ==
  LET kept == Kept(lines, decisions)
  IN [entries  |-> [i \in DOMAIN kept |-> Entry(kept[i].version, kept[i].version)],
      pointers |-> {}]

\* The first line that the index has for a version.
CargoLineOf(lines, version) ==
  FirstAt(lines, {i \in DOMAIN lines : lines[i].version = version})

\* lookup_artifact: every line must parse, only the one asked for must be consistent.
CargoFind(lines, version) ==
  LET line == CargoLineOf(lines, version)
  IN IF \E l \in Range(lines) : ~l.parses THEN GatewayError
     ELSE IF line = <<>> THEN NotFound
     ELSE IF ~line[1].consistent THEN GatewayError ELSE Found(CargoArtifact(line[1]))
=============================================================================
