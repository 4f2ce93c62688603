---------------------------- MODULE NugetAdapter ----------------------------
(***************************************************************************)
(* The NuGet V3 registration (nuget.rs).  A registration is a sequence of  *)
(* pages [inline, leaves]; the leaves of a page that is not inline are     *)
(* fetched by themselves.  A leaf is [catalog, valid, version, published,  *)
(* content]: whether it has a catalogEntry ("object", "string" or "none"), *)
(* whether its version can be normalised, and the version that it is then. *)
(***************************************************************************)
EXTENDS Registry

CONSTANT PageLimit   \* how many pages a registration may have

NugetArtifact(leaf) == Artifact(leaf.version, leaf.published, leaf.content)

TooManyPages(index) == Len(index) > PageLimit

\* hydrate_registration_pages: a registration of too many pages fails before any of them is
\* fetched, and one page that cannot be read fails it too.
NugetHydrates(index, pages) ==
  /\ ~TooManyPages(index)
  /\ \A i \in DOMAIN index : index[i].inline \/ pages[i].status = 200
NugetPages(index, pages) ==
  [i \in DOMAIN index |-> IF index[i].inline THEN index[i].leaves ELSE pages[i].body]

NugetLeaves(index, pages) == FlattenSeq(NugetPages(index, pages))

\* filter_registration: so does one leaf that cannot be read.
NugetCandidates(index, pages) ==
  LET leaves == NugetLeaves(index, pages)
  IN IF \/ ~NugetHydrates(index, pages)
        \/ \E leaf \in Range(leaves) : leaf.catalog = "string" \/ ~leaf.valid
     THEN NoListing
     ELSE Candidates([i \in DOMAIN leaves |-> NugetArtifact(leaves[i])])

\* flat_container_index_response: a leaf without a catalogEntry is not in it.  A client asks
\* for it by a request of its own, which fetches and decides what the one for the registration
\* does; here the two are one request.
NugetFlatIndex(kept) ==
  {leaf.version : leaf \in {l \in Range(kept) : l.catalog = "object"}}

\* rewrite_registration_urls leaves the links of a leaf without a catalogEntry alone;
\* empty pages disappear.
NugetListing(index, pages, decisions) ==
  LET kept == Kept(NugetLeaves(index, pages), decisions)
  IN [entries  |-> [i \in DOMAIN kept |->
                      Entry(kept[i].version,
                            IF kept[i].catalog = "object" THEN kept[i].version ELSE NoLink)],
      pointers |-> NugetFlatIndex(kept)]

\* find_leaf: the first leaf whose catalogEntry is the version.
NugetLeafOf(leaves, version) ==
  FirstAt(leaves, {i \in DOMAIN leaves : /\ leaves[i].catalog = "object" /\ leaves[i].valid
                                         /\ leaves[i].version = version})

\* lookup_artifact.
NugetFind(index, pages, version) ==
  LET leaf == NugetLeafOf(NugetLeaves(index, pages), version)
  IN IF ~NugetHydrates(index, pages) THEN GatewayError
     ELSE IF leaf = <<>> THEN NotFound ELSE Found(NugetArtifact(leaf[1]))
=============================================================================
