-------------------------- MODULE MCBuildingBlocks --------------------------
(***************************************************************************)
(* Small instances of the parts that the other modules build on, one of    *)
(* them per behaviour: policy decisions over advisories, range events, the *)
(* version orders, the recency list, the sync-run lock, where the proxy    *)
(* connects to, bodies under a limit, the packages that request paths      *)
(* name, and the background sync loop.  The variables of the other parts   *)
(* keep their first values.                                                *)
(***************************************************************************)
EXTENDS VersionRuns, PolicyRuns, RangeRuns, LruList, SyncRunLock, EgressPolicy, BoundedBody,
        Routes, BackgroundSync

CONSTANTS Parts, T1, T2, T3, P1, P2

VARIABLE part

requestVars == <<config, call, body>>
vars ==
  <<part, policyVars, events, orderVars, lruVars, lockVars, requestVars, routeVars, loopVars>>

-----------------------------------------------------------------------------
(* Policy decisions.  Version 1 may become old enough before 2, and 3 has no
   publication time. *)

AllowEntry(v, osv, age) == [version |-> v, bypassOsv |-> osv, bypassAge |-> age]
MCPolicies ==
  {[blockMalicious |-> malicious, blockVulnerabilities |-> vulnerable, threshold |-> threshold,
    onErrorBlock |-> strict, minimumAge |-> age, missingBlock |-> strict,
    allowlist |-> allowlist, blocklist |-> blocklist] :
     malicious \in BOOLEAN, vulnerable \in BOOLEAN, threshold \in {0, 7}, strict \in BOOLEAN,
     age \in {0, 2}, blocklist \in {{}, {2}, {AnyVersion}},
     allowlist \in {<<>>, <<AllowEntry(1, TRUE, FALSE)>>,
                    <<AllowEntry(2, FALSE, TRUE), AllowEntry(2, TRUE, TRUE)>>}}

MCArtifacts == <<[version |-> 1, published |-> 0], [version |-> 2, published |-> 2],
                 [version |-> 3, published |-> -1]>>

Supported(es) == [supported |-> TRUE, events |-> es]
Affected(versions, ranges, severity) ==
  [here |-> TRUE, versions |-> versions, ranges |-> ranges, severity |-> severity]
OsvDocument(id, mal, affected) ==
  [id |-> id, mal |-> mal, withdrawn |-> FALSE, affected |-> affected]

FromTwo == Supported(<<RangeEvent("introduced", 2)>>)
BelowThree == Supported(<<RangeEvent("introduced", 0), RangeEvent("fixed", 3)>>)
Garbled == Supported(<<RangeEvent("introduced", 2), RangeEvent("fixed", -1)>>)

MCAdvisories ==
  {OsvDocument(1, TRUE, <<Affected({1}, <<>>, -1)>>),
   OsvDocument(2, FALSE, <<Affected({}, <<BelowThree>>, 9)>>),
   OsvDocument(3, FALSE, <<Affected({3}, <<>>, -1), Affected({2}, <<Garbled>>, 8)>>),
   OsvDocument(4, FALSE, <<Affected({1}, <<>>, -2), Affected({}, <<BelowThree>>, 9)>>),
   [OsvDocument(5, FALSE, <<Affected({1}, <<FromTwo>>, 4)>>) EXCEPT !.affected[1].here = FALSE]}

-----------------------------------------------------------------------------
(* Version orders. *)

MCNugetVersions ==
  [core : {<<1>>, <<1, 0, 0, 0>>, <<1, 0, 0, 1>>, <<1, 1>>},
   pre : {<<>>, <<Num(1)>>, <<Num(2)>>, <<Word(1)>>, <<Word(1), Num(1)>>}]

GemSegments == {Num(0), Num(1), Word(1)}
MCGemVersions == {<<Num(1)>> \o s : s \in UNION {[1..n -> GemSegments] : n \in 0..3}}

Dashed == {Token("-", v) : v \in {Num(0), Word(1), OtherWord(1)}}
Dotted == {Token(".", v) : v \in {Num(0), Num(1), Word(1), OtherWord(1)}}
MCMavenVersions ==
  {<<Token("", Num(1))>> \o s : s \in UNION {[1..n -> Dashed \cup Dotted] : n \in 0..2}}

-----------------------------------------------------------------------------
MCProcessOf == (T1 :> P1) @@ (T2 :> P1) @@ (T3 :> P2)
MCNormalized == [plain |-> "a", link |-> "a", other |-> "b"]

-----------------------------------------------------------------------------
(* The URLs of two ecosystems, of which Cargo has two: a registry that both may share, an
   internal one, and hosts that nobody configured. *)

Url(scheme, host, port) ==
  [scheme |-> scheme, host |-> host, port |-> port, path |-> TRUE, user |-> FALSE,
   query |-> FALSE, fragment |-> FALSE]
MCLiteral == ("private.ip" :> "private") @@ ("public.ip" :> "public")
             @@ ("unspecified.ip" :> "unspecified")
MCUrls ==
  {[Url(scheme, host, port) EXCEPT !.user = user, !.fragment = fragment] :
     scheme \in {"http", "https", "ftp"}, port \in {443, 8080}, user \in BOOLEAN,
     fragment \in BOOLEAN, host \in {"registry", "cdn", "localhost"} \cup DOMAIN MCLiteral}

Bases ==
  {Url("https", "registry", 443), Url("http", "registry", 8080), Url("http", "private.ip", 8080),
   Url("https", "localhost", 443), Url("https", "unspecified.ip", 443),
   Url("https", "registry", 0), [Url("https", "registry", 443) EXCEPT !.user = TRUE]}
MCServers ==
  {[upstreams |-> [cargo |-> {index, download}, nuget |-> {nuget}], trustedOrigins |-> trusted,
    behavior |-> behavior, limits |-> [egress |-> limit],
    cache |-> [entry |-> 1, entryMax |-> 1, capacity |-> 1, capacityMax |-> 2]] :
     index \in Bases, download \in Bases, nuget \in Bases,
     behavior \in {"proxy", "redirect", "proxy_cache_s3"}, limit \in {0, 1},
     trusted \in {{}, {[Url("http", "cdn", 8080) EXCEPT !.path = FALSE]},
                 {Url("https", "cdn", 443)}}}

-----------------------------------------------------------------------------
(* Paths with up to four tokens after a beginning that leads somewhere. *)

PathStarts ==
  [npm |-> {<<>>, <<"@", "a", "/">>},
   pypi |-> {<<"simple", "/">>, <<"packages", "/", "a", "/">>},
   rubygems |-> {<<"info", "/">>, <<"gems", "/">>},
   nuget |-> {<<"registration", "/">>, <<"flatcontainer", "/">>,
              <<"flatcontainer", "/", "A", "/", "0", "1", "/", "a", ".">>,
              <<"flatcontainer", "/", "a", "/", "1", ".", "0", ".", "0", ".", "0", "/", "a", ".",
                "1", ".", "0", ".">>},
   go |-> {<<>>, <<"a", "/", "!", "b", "/", "@", "v", "/">>},
   cargo |-> {<<>>, <<"3", "/", "a", "/">>, <<"a", "b", "/">>, <<"crates", "/">>},
   maven |-> {<<"a", "/", "b", "/">>, <<"a", "/", "b", "/", "1", "/", "b", "-", "1">>}]
PathTokens ==
  [npm |-> {"a", "-", "/", "@", "%2F", "%40"},
   pypi |-> {"a", "A", "-", "_", "/", "%41", "%2F"},
   rubygems |-> {"a", "A", "-", "/", "%2F", ".", "gem"},
   nuget |-> {"a", "A", "0", ".", "/", "index", "json", "nupkg", "nuspec"},
   go |-> {"a", "!", "/", "@", "v", "latest", ".", "mod"},
   cargo |-> {"a", "A", "b", "1", "2", "/", "download"},
   maven |-> {"a", "-", ".", "/", "maven-metadata.xml", "sha1", "jar"}]

-----------------------------------------------------------------------------
Init ==
  /\ part \in Parts
  /\ IF part = "policy" THEN PolicyInit
     ELSE policy = (CHOOSE p \in Policies : TRUE) /\ docs = {} /\ time = 1
  /\ RangeInit
  /\ IF part = "order" THEN OrderInit ELSE family = "nuget" /\ sample = <<>>
  /\ LruInit
  /\ LockInit /\ (part # "lock" => \A t \in Tasks : file[t] = "a")
  /\ IF part = "egress" THEN EgressInit
     ELSE config = (CHOOSE c \in Configurations : Valid(c)) /\ call = Idle
  /\ BodyInit
  /\ IF part = "routes" THEN RouteInit
     ELSE path = [registry |-> "npm", text |-> <<>>] /\ grown = 0
  /\ LoopInit /\ (part # "loop" => down = {} /\ ~runnable)

Next ==
  /\ UNCHANGED part
  /\ \/ /\ part = "policy" /\ PolicyNext
        /\ UNCHANGED <<events, orderVars, lruVars, lockVars, requestVars, routeVars, loopVars>>
     \/ /\ part = "range" /\ RangeNext
        /\ UNCHANGED <<policyVars, orderVars, lruVars, lockVars, requestVars, routeVars, loopVars>>
     \/ /\ part = "order" /\ OrderNext
        /\ UNCHANGED <<policyVars, events, lruVars, lockVars, requestVars, routeVars, loopVars>>
     \/ /\ part = "lru" /\ LruNext
        /\ UNCHANGED <<policyVars, events, orderVars, lockVars, requestVars, routeVars, loopVars>>
     \/ /\ part = "lock" /\ LockNext
        /\ UNCHANGED <<policyVars, events, orderVars, lruVars, requestVars, routeVars, loopVars>>
     \/ /\ part = "egress" /\ EgressNext
        /\ UNCHANGED <<policyVars, events, orderVars, lruVars, lockVars, body, routeVars, loopVars>>
     \/ /\ part = "body" /\ BodyNext
        /\ UNCHANGED <<policyVars, events, orderVars, lruVars, lockVars, config, call, routeVars, loopVars>>
     \/ /\ part = "routes" /\ RouteNext
        /\ UNCHANGED <<policyVars, events, orderVars, lruVars, lockVars, requestVars, loopVars>>
     \/ /\ part = "loop" /\ LoopNext
        /\ UNCHANGED <<policyVars, events, orderVars, lruVars, lockVars, requestVars, routeVars>>

Spec == Init /\ [][Next]_vars /\ WF_loopVars(part = "loop" /\ Loop)
=============================================================================
