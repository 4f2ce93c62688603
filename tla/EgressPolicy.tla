---------------------------- MODULE EgressPolicy ----------------------------
(***************************************************************************)
(* Where the proxy connects to.  The URLs of artifacts and of NuGet's      *)
(* metadata are upstream's, so they are held against the configuration     *)
(* before anything is sent, and what DNS answers is held against it again  *)
(* (artifacts.rs, with what Config::validate of config.rs accepts).        *)
(*                                                                         *)
(* A URL is [scheme, host, port, path, user, query, fragment]; the last    *)
(* four say whether there is one.  An address stands for the class that    *)
(* is_forbidden_ip puts it in.                                             *)
(***************************************************************************)
EXTENDS Integers, FiniteSets

CONSTANTS
  ProxiedEcosystems,
  Literal,        \* hosts that are spelled as an address, and that address
  Configurations, \* [upstreams, trustedOrigins, behavior, limits, cache], valid or not
  Urls            \* what upstream metadata may name

\* What Url::parse returns of a URL with a host.
ParsedUrls ==
  [scheme : STRING, host : STRING, port : Nat, path : BOOLEAN, user : BOOLEAN,
   query : BOOLEAN, fragment : BOOLEAN]

ASSUME EgressConstants ==
  /\ Urls \subseteq ParsedUrls
  /\ \A c \in Configurations : \A e \in ProxiedEcosystems : c.upstreams[e] \subseteq ParsedUrls

VARIABLES config, call
egressVars == <<config, call>>

Addresses == {"public", "private", "unspecified"}
IsForbidden(address) == address # "public"

-----------------------------------------------------------------------------
(* Config::validate. *)

ValidDestination(url) ==
  /\ url.host \in DOMAIN Literal => Literal[url.host] # "unspecified"
  /\ url.port # 0
HttpScheme(url) == url.scheme \in {"http", "https"}
BareUrl(url) == ~url.user /\ ~url.query /\ ~url.fragment

ValidHttpUrl(url) == HttpScheme(url) /\ ValidDestination(url) /\ BareUrl(url)
ValidTrustedOrigin(url) == ValidHttpUrl(url) /\ ~url.path

ValidLimits(limits) == \A field \in DOMAIN limits : limits[field] > 0
ValidCache(cache) ==
  /\ cache.entry \in 1..cache.entryMax /\ cache.capacity \in 1..cache.capacityMax
  /\ cache.entry <= cache.capacity

Valid(c) ==
  /\ ValidLimits(c.limits) /\ ValidCache(c.cache)
  /\ \A e \in ProxiedEcosystems : \A url \in c.upstreams[e] : ValidHttpUrl(url)
  /\ c.behavior # "proxy_cache_s3"
  /\ \A url \in c.trustedOrigins : ValidTrustedOrigin(url)

-----------------------------------------------------------------------------
(* ArtifactEgressPolicy. *)

Origin(url) == <<url.scheme, url.host, url.port>>

ConfiguredUrls == UNION {config.upstreams[e] : e \in ProxiedEcosystems} \cup config.trustedOrigins
TrustedHosts == {url.host : url \in ConfiguredUrls}
HostIsTrusted(host) == host \in TrustedHosts

TrustedOrigins(ecosystem) ==
  {Origin(url) : url \in config.upstreams[ecosystem] \cup config.trustedOrigins}

\* As a URL would be held against the policy if its host alone had to be trusted.
ValidateUrlByHost(ecosystem, url) ==
  /\ ~url.user /\ ~url.fragment /\ HttpScheme(url)
  /\ \/ HostIsTrusted(url.host)
     \/ /\ url.scheme = "https" /\ url.host # "localhost"
        /\ url.host \in DOMAIN Literal => ~IsForbidden(Literal[url.host])

\* A host of the configuration is for its exact origins; other hosts are for https.
ValidateUrl(ecosystem, url) ==
  /\ ~url.user /\ ~url.fragment /\ HttpScheme(url)
  /\ \/ Origin(url) \in TrustedOrigins(ecosystem)
     \/ /\ url.scheme = "https" /\ ~HostIsTrusted(url.host) /\ url.host # "localhost"
        /\ url.host \in DOMAIN Literal => ~IsForbidden(Literal[url.host])

\* SafeResolver: one forbidden address spoils the answer, unless the host is trusted.
ResolverAccepts(host, answer) ==
  /\ answer # {}
  /\ HostIsTrusted(host) \/ \A a \in answer : ~IsForbidden(a)

-----------------------------------------------------------------------------
(* deliver, deliver_head and fetch. *)

Idle == [stage |-> "idle"]
At(stage) == call' = [call EXCEPT !.stage = stage]

EgressInit ==
  /\ config \in {c \in Configurations : Valid(c)}
  /\ call = Idle

\* "deliver" is for artifacts, "fetch" for metadata, which is never redirected to.
Request(mode, ecosystem, url) ==
  /\ call = Idle
  /\ call' = [mode |-> mode, ecosystem |-> ecosystem, url |-> url, address |-> "public",
              stage |-> IF ~ValidateUrl(ecosystem, url) THEN "refused"
                        ELSE IF mode = "deliver" /\ config.behavior = "redirect" THEN "redirected"
                        ELSE "resolve"]
  /\ UNCHANGED config

\* The client resolves names only; one of the addresses is connected to.
Connect(answer, address) ==
  /\ call.stage = "resolve" /\ address \in answer
  /\ IF call.url.host \in DOMAIN Literal THEN answer = {Literal[call.url.host]}
     ELSE ResolverAccepts(call.url.host, answer)
  /\ call' = [call EXCEPT !.stage = "connected", !.address = address]
  /\ UNCHANGED config

ConnectFails == call.stage = "resolve" /\ At("failed") /\ UNCHANGED config

\* A redirect is not followed, and is an error like a refusal by upstream; 304 is not.
Respond(status) ==
  /\ call.stage = "connected"
  /\ At(IF status \in {200, 304} THEN "answered" ELSE "failed")
  /\ UNCHANGED config

Close ==
  /\ call.stage \in {"refused", "redirected", "answered", "failed"}
  /\ call' = Idle /\ UNCHANGED config

EgressNext ==
  \/ \E mode \in {"deliver", "fetch"}, e \in ProxiedEcosystems, url \in Urls : Request(mode, e, url)
  \/ \E answer \in SUBSET Addresses : \E address \in answer : Connect(answer, address)
  \/ ConnectFails
  \/ \E status \in {200, 304, 302, 404} : Respond(status)
  \/ Close

EgressSpec == EgressInit /\ [][EgressNext]_egressVars

-----------------------------------------------------------------------------
\* Whatever upstream's metadata and DNS say, the proxy connects to an address that is not
\* public, and anyone is sent over plain HTTP, only by the exact origin that is configured for
\* that ecosystem or trusted for all; and no URL under a configured base is refused, however
\* the configuration of the other ecosystems overlaps with it (ArtifactEgressPolicy and
\* SafeResolver of artifacts.rs 319-465, with Config::validate).
EgressFollowsConfiguration ==
  call # Idle =>
    LET trusted == Origin(call.url) \in TrustedOrigins(call.ecosystem)
    IN /\ call.stage = "connected" /\ IsForbidden(call.address) => trusted
       /\ call.stage \in {"connected", "redirected"} /\ call.url.scheme = "http" => trusted
       /\ call.stage = "refused" =>
            ~\E base \in config.upstreams[call.ecosystem] : call.url = [base EXCEPT !.path = TRUE]
=============================================================================
