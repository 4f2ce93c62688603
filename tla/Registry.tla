------------------------------ MODULE Registry ------------------------------
(***************************************************************************)
(* What the seven registry adapters have in common: an adapter builds one  *)
(* canonical artifact for every version or file of an upstream document,   *)
(* has policy decide about all of them, and keeps the allowed ones; and it *)
(* finds the one artifact that a download link asks for.                   *)
(*                                                                         *)
(* An artifact names its version and its publication time, which is what   *)
(* policy sees, and the version whose bytes its upstream URL serves, which *)
(* is what a client receives.                                              *)
(***************************************************************************)
EXTENDS PolicyDecision

CONSTANT NoLink  \* in place of a download link or of bytes that there are none

Artifact(version, published, content) ==
  [version |-> version, published |-> published, content |-> content]

\* What upstream answers for one part of a package's metadata.
Reply(body) == [status |-> 200, body |-> body]
Refusal(status) == [status |-> status, body |-> <<>>]
Absent == Refusal(404)

\* The artifacts of a listing, or that there is none: an error status without a body.
Candidates(artifacts) == [ok |-> TRUE, artifacts |-> artifacts]
NoListing == [ok |-> FALSE, artifacts |-> <<>>]

\* The artifact a link asks for, or why there is none.
Found(artifact) == [status |-> 200, artifact |-> artifact]
NotFound == [status |-> 404, artifact |-> NoEntry]
GatewayError == [status |-> 502, artifact |-> NoEntry]
InternalError == [status |-> 500, artifact |-> NoEntry]

\* What a lookup of one artifact gives the check command.
Single(found) == IF found.status = 200 THEN Candidates(<<found.artifact>>) ELSE NoListing

\* What an upstream status means for a client.
Missing(status) == IF status \in {404, 410} THEN NotFound ELSE GatewayError

Entry(version, link) == [version |-> version, link |-> link]

\* The members of a sequence whose decision is to allow, in order.
Kept(items, decisions) == AtIndices(items, {i \in DOMAIN items : decisions[i].allowed})

\* The first member at one of some indices, as a sequence of at most one.
FirstAt(items, indices) == IF indices = {} THEN <<>> ELSE <<items[Min(indices)]>>

\* Versions in the order of their numbers.
InOrder(versions) ==
  LET numbers == {v.n : v \in versions}
  IN AtIndices([n \in numbers |-> CHOOSE v \in versions : v.n = n], numbers)
=============================================================================
