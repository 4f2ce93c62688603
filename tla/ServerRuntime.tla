--------------------------- MODULE ServerRuntime ---------------------------
(***************************************************************************)
(* Admission, streaming and shutdown of the server (runtime.rs, and        *)
(* registry_handler and serve_listener_with_shutdown in server.rs): a      *)
(* request takes an ingress permit or is refused, its route waits for      *)
(* egress permits for a bounded time, and the response body keeps the      *)
(* permits while hyper streams it.  After a signal the server waits for    *)
(* the requests to drain, then forces them to end, and stops.  A readiness *)
(* request (readyz) is one that asks for no egress.                        *)
(*                                                                         *)
(* RuntimeControl::forced is modelled step by step, since the task that    *)
(* forces shutdown runs in parallel: it loads the flag, creates a Notified *)
(* and loads the flag again before it awaits it.                           *)
(***************************************************************************)
EXTENDS Integers, FiniteSets

CONSTANTS
  Requests,       \* each arrives once
  IngressLimit,   \* limits.ingress_requests
  EgressLimit     \* limits.egress_requests

ASSUME ConstantsAssumption ==
  /\ IsFiniteSet(Requests)
  /\ IngressLimit \in Nat \ {0} /\ EgressLimit \in Nat \ {0}

VARIABLES
  server,       \* where serve_listener_with_shutdown is
  flag,         \* RuntimeControl.forced
  phase,        \* where a request is
  watch, told,  \* its call of forced(), and whether its Notified was notified
  streams,      \* whether its response holds an egress permit
  overloaded,   \* REQUEST_OVERLOADED
  outcome       \* how it ended

calls == <<watch, told>>
vars == <<server, flag, phase, calls, streams, overloaded, outcome>>

\* "routing", "queued" and "fetching" are inside registry_handler; "polling" is a
\* response body hyper asks for more, "blocked" one whose client takes nothing.
Handling == {"routing", "queued", "fetching"}
Streaming == {"polling", "blocked"}
Active(r) == phase[r] \in Handling \cup Streaming

\* The selects of registry_handler and hold_permits poll forced() here.
Watching(r) == phase[r] \in Handling \cup {"polling"}

Init ==
  /\ server = "serving" /\ flag = FALSE
  /\ phase = [r \in Requests |-> "idle"]
  /\ watch = [r \in Requests |-> "unpolled"]
  /\ told = [r \in Requests |-> FALSE]
  /\ streams = [r \in Requests |-> FALSE]
  /\ overloaded = [r \in Requests |-> FALSE]
  /\ outcome = [r \in Requests |-> "none"]

-----------------------------------------------------------------------------
(* Permits: a permit lives as long as what owns it. *)

HoldsIngress(r) == Active(r)
EgressUntilResponse(r) == phase[r] = "fetching"
HoldsEgress(r) == phase[r] = "fetching" \/ streams[r]

IngressFree == Cardinality({r \in Requests : HoldsIngress(r)}) < IngressLimit
EgressFree == Cardinality({r \in Requests : HoldsEgress(r)}) < EgressLimit

Released(r) == [streams EXCEPT ![r] = FALSE]

Ended(r, how) ==
  /\ phase' = [phase EXCEPT ![r] = "ended"]
  /\ outcome' = [outcome EXCEPT ![r] = how]
  /\ streams' = Released(r)
  /\ UNCHANGED <<server, flag, calls, overloaded>>

Moves(r, to) ==
  /\ phase' = [phase EXCEPT ![r] = to]
  /\ UNCHANGED <<server, flag, calls, streams, overloaded, outcome>>

-----------------------------------------------------------------------------
(* registry_handler. *)

Admit(r) ==
  /\ phase[r] = "idle" /\ server # "stopped" /\ IngressFree
  /\ Moves(r, "routing")

Refuse(r) ==
  /\ phase[r] = "idle" /\ server # "stopped" /\ ~IngressFree
  /\ Ended(r, "saturated")

RequestEgress(r) == phase[r] = "routing" /\ Moves(r, "queued")
AcquireEgress(r) == phase[r] = "queued" /\ EgressFree /\ Moves(r, "fetching")

\* acquire_with_timeout gives up: the request is marked, and its route goes on.
QueueTimeout(r) ==
  /\ phase[r] = "queued"
  /\ phase' = [phase EXCEPT ![r] = "routing"]
  /\ overloaded' = [overloaded EXCEPT ![r] = TRUE]
  /\ UNCHANGED <<server, flag, calls, streams, outcome>>

\* Metadata is read to its end, or the upstream fails, and the permit is dropped.
FetchEnds(r) == phase[r] = "fetching" /\ Moves(r, "routing")

\* The route returns a response; the mark turns it into 503, whatever it is.
NeverOverloaded(r) == FALSE
Overloaded(r) == overloaded[r]

Respond(r) ==
  \/ /\ Overloaded(r) /\ Ended(r, "saturated")
  \/ /\ ~Overloaded(r)
     /\ phase' = [phase EXCEPT ![r] = "polling"]
     /\ streams' = [streams EXCEPT ![r] = phase[r] = "fetching"]
     /\ watch' = [watch EXCEPT ![r] = "unpolled"]
     /\ UNCHANGED <<server, flag, told, overloaded, outcome>>

RespondBuffered(r) == phase[r] = "routing" /\ Respond(r)
RespondStreaming(r) == phase[r] = "fetching" /\ Respond(r)   \* the permit moves along

-----------------------------------------------------------------------------
(* hold_permits: the body, one item at a time. *)

\* An item goes to the client; the next poll calls forced() anew.
SendItem(r) ==
  /\ phase[r] = "polling"
  /\ phase' = [phase EXCEPT ![r] = "blocked"]
  /\ watch' = [watch EXCEPT ![r] = "unpolled"]
  /\ UNCHANGED <<server, flag, told, streams, overloaded, outcome>>

ClientReads(r) == phase[r] = "blocked" /\ Moves(r, "polling")
BodyEnds(r) == phase[r] = "polling" /\ Ended(r, "complete")

\* The client is gone: hyper drops the handler or the body.
Disconnect(r) == Active(r) /\ Ended(r, "gone")

-----------------------------------------------------------------------------
(* RuntimeControl::forced. *)

Calls(r, step) ==
  /\ watch' = [watch EXCEPT ![r] = step]
  /\ UNCHANGED <<server, flag, phase, streams, overloaded, outcome>>

LoadFlag(r) ==
  /\ Watching(r) /\ watch[r] = "unpolled" /\ ~flag
  /\ Calls(r, "loaded") /\ UNCHANGED told

CreateNotified(r) ==
  /\ Watching(r) /\ watch[r] = "loaded"
  /\ Calls(r, "created") /\ told' = [told EXCEPT ![r] = FALSE]

LoadFlagAgain(r) ==
  /\ Watching(r) /\ watch[r] = "created" /\ ~flag
  /\ Calls(r, "loadedAgain") /\ UNCHANGED told

Await(r) ==
  /\ Watching(r) /\ watch[r] = "loadedAgain" /\ ~told[r]
  /\ Calls(r, "awaiting") /\ UNCHANGED told

\* forced() returns: the handler answers 503, the body stream ends.
ReturnsForced(r) ==
  \/ watch[r] \in {"unpolled", "created"} /\ flag
  \/ watch[r] \in {"loadedAgain", "awaiting"} /\ told[r]

Forced(r) ==
  /\ Watching(r) /\ ReturnsForced(r)
  /\ Ended(r, IF phase[r] = "polling" THEN "cut" ELSE "shutdown")

-----------------------------------------------------------------------------
(* serve_listener_with_shutdown. *)

Reaches(stage) ==
  /\ server' = stage
  /\ UNCHANGED <<phase, calls, streams, overloaded, outcome>>

Signal == server = "serving" /\ Reaches("draining") /\ UNCHANGED flag

\* force_shutdown: the flag, then every Notified created so far.
DrainTimeout == server = "draining" /\ Reaches("forcing") /\ flag' = TRUE

OnlySleepers(r) == watch[r] = "awaiting"
Registered(r) == watch[r] \in {"created", "loadedAgain", "awaiting"}

NotifyWaiters ==
  /\ server = "forcing" /\ server' = "closing"
  /\ told' = [r \in Requests |-> told[r] \/ Registered(r)]
  /\ UNCHANGED <<flag, phase, watch, streams, overloaded, outcome>>

Drained ==
  /\ server \in {"draining", "closing"} /\ \A r \in Requests : ~Active(r)
  /\ Reaches("stopped") /\ UNCHANGED flag

\* One more second, and what is left dies with the process.
WaitsForStreams == \A r \in Requests : phase[r] \notin Streaming
GivesUp == TRUE

LastSecond ==
  /\ server = "closing" /\ GivesUp
  /\ server' = "stopped"
  /\ phase' = [r \in Requests |-> IF Active(r) THEN "ended" ELSE phase[r]]
  /\ outcome' = [r \in Requests |-> IF Active(r) THEN "aborted" ELSE outcome[r]]
  /\ streams' = [r \in Requests |-> FALSE]
  /\ UNCHANGED <<flag, calls, overloaded>>

Shutdown == DrainTimeout \/ NotifyWaiters \/ Drained \/ LastSecond

Request(r) ==
  \/ Admit(r) \/ Refuse(r) \/ RequestEgress(r) \/ AcquireEgress(r) \/ QueueTimeout(r)
  \/ FetchEnds(r) \/ RespondBuffered(r) \/ RespondStreaming(r)
  \/ SendItem(r) \/ ClientReads(r) \/ BodyEnds(r) \/ Disconnect(r)
  \/ LoadFlag(r) \/ CreateNotified(r) \/ LoadFlagAgain(r) \/ Await(r) \/ Forced(r)

Next == Signal \/ Shutdown \/ \E r \in Requests : Request(r)

Spec == Init /\ [][Next]_vars

\* The timers of the shutdown run out; nothing is asked of requests or of clients.
FairSpec == Spec /\ WF_vars(Shutdown)

-----------------------------------------------------------------------------
(* Correctness. *)

\* Every variable holds a value of its kind; only a response being sent streams.
TypeOK ==
  /\ server \in {"serving", "draining", "forcing", "closing", "stopped"}
  /\ flag \in BOOLEAN
  /\ phase \in [Requests -> {"idle", "ended"} \cup Handling \cup Streaming]
  /\ watch \in [Requests -> {"unpolled", "loaded", "created", "loadedAgain", "awaiting"}]
  /\ told \in [Requests -> BOOLEAN] /\ overloaded \in [Requests -> BOOLEAN]
  /\ streams \in [Requests -> BOOLEAN]
  /\ outcome \in [Requests ->
       {"none", "saturated", "complete", "gone", "cut", "shutdown", "aborted"}]
  /\ \A r \in Requests : streams[r] => phase[r] \in Streaming

\* Permits bound what goes on at once also when bodies outlive their handlers: with a slow
\* client in the way, ingress_requests still bounds the requests in handlers and the bodies
\* being sent together, and egress_requests the upstream responses being read and the artifacts
\* being streamed together (docs/configuration.md:90-91).
PermitsBoundResponses ==
  /\ Cardinality({r \in Requests : Active(r)}) <= IngressLimit
  /\ Cardinality({r \in Requests : phase[r] = "fetching" \/ streams[r]}) <= EgressLimit

\* A route one of whose upstream calls found no permit may have made do with less: its
\* answer is never sent, only the 503.
OverloadNeverServed ==
  \A r \in Requests : overloaded[r] =>
    phase[r] \notin Streaming /\ outcome[r] \notin {"complete", "cut"}

\* Once force_shutdown is through, no forced() call sleeps without its wakeup: a stalled
\* upstream cannot hold a handler or a stream back, whenever they began to wait.
NoLostWakeup ==
  server = "closing" =>
    \A r \in Requests : Watching(r) /\ watch[r] = "awaiting" => told[r]

\* After a signal the server stops, whatever upstreams and clients do.
ShutdownCompletes == server = "draining" ~> server = "stopped"
=============================================================================
