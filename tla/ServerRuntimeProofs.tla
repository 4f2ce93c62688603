------------------------ MODULE ServerRuntimeProofs ------------------------
(***************************************************************************)
(* Safety of ServerRuntime for every number of requests and every limit:   *)
(* the wakeup of forced() is never lost, an overloaded route is never      *)
(* served, and the permits bound what they are meant to bound.             *)
(***************************************************************************)
EXTENDS ServerRuntime, TLAPS, FiniteSetTheorems

\* The flag is up exactly from force_shutdown on; once it has notified, whoever found
\* the flag down twice has been told.
WakeupInv ==
  /\ server \in {"serving", "draining"} => ~flag
  /\ server \in {"forcing", "closing"} => flag
  /\ server = "closing" =>
       \A r \in Requests : watch[r] \in {"loadedAgain", "awaiting"} => told[r]

\* A mark is only ever seen on a request without a response of its own.
OverloadInv ==
  /\ \A r \in Requests : phase[r] # "ended" => outcome[r] = "none"
  /\ OverloadNeverServed

InIngress == {r \in Requests : HoldsIngress(r)}
InEgress == {r \in Requests : HoldsEgress(r)}

BudgetInv ==
  /\ Cardinality(InIngress) <= IngressLimit
  /\ Cardinality(InEgress) <= EgressLimit

IInv == TypeOK /\ WakeupInv /\ OverloadInv /\ BudgetInv

-----------------------------------------------------------------------------
(* Types. *)

USE DEF Handling, Streaming

\* The initial state has its types.
LEMMA InitTypes == Init => TypeOK
<1> SUFFICES ASSUME Init PROVE TypeOK
  OBVIOUS
<1>1. /\ phase \in [Requests -> {"idle", "ended"} \cup Handling \cup Streaming]
      /\ watch \in [Requests -> {"unpolled", "loaded", "created", "loadedAgain", "awaiting"}]
      /\ outcome \in [Requests ->
           {"none", "saturated", "complete", "gone", "cut", "shutdown", "aborted"}]
  BY DEF Init
<1>2. /\ told \in [Requests -> BOOLEAN] /\ overloaded \in [Requests -> BOOLEAN]
      /\ streams \in [Requests -> BOOLEAN] /\ \A r \in Requests : ~streams[r]
  BY DEF Init
<1> QED
  BY <1>1, <1>2 DEF Init, TypeOK

\* Every step keeps the types, and a permit of a stream with its stream.
LEMMA TypesStep == TypeOK /\ [Next]_vars => TypeOK'
<1> SUFFICES ASSUME TypeOK, [Next]_vars PROVE TypeOK'
  OBVIOUS
<1> USE DEF TypeOK
<1>1. CASE Signal \/ DrainTimeout \/ Drained
  BY <1>1 DEF Signal, DrainTimeout, Drained, Reaches, calls
<1>2. CASE NotifyWaiters
  BY <1>2 DEF NotifyWaiters
<1>3. CASE LastSecond
  BY <1>3 DEF LastSecond, calls
<1>4. ASSUME NEW r \in Requests, Request(r) PROVE TypeOK'
  <2>1. CASE \E how \in {"saturated", "complete", "gone", "cut", "shutdown"} : Ended(r, how)
    BY <2>1 DEF Ended, Released, calls
  <2>2. CASE \/ Admit(r) \/ RequestEgress(r) \/ AcquireEgress(r) \/ FetchEnds(r)
             \/ ClientReads(r)
    BY <2>2 DEF Admit, RequestEgress, AcquireEgress, FetchEnds, ClientReads, Moves, calls
  <2>3. CASE QueueTimeout(r)
    BY <2>3 DEF QueueTimeout, calls
  <2>4. CASE (RespondBuffered(r) \/ RespondStreaming(r)) /\ ~Overloaded(r)
    BY <2>4 DEF RespondBuffered, RespondStreaming, Respond
  <2>5. CASE SendItem(r)
    BY <2>5 DEF SendItem
  <2>6. CASE LoadFlag(r) \/ CreateNotified(r) \/ LoadFlagAgain(r) \/ Await(r)
    BY <2>6 DEF LoadFlag, CreateNotified, LoadFlagAgain, Await, Calls
  <2> QED
    BY <1>4, <2>1, <2>2, <2>3, <2>4, <2>5, <2>6
    DEF Request, Refuse, RespondBuffered, RespondStreaming, Respond, BodyEnds, Disconnect,
        Forced
<1>5. CASE UNCHANGED vars
  BY <1>5 DEF vars, calls
<1> QED
  BY <1>1, <1>2, <1>3, <1>4, <1>5 DEF Next, Shutdown

-----------------------------------------------------------------------------
(* The wakeup of forced(). *)

\* No step puts a caller to sleep that force_shutdown has not told.
LEMMA WakeupStep == TypeOK /\ WakeupInv /\ [Next]_vars => WakeupInv'
<1> SUFFICES ASSUME TypeOK, WakeupInv, [Next]_vars PROVE WakeupInv'
  OBVIOUS
<1> USE DEF TypeOK, WakeupInv
<1>1. CASE Signal \/ DrainTimeout \/ Drained
  BY <1>1 DEF Signal, DrainTimeout, Drained, Reaches, calls
<1>2. CASE NotifyWaiters
  BY <1>2 DEF NotifyWaiters, Registered
<1>3. CASE LastSecond
  BY <1>3 DEF LastSecond, calls
<1>4. ASSUME NEW r \in Requests, Request(r) PROVE WakeupInv'
  <2>1. CASE UNCHANGED <<server, flag, calls>>
    BY <2>1 DEF calls
  <2>2. CASE /\ watch' = [watch EXCEPT ![r] = "unpolled"]
             /\ UNCHANGED <<server, flag, told>>
    BY <2>2
  <2>3. CASE LoadFlag(r)
    BY <2>3 DEF LoadFlag, Calls
  <2>4. CASE CreateNotified(r)
    BY <2>4 DEF CreateNotified, Calls
  <2>5. CASE LoadFlagAgain(r)
    BY <2>5 DEF LoadFlagAgain, Calls
  <2>6. CASE Await(r)
    BY <2>6 DEF Await, Calls
  <2> QED
    BY <1>4, <2>1, <2>2, <2>3, <2>4, <2>5, <2>6
    DEF Request, Admit, Refuse, RequestEgress, AcquireEgress, QueueTimeout, FetchEnds,
        RespondBuffered, RespondStreaming, Respond, SendItem, ClientReads, BodyEnds,
        Disconnect, Forced, Ended, Moves
<1>5. CASE UNCHANGED vars
  BY <1>5 DEF vars, calls
<1> QED
  BY <1>1, <1>2, <1>3, <1>4, <1>5 DEF Next, Shutdown

-----------------------------------------------------------------------------
(* Overloaded routes. *)

\* No step sends the response of a route that was marked, nor marks one that was sent.
LEMMA OverloadStep == TypeOK /\ OverloadInv /\ [Next]_vars => OverloadInv'
<1> SUFFICES ASSUME TypeOK, OverloadInv, [Next]_vars PROVE OverloadInv'
  OBVIOUS
<1> USE DEF TypeOK, OverloadInv, OverloadNeverServed
<1>1. CASE Signal \/ DrainTimeout \/ NotifyWaiters \/ Drained
  BY <1>1 DEF Signal, DrainTimeout, NotifyWaiters, Drained, Reaches
<1>2. CASE LastSecond
  BY <1>2 DEF LastSecond, Active
<1>3. ASSUME NEW r \in Requests, Request(r) PROVE OverloadInv'
  <2>1. CASE \E how \in {"saturated", "gone", "shutdown"} : Ended(r, how)
    BY <2>1 DEF Ended
  <2>2. CASE phase[r] = "polling" /\ \E how \in {"complete", "cut"} : Ended(r, how)
    BY <2>2 DEF Ended
  <2>3. CASE \/ Admit(r) \/ RequestEgress(r) \/ AcquireEgress(r) \/ FetchEnds(r)
             \/ ClientReads(r)
    <3>1. PICK to \in Handling \cup {"polling"} :
             Moves(r, to) /\ phase[r] # "ended"
                /\ (to = "polling" => phase[r] = "blocked")
      BY <2>3 DEF Admit, RequestEgress, AcquireEgress, FetchEnds, ClientReads
    <3> QED
      BY <3>1 DEF Moves
  <2>4. CASE QueueTimeout(r)
    BY <2>4 DEF QueueTimeout
  <2>5. CASE (RespondBuffered(r) \/ RespondStreaming(r)) /\ ~Overloaded(r)
    BY <2>5 DEF RespondBuffered, RespondStreaming, Respond, Overloaded
  <2>6. CASE SendItem(r)
    BY <2>6 DEF SendItem
  <2>7. CASE LoadFlag(r) \/ CreateNotified(r) \/ LoadFlagAgain(r) \/ Await(r)
    BY <2>7 DEF LoadFlag, CreateNotified, LoadFlagAgain, Await, Calls
  <2> QED
    BY <1>3, <2>1, <2>2, <2>3, <2>4, <2>5, <2>6, <2>7
    DEF Request, Refuse, RespondBuffered, RespondStreaming, Respond, BodyEnds, Disconnect,
        Forced
<1>4. CASE UNCHANGED vars
  BY <1>4 DEF vars
<1> QED
  BY <1>1, <1>2, <1>3, <1>4 DEF Next, Shutdown

-----------------------------------------------------------------------------
(* Permits. *)

\* One more holder of a semaphore that has a permit free, or fewer holders, stay within
\* its size.
LEMMA Holders ==
  ASSUME NEW S, NEW T, NEW limit \in Nat, IsFiniteSet(S), Cardinality(S) <= limit,
         \/ T \subseteq S
         \/ Cardinality(S) < limit /\ \E r : T \subseteq S \cup {r}
  PROVE  Cardinality(T) <= limit
<1>1. CASE T \subseteq S
  BY <1>1, FS_Subset, FS_CardinalityType
<1>2. CASE Cardinality(S) < limit /\ \E r : T \subseteq S \cup {r}
  <2>1. PICK r : T \subseteq S \cup {r}
    BY <1>2
  <2>2. /\ IsFiniteSet(S \cup {r})
        /\ Cardinality(S \cup {r}) \in Nat
        /\ Cardinality(S \cup {r}) <= Cardinality(S) + 1
    <3>1. IsFiniteSet(S \cup {r})
      BY FS_AddElement
    <3>2. \/ Cardinality(S \cup {r}) = Cardinality(S)
          \/ Cardinality(S \cup {r}) = Cardinality(S) + 1
      BY FS_AddElement
    <3> QED
      BY <3>1, <3>2, FS_CardinalityType
  <2>3. Cardinality(T) <= Cardinality(S \cup {r}) /\ Cardinality(T) \in Nat
    BY <2>1, <2>2, FS_Subset, FS_CardinalityType
  <2> QED
    BY <1>2, <2>2, <2>3, FS_CardinalityType
<1> QED
  BY <1>1, <1>2

\* Sets of requests are finite.
LEMMA HoldersFinite == IsFiniteSet(InIngress) /\ IsFiniteSet(InEgress)
BY FS_Subset, ConstantsAssumption DEF InIngress, InEgress

\* Only Admit and AcquireEgress take a permit, and only a free one.
LEMMA BudgetStep == TypeOK /\ BudgetInv /\ [Next]_vars => BudgetInv'
<1> SUFFICES ASSUME TypeOK, BudgetInv, [Next]_vars PROVE BudgetInv'
  OBVIOUS
<1> USE DEF TypeOK, InIngress, InEgress, HoldsIngress, HoldsEgress, Active
<1> DEFINE FewerIngress == InIngress' \subseteq InIngress
           FewerEgress == InEgress' \subseteq InEgress
<1>1. \/ FewerIngress /\ FewerEgress
      \/ \E r \in Requests :
           /\ FewerEgress /\ IngressFree /\ InIngress' \subseteq InIngress \cup {r}
      \/ \E r \in Requests :
           /\ FewerIngress /\ EgressFree /\ InEgress' \subseteq InEgress \cup {r}
  <2>1. CASE Signal \/ DrainTimeout \/ NotifyWaiters \/ Drained
    BY <2>1 DEF Signal, DrainTimeout, NotifyWaiters, Drained, Reaches
  <2>2. CASE LastSecond
    BY <2>2 DEF LastSecond
  <2>3. ASSUME NEW r \in Requests, Ended(r, outcome'[r]) PROVE FewerIngress /\ FewerEgress
    BY <2>3 DEF Ended, Released
  <2>4. ASSUME NEW r \in Requests, Request(r), ~Ended(r, outcome'[r])
        PROVE  \/ FewerIngress /\ FewerEgress
               \/ FewerEgress /\ IngressFree /\ InIngress' \subseteq InIngress \cup {r}
               \/ FewerIngress /\ EgressFree /\ InEgress' \subseteq InEgress \cup {r}
    <3>1. CASE Admit(r)
      BY <3>1 DEF Admit, Moves
    <3>2. CASE AcquireEgress(r)
      BY <3>2 DEF AcquireEgress, Moves
    <3>3. CASE RequestEgress(r) \/ FetchEnds(r) \/ ClientReads(r)
      BY <3>3 DEF RequestEgress, FetchEnds, ClientReads, Moves
    <3>4. CASE QueueTimeout(r)
      BY <3>4 DEF QueueTimeout
    <3>5. CASE (RespondBuffered(r) \/ RespondStreaming(r)) /\ ~Overloaded(r)
      BY <3>5 DEF RespondBuffered, RespondStreaming, Respond
    <3>6. CASE SendItem(r)
      BY <3>6 DEF SendItem
    <3>7. CASE LoadFlag(r) \/ CreateNotified(r) \/ LoadFlagAgain(r) \/ Await(r)
      BY <3>7 DEF LoadFlag, CreateNotified, LoadFlagAgain, Await, Calls
    <3>8. ASSUME NEW how, Ended(r, how) PROVE FALSE
      BY <2>4, <3>8 DEF Ended
    <3> QED
      BY <2>4, <3>1, <3>2, <3>3, <3>4, <3>5, <3>6, <3>7, <3>8
      DEF Request, Refuse, RespondBuffered, RespondStreaming, Respond, BodyEnds,
          Disconnect, Forced
  <2>5. CASE UNCHANGED vars
    BY <2>5 DEF vars
  <2> QED
    BY <2>1, <2>2, <2>3, <2>4, <2>5 DEF Next, Shutdown
<1>2. IngressFree => Cardinality(InIngress) < IngressLimit
  BY DEF IngressFree
<1>3. EgressFree => Cardinality(InEgress) < EgressLimit
  BY DEF EgressFree
<1> HIDE DEF InIngress, InEgress
<1>4. Cardinality(InIngress') <= IngressLimit
  BY <1>1, <1>2, Holders, HoldersFinite, ConstantsAssumption DEF BudgetInv
<1>5. Cardinality(InEgress') <= EgressLimit
  BY <1>1, <1>3, Holders, HoldersFinite, ConstantsAssumption DEF BudgetInv
<1> QED
  BY <1>4, <1>5 DEF BudgetInv

-----------------------------------------------------------------------------
(* Theorems. *)

\* Nobody holds anything at first.
LEMMA InitInv == Init => IInv
<1> SUFFICES ASSUME Init PROVE IInv
  OBVIOUS
<1>1. TypeOK
  BY InitTypes
<1>2. WakeupInv /\ OverloadInv
  BY DEF Init, WakeupInv, OverloadInv, OverloadNeverServed
<1>3. InIngress = {} /\ InEgress = {}
  BY DEF Init, InIngress, InEgress, HoldsIngress, HoldsEgress, Active
<1>4. BudgetInv
  BY <1>3, FS_EmptySet, ConstantsAssumption DEF BudgetInv
<1> QED
  BY <1>1, <1>2, <1>4 DEF IInv

\* The server's types and its invariants on wakeups, overload marks and permits hold in
\* every reachable state (runtime.rs, serve_listener_with_shutdown, registry_handler).
THEOREM RuntimeInvariant == Spec => []IInv
<1>1. IInv /\ [Next]_vars => IInv'
  BY TypesStep, WakeupStep, OverloadStep, BudgetStep DEF IInv
<1> QED
  BY <1>1, InitInv, PTL DEF Spec

\* RuntimeControl::forced loses no wakeup of force_shutdown, for any number of requests.
THEOREM WakeupsAreKept == Spec => []NoLostWakeup
<1>1. IInv => NoLostWakeup
  BY DEF IInv, WakeupInv, NoLostWakeup
<1> QED
  BY <1>1, RuntimeInvariant, PTL

\* track_request_overload keeps a route that ran short of permits from being served.
THEOREM OverloadsAreRefused == Spec => []OverloadNeverServed
<1>1. IInv => OverloadNeverServed
  BY DEF IInv, OverloadInv
<1> QED
  BY <1>1, RuntimeInvariant, PTL

\* At most ingress_requests requests are handled or being sent, and at most egress_requests
\* upstream responses are open for installs.
THEOREM PermitsBound == Spec => []PermitsBoundResponses
<1>1. IInv => PermitsBoundResponses
  BY DEF IInv, BudgetInv, InIngress, HoldsIngress, InEgress, HoldsEgress, PermitsBoundResponses
<1> QED
  BY <1>1, RuntimeInvariant, PTL
=============================================================================
