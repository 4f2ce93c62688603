------------------------ MODULE BuildingBlocksProofs ------------------------
(***************************************************************************)
(* TLAPS proofs about the parts that the other modules build on.           *)
(***************************************************************************)
EXTENDS SyncRunLock, BoundedBody, EgressPolicy, PolicyRuns, RangeRuns, VersionRuns,
        BackgroundSync, NaturalLemmas, SequenceTheorems, TLAPS

-----------------------------------------------------------------------------
(* The sync-run lock gives back what it takes, and is one mutual exclusion over all
   processes, for any number of tasks, processes and stores. *)

LockTypes ==
  /\ active \in [Processes -> SUBSET StoreFiles]
  /\ locked \in [StoreFiles -> Tasks \cup {Nobody}]
  /\ stage \in [Tasks -> Stages]
  /\ file \in [Tasks -> StoreFiles]

PathsHaveTasks ==
  \A p \in Processes : \A f \in active[p] :
    \E t \in Tasks : ProcessOf[t] = p /\ file[t] = f /\ stage[t] # "idle"

LocksHaveRunners ==
  \A f \in StoreFiles : locked[f] # Nobody =>
    stage[locked[f]] = "running" /\ file[locked[f]] = f

RunnersHaveLocks ==
  \A t \in Tasks : stage[t] = "running" => locked[file[t]] = t

\* The two halves that LockLeavesNothingBehind states say nothing of a task that runs
\* without the lock; that none does is what makes the locks exclude one another.
LockInv == LockTypes /\ PathsHaveTasks /\ LocksHaveRunners /\ RunnersHaveLocks

\* Before the first acquire (malicious.rs 595-607) no path is held and no file is locked.
LEMMA LockInitInvariant ==
  ASSUME LockInit
  PROVE  LockInv
BY LockConstants DEF LockInit, LockInv, LockTypes, Stages, PathsHaveTasks, LocksHaveRunners,
       RunnersHaveLocks

\* A task may go from one stage to another, neither of them idle or running, and keep all
\* else: the steps of acquire that only the file system answers (malicious.rs 609-638).
LEMMA GoesKeepsInvariant ==
  ASSUME LockInv, NEW t \in Tasks, NEW to \in Stages,
         Goes(t, to), UNCHANGED <<active, locked, file>>,
         stage[t] \notin {"idle", "running"}, to \notin {"idle", "running"}
  PROVE  LockInv'
<1> USE LockConstants DEF LockInv, LockTypes, Goes
<1>1. LockTypes'
  OBVIOUS
<1>2. PathsHaveTasks'
  BY DEF PathsHaveTasks
<1>3. LocksHaveRunners'
  BY DEF LocksHaveRunners
<1>4. RunnersHaveLocks'
  BY DEF RunnersHaveLocks
<1> QED  BY <1>1, <1>2, <1>3, <1>4

\* Entering the set of the process (malicious.rs 595-607).
LEMMA EnterKeepsInvariant ==
  ASSUME LockInv, NEW t \in Tasks, NEW path \in Paths, Enter(t, path)
  PROVE  LockInv'
<1> USE LockConstants DEF LockInv, LockTypes, Goes, Enter, StoreOf, Stages
<1>0. /\ ProcessOf[t] \in Processes
      /\ Normalized[path] \in StoreFiles
  OBVIOUS
<1>1. LockTypes'
  BY <1>0
<1>2. PathsHaveTasks'
  <2> SUFFICES ASSUME NEW p \in Processes, NEW f \in active'[p]
               PROVE  \E u \in Tasks : /\ ProcessOf[u] = p
                                       /\ file'[u] = f
                                       /\ stage'[u] # "idle"
    BY DEF PathsHaveTasks
  <2>1. CASE f \in active[p]
    <3>1. PICK u \in Tasks : ProcessOf[u] = p /\ file[u] = f /\ stage[u] # "idle"
      BY <2>1 DEF PathsHaveTasks
    <3>2. u # t
      BY <3>1
    <3> QED  BY <3>1, <3>2
  <2>2. CASE f \notin active[p]
    <3>1. p = ProcessOf[t] /\ f = Normalized[path]
      BY <1>0, <2>2
    <3> QED  BY <3>1
  <2> QED  BY <2>1, <2>2
<1>3. LocksHaveRunners'
  BY DEF LocksHaveRunners
<1>4. RunnersHaveLocks'
  BY DEF RunnersHaveLocks
<1> QED  BY <1>1, <1>2, <1>3, <1>4

\* Taking the lock of the file (malicious.rs 626-640).
LEMMA TryLockKeepsInvariant ==
  ASSUME LockInv, NEW t \in Tasks, TryLock(t)
  PROVE  LockInv'
<1> USE LockConstants DEF LockInv, LockTypes, Goes, TryLock, FileLockFree, Stages
<1>1. LockTypes'
  OBVIOUS
<1>2. PathsHaveTasks'
  BY DEF PathsHaveTasks
<1>3. LocksHaveRunners'
  <2> SUFFICES ASSUME NEW f \in StoreFiles, locked'[f] # Nobody
               PROVE  stage'[locked'[f]] = "running" /\ file'[locked'[f]] = f
    BY DEF LocksHaveRunners
  <2>1. CASE f = file[t]
    BY <2>1
  <2>2. CASE f # file[t]
    BY <2>2 DEF LocksHaveRunners
  <2> QED  BY <2>1, <2>2
<1>4. RunnersHaveLocks'
  BY DEF RunnersHaveLocks
<1> QED  BY <1>1, <1>2, <1>3, <1>4

\* Closing the file before the path is given back (malicious.rs 643-648).
LEMMA UnlockKeepsInvariant ==
  ASSUME LockInv, NEW t \in Tasks, Unlock(t)
  PROVE  LockInv'
<1> USE LockConstants DEF LockInv, LockTypes, Goes, Unlock, Stages
<1>1. LockTypes'
  OBVIOUS
<1>2. PathsHaveTasks'
  BY DEF PathsHaveTasks
<1>3. LocksHaveRunners'
  <2> SUFFICES ASSUME NEW f \in StoreFiles, locked'[f] # Nobody
               PROVE  stage'[locked'[f]] = "running" /\ file'[locked'[f]] = f
    BY DEF LocksHaveRunners
  <2>1. f # file[t] /\ locked'[f] = locked[f]
    OBVIOUS
  <2>2. locked[f] # t
    BY <2>1 DEF LocksHaveRunners
  <2> QED  BY <2>1, <2>2 DEF LocksHaveRunners
<1>4. RunnersHaveLocks'
  BY DEF RunnersHaveLocks
<1> QED  BY <1>1, <1>2, <1>3, <1>4

\* Giving the path back (malicious.rs 650-657).
LEMMA LeaveKeepsInvariant ==
  ASSUME LockInv, NEW t \in Tasks, Leave(t)
  PROVE  LockInv'
<1> USE LockConstants DEF LockInv, LockTypes, Goes, Leave, WithoutPath, Stages
<1>0. ProcessOf[t] \in Processes
  OBVIOUS
<1>1. LockTypes'
  BY <1>0
<1>2. PathsHaveTasks'
  <2> SUFFICES ASSUME NEW p \in Processes, NEW f \in active'[p]
               PROVE  \E u \in Tasks : /\ ProcessOf[u] = p
                                       /\ file'[u] = f
                                       /\ stage'[u] # "idle"
    BY DEF PathsHaveTasks
  <2>1. f \in active[p] /\ (p = ProcessOf[t] => f # file[t])
    BY <1>0
  <2>2. PICK u \in Tasks : ProcessOf[u] = p /\ file[u] = f /\ stage[u] # "idle"
    BY <2>1 DEF PathsHaveTasks
  <2>3. u # t
    BY <2>1, <2>2
  <2> QED  BY <2>2, <2>3
<1>3. LocksHaveRunners'
  BY DEF LocksHaveRunners
<1>4. RunnersHaveLocks'
  BY DEF RunnersHaveLocks
<1> QED  BY <1>1, <1>2, <1>3, <1>4

\* The end of a process, which takes its set and its open files with it.
LEMMA CrashKeepsInvariant ==
  ASSUME LockInv, NEW p \in Processes, Crash(p)
  PROVE  LockInv'
<1> DEFINE dead == {t \in Tasks : ProcessOf[t] = p}
<1> USE LockConstants DEF LockInv, LockTypes, Crash, Stages
<1>1. LockTypes'
  OBVIOUS
<1>2. PathsHaveTasks'
  <2> SUFFICES ASSUME NEW q \in Processes, NEW f \in active'[q]
               PROVE  \E u \in Tasks : /\ ProcessOf[u] = q
                                       /\ file'[u] = f
                                       /\ stage'[u] # "idle"
    BY DEF PathsHaveTasks
  <2>1. q # p /\ f \in active[q]
    OBVIOUS
  <2>2. PICK u \in Tasks : ProcessOf[u] = q /\ file[u] = f /\ stage[u] # "idle"
    BY <2>1 DEF PathsHaveTasks
  <2> QED  BY <2>1, <2>2
<1>3. LocksHaveRunners'
  <2> SUFFICES ASSUME NEW f \in StoreFiles, locked'[f] # Nobody
               PROVE  stage'[locked'[f]] = "running" /\ file'[locked'[f]] = f
    BY DEF LocksHaveRunners
  <2>1. locked'[f] = locked[f] /\ locked[f] \in Tasks /\ locked[f] \notin dead
    OBVIOUS
  <2> QED  BY <2>1 DEF LocksHaveRunners
<1>4. RunnersHaveLocks'
  BY DEF RunnersHaveLocks
<1> QED  BY <1>1, <1>2, <1>3, <1>4

\* No step of acquire, drop or the end of a process (malicious.rs 594-657) breaks LockInv.
LEMMA LockNextInvariant ==
  ASSUME LockInv, [LockNext]_lockVars
  PROVE  LockInv'
<1>1. CASE UNCHANGED lockVars
  BY <1>1 DEF lockVars, LockInv, LockTypes, PathsHaveTasks, LocksHaveRunners, RunnersHaveLocks
<1>2. ASSUME NEW t \in Tasks, NEW path \in Paths, Enter(t, path) PROVE LockInv'
  BY <1>2, EnterKeepsInvariant
<1>3. ASSUME NEW t \in Tasks, Open(t) PROVE LockInv'
  BY <1>3, GoesKeepsInvariant DEF Open, Stages
<1>4. ASSUME NEW t \in Tasks, Fail(t) PROVE LockInv'
  BY <1>4, GoesKeepsInvariant DEF Fail, Stages
<1>5. ASSUME NEW t \in Tasks, TryLock(t) PROVE LockInv'
  BY <1>5, TryLockKeepsInvariant
<1>6. ASSUME NEW t \in Tasks, WouldBlock(t) PROVE LockInv'
  BY <1>6, GoesKeepsInvariant DEF WouldBlock, Stages
<1>7. ASSUME NEW t \in Tasks, Unlock(t) PROVE LockInv'
  BY <1>7, UnlockKeepsInvariant
<1>8. ASSUME NEW t \in Tasks, Leave(t) PROVE LockInv'
  BY <1>8, LeaveKeepsInvariant
<1>9. ASSUME NEW p \in Processes, Crash(p) PROVE LockInv'
  BY <1>9, CrashKeepsInvariant
<1> QED  BY <1>1, <1>2, <1>3, <1>4, <1>5, <1>6, <1>7, <1>8, <1>9 DEF LockNext

\* Every reachable state of the lock (malicious.rs 588-657) satisfies LockInv.
THEOREM LockInvariant == LockSpec => []LockInv
<1>1. LockInit => LockInv
  BY LockInitInvariant
<1>2. LockInv /\ [LockNext]_lockVars => LockInv'
  BY LockNextInvariant
<1> QED  BY <1>1, <1>2, PTL DEF LockSpec

\* No path stays in a set and no file stays locked for nobody (malicious.rs 595-657).
THEOREM NothingIsLeftBehind == LockSpec => []LockLeavesNothingBehind
<1>1. LockInv => LockLeavesNothingBehind
  BY DEF LockInv, PathsHaveTasks, LocksHaveRunners, LockLeavesNothingBehind
<1> QED  BY <1>1, LockInvariant, PTL

-----------------------------------------------------------------------------
(* The refinement of RunMutex. *)

\* Who runs a sync of a store is who holds the lock of its file: the CHOOSE in Holder has
\* no choice.
LEMMA HolderIsLocked ==
  ASSUME LockInv
  PROVE  Holder = locked
<1> USE LockConstants DEF LockInv, LockTypes
<1>1. ASSUME NEW f \in StoreFiles PROVE Holder[f] = locked[f]
  <2>1. ASSUME NEW t \in Tasks, stage[t] = "running", file[t] = f PROVE t = locked[f]
    BY <2>1 DEF RunnersHaveLocks
  <2>2. CASE locked[f] = Nobody
    BY <2>1, <2>2 DEF Holder
  <2>3. CASE locked[f] # Nobody
    <3>1. locked[f] \in Tasks /\ stage[locked[f]] = "running" /\ file[locked[f]] = f
      BY <2>3 DEF LocksHaveRunners
    <3>2. Holder[f] = CHOOSE t \in Tasks : stage[t] = "running" /\ file[t] = f
      BY <3>1 DEF Holder
    <3> QED  BY <2>1, <3>1, <3>2
  <2> QED  BY <2>2, <2>3
<1> QED  BY <1>1 DEF Holder

\* Each step of the lock (malicious.rs 594-657) is a step of the mutual exclusion or none.
LEMMA StepImplementsMutex ==
  ASSUME LockInv, LockInv', [LockNext]_lockVars
  PROVE  [Mutex!Next]_Holder
<1>0. Holder = locked /\ Holder' = locked'
  <2>1. Holder = locked
    BY HolderIsLocked
  <2>2. LockInv => Holder = locked
    BY HolderIsLocked
  <2>3. (LockInv => Holder = locked)'
    BY HolderIsLocked, PTL
  <2> QED  BY <2>1, <2>3
<1> USE LockConstants DEF LockInv, LockTypes
<1>1. CASE UNCHANGED locked
  BY <1>0, <1>1
<1>2. ASSUME NEW t \in Tasks, TryLock(t) PROVE Mutex!Next
  <2>1. Mutex!Acquire(t, file[t])
    BY <1>0, <1>2 DEF TryLock, FileLockFree, Mutex!Acquire
  <2> QED  BY <2>1 DEF Mutex!Next
<1>3. ASSUME NEW t \in Tasks, Unlock(t) PROVE Mutex!Next
  <2>1. \A f \in StoreFiles : locked[f] = t <=> f = file[t]
    BY <1>3 DEF Unlock, LocksHaveRunners, RunnersHaveLocks
  <2>2. Mutex!Release({t})
    BY <1>0, <1>3, <2>1 DEF Unlock, Mutex!Release
  <2> QED  BY <2>2 DEF Mutex!Next
<1>4. ASSUME NEW p \in Processes, Crash(p) PROVE Mutex!Next
  <2>1. Mutex!Release({t \in Tasks : ProcessOf[t] = p})
    BY <1>0, <1>4 DEF Crash, Mutex!Release
  <2> QED  BY <2>1 DEF Mutex!Next
<1> QED
  BY <1>1, <1>2, <1>3, <1>4
  DEF LockNext, lockVars, Enter, Open, Fail, WouldBlock, Leave

\* The two locks implement one mutual exclusion over the tasks of all processes
\* (malicious.rs 588-657).
THEOREM LockIsMutex == LockSpec => LockImplementsMutex
<1>1. LockInit => Mutex!Init
  <2>1. ASSUME LockInit PROVE Holder = locked
    BY <2>1, LockInitInvariant, HolderIsLocked
  <2> QED  BY <2>1 DEF LockInit, Mutex!Init
<1>2. LockInv /\ LockInv' /\ [LockNext]_lockVars => [Mutex!Next]_Holder
  BY StepImplementsMutex
<1> QED  BY <1>1, <1>2, LockInvariant, PTL DEF LockSpec, LockImplementsMutex, Mutex!Spec
-----------------------------------------------------------------------------
(* Bodies under a limit. *)

BodyStages == {"idle", "reading", "too_large", "done", "failed"}
Bodies ==
  [stage : BodyStages, declared : Nat \cup {Undeclared}, sent : Nat, length : Nat]

\* All that was kept is all that was sent, until a body is refused.
BodyInv ==
  /\ body \in Bodies
  /\ body.stage \in {"reading", "done"} =>
       /\ body.length = body.sent /\ body.length <= Limit
       /\ body.declared <= Limit
  /\ body.stage = "done" => body.declared \in {Undeclared, body.sent}
  /\ body.stage = "too_large" => body.sent > Limit \/ body.declared > Limit

\* A sum that saturates is above the limit exactly when the sum is (http_body.rs 147-157).
LEMMA SaturatingComparison ==
  ASSUME NEW a \in Nat, NEW b \in Nat
  PROVE  SaturatingAdd(a, b) > Limit <=> a + b > Limit
BY BodyConstants DEF SaturatingAdd

\* Every step of reading a body keeps what was kept and what was sent together.
LEMMA BodyStep == BodyInv /\ [BodyNext]_body => BodyInv'
<1> SUFFICES ASSUME BodyInv, [BodyNext]_body PROVE BodyInv'
  OBVIOUS
<1> USE BodyConstants DEF BodyInv, Bodies, BodyStages, Undeclared
<1>1. ASSUME NEW length \in 0..MaxSent \cup {Undeclared}, Declare(length) PROVE BodyInv'
  <2>1. length \in Nat \cup {Undeclared} /\ Limit \in Nat
    BY <1>1
  <2>2. PICK to \in BodyStages :
          /\ body' = [stage |-> to, declared |-> length, sent |-> 0, length |-> 0]
          /\ to = IF length > Limit THEN "too_large" ELSE "reading"
    BY <1>1 DEF Declare, NoBody
  <2>3. body' \in Bodies
    BY <2>1, <2>2
  <2> QED BY <2>1, <2>2, <2>3
<1>2. ASSUME NEW size \in Chunks, Receive(size) PROVE BodyInv'
  <2>1. /\ size \in Nat /\ body.stage = "reading" /\ body.sent \in Nat /\ body.length \in Nat
        /\ body.declared \in Nat \cup {Undeclared}
        /\ body = [stage |-> body.stage, declared |-> body.declared, sent |-> body.sent,
                   length |-> body.length]
    BY <1>2 DEF Receive
  <2>2. CASE SaturatingAdd(body.length, size) > Limit
    <3>1. body' = [stage |-> "too_large", declared |-> body.declared,
                   sent |-> body.sent + size, length |-> body.length]
      BY <1>2, <2>1, <2>2 DEF Receive
    <3>2. body.sent + size > Limit
      BY <2>1, <2>2, SaturatingComparison
    <3>3. body'.stage = "too_large" /\ body'.sent = body.sent + size /\ body' \in Bodies
      BY <2>1, <3>1
    <3> QED BY <3>2, <3>3
  <2>3. CASE ~(SaturatingAdd(body.length, size) > Limit)
    <3>1. body' = [stage |-> "reading", declared |-> body.declared,
                   sent |-> body.sent + size, length |-> body.length + size]
      BY <1>2, <2>1, <2>3 DEF Receive
    <3>2. body.length + size <= Limit
      BY <2>1, <2>3, SaturatingComparison
    <3>3. /\ body'.stage = "reading" /\ body'.declared = body.declared
          /\ body'.sent = body.sent + size /\ body'.length = body.length + size
          /\ body' \in Bodies
      BY <2>1, <3>1
    <3> QED BY <2>1, <3>2, <3>3
  <2> QED BY <2>2, <2>3
<1>3. CASE End
  BY <1>3 DEF End
<1>4. CASE Break
  BY <1>4 DEF Break
<1>5. CASE Forget
  BY <1>5 DEF Forget, NoBody
<1>6. CASE UNCHANGED body
  BY <1>6
<1> QED BY <1>1, <1>2, <1>3, <1>4, <1>5, <1>6 DEF BodyNext

\* Nothing is lost of a body that is read and nothing is refused that fits, for every limit
\* below usize::MAX, every size of pieces and every length, declared or not
\* (http_body.rs 38-157).
THEOREM BodiesAreWhole == BodySpec => []BodyIsWhole
<1>1. BodyInit => BodyInv
  BY BodyConstants DEF BodyInit, BodyInv, Bodies, BodyStages, NoBody, Undeclared
<1>2. BodyInv => BodyIsWhole
  BY DEF BodyInv, BodyIsWhole
<1> QED BY <1>1, <1>2, BodyStep, PTL DEF BodySpec

-----------------------------------------------------------------------------
(* Egress. *)

CallStages == {"refused", "redirected", "resolve", "connected", "failed", "answered"}
Calls ==
  [mode : {"deliver", "fetch"}, ecosystem : ProxiedEcosystems, url : ParsedUrls,
   address : Addresses, stage : CallStages]

\* A URL is sent for, or handed to the client, if it was validated, and not refused otherwise.
EgressInv ==
  /\ config \in Configurations /\ Valid(config)
  /\ call = Idle \/ call \in Calls
  /\ call # Idle =>
       /\ call.stage \in {"resolve", "redirected", "connected"} =>
            ValidateUrl(call.ecosystem, call.url)
       /\ call.stage = "refused" => ~ValidateUrl(call.ecosystem, call.url)
       /\ call.stage = "connected" /\ IsForbidden(call.address) =>
            Origin(call.url) \in TrustedOrigins(call.ecosystem)

\* What a URL is held against changes only with the configuration.
LEMMA ValidationIsSteady ==
  ASSUME UNCHANGED config
  PROVE  \A e, url : /\ ValidateUrl(e, url)' <=> ValidateUrl(e, url)
                     /\ TrustedOrigins(e)' = TrustedOrigins(e)
BY DEF ValidateUrl, TrustedOrigins, HostIsTrusted, TrustedHosts, ConfiguredUrls

\* A forbidden address is connected to only for an origin that is trusted: a name that is
\* an address was validated as such, and any other was resolved by SafeResolver
\* (artifacts.rs 319-465).
LEMMA ForbiddenNeedsTrust ==
  ASSUME NEW answer, NEW address \in answer, Connect(answer, address), IsForbidden(address),
         ValidateUrl(call.ecosystem, call.url)
  PROVE  Origin(call.url) \in TrustedOrigins(call.ecosystem)
<1>1. CASE call.url.host \in DOMAIN Literal
  BY <1>1 DEF Connect, ValidateUrl
<1>2. CASE call.url.host \notin DOMAIN Literal
  <2>1. HostIsTrusted(call.url.host)
    BY <1>2 DEF Connect, ResolverAccepts
  <2> QED BY <2>1 DEF ValidateUrl
<1> QED BY <1>1, <1>2

\* Every step of a request keeps the decision that its URL was given.
LEMMA EgressStep == EgressInv /\ [EgressNext]_egressVars => EgressInv'
<1> SUFFICES ASSUME EgressInv, [EgressNext]_egressVars PROVE EgressInv'
  OBVIOUS
<1>0. /\ UNCHANGED config
      /\ (call' = Idle \/ call' \in Calls) => Valid(config)'
  BY DEF EgressInv, EgressNext, egressVars, Request, Connect, ConnectFails, Respond, Close,
         Valid, ValidLimits, ValidCache
<1> DEFINE Kept ==
      /\ call' \in Calls
      /\ call'.stage \in {"resolve", "redirected", "connected"} =>
           ValidateUrl(call'.ecosystem, call'.url)
      /\ call'.stage = "refused" => ~ValidateUrl(call'.ecosystem, call'.url)
      /\ call'.stage = "connected" /\ IsForbidden(call'.address) =>
           Origin(call'.url) \in TrustedOrigins(call'.ecosystem)
<1>1. ASSUME call' = Idle \/ Kept PROVE EgressInv'
  BY <1>0, <1>1, ValidationIsSteady DEF EgressInv, Origin, IsForbidden
<1>2. ASSUME NEW mode \in {"deliver", "fetch"}, NEW e \in ProxiedEcosystems, NEW url \in Urls,
             Request(mode, e, url)
      PROVE  Kept
  BY <1>2, EgressConstants DEF Request, Calls, CallStages, Addresses, IsForbidden
<1>3. ASSUME NEW answer \in SUBSET Addresses, NEW address \in answer, Connect(answer, address)
      PROVE  Kept
  <2>1. call \in Calls /\ call # Idle /\ call.stage = "resolve"
    BY <1>3 DEF EgressInv, Connect, Idle
  <2>2. ValidateUrl(call.ecosystem, call.url)
    BY <2>1 DEF EgressInv
  <2>3. IsForbidden(address) => Origin(call.url) \in TrustedOrigins(call.ecosystem)
    BY <1>3, <2>2, ForbiddenNeedsTrust
  <2>4. call' = [call EXCEPT !.stage = "connected", !.address = address]
    BY <1>3 DEF Connect
  <2> QED BY <2>1, <2>2, <2>3, <2>4 DEF Calls, CallStages
<1>4. ASSUME ConnectFails \/ \E status \in {200, 304, 302, 404} : Respond(status)
      PROVE  Kept
  <2>1. call \in Calls
    BY <1>4 DEF EgressInv, ConnectFails, Respond, Idle
  <2>2. PICK to \in {"failed", "answered"} : call' = [call EXCEPT !.stage = to]
    BY <1>4 DEF ConnectFails, Respond, At
  <2> QED BY <2>1, <2>2 DEF Calls, CallStages
<1>5. CASE Close
  BY <1>1, <1>5 DEF Close
<1>6. CASE UNCHANGED egressVars
  BY <1>1, <1>6 DEF egressVars, EgressInv
<1> QED BY <1>1, <1>2, <1>3, <1>4, <1>5, <1>6 DEF EgressNext

\* A URL under a base that Config::validate accepted is never refused (config.rs).
LEMMA ConfiguredIsAccepted ==
  ASSUME EgressInv, NEW e \in ProxiedEcosystems, NEW base \in config.upstreams[e]
  PROVE  ValidateUrl(e, [base EXCEPT !.path = TRUE])
<1> DEFINE url == [base EXCEPT !.path = TRUE]
<1>1. base \in ParsedUrls
  BY EgressConstants DEF EgressInv
<1>2. /\ url.scheme = base.scheme /\ url.host = base.host /\ url.port = base.port
      /\ url.user = base.user /\ url.fragment = base.fragment
  BY <1>1 DEF ParsedUrls
<1>3. HttpScheme(base) /\ ~base.user /\ ~base.fragment
  BY DEF EgressInv, Valid, ValidHttpUrl, BareUrl
<1>4. Origin(base) \in TrustedOrigins(e)
  BY DEF TrustedOrigins
<1>5. Origin(url) = Origin(base) /\ HttpScheme(url)
  BY <1>2, <1>3 DEF Origin, HttpScheme
<1> QED BY <1>2, <1>3, <1>4, <1>5 DEF ValidateUrl

\* Whatever metadata and DNS answer, only an origin of the configuration is connected to at
\* an address that is not public or used over plain HTTP, and none of its URLs is refused,
\* for every configuration that is valid (artifacts.rs 319-465, config.rs).
THEOREM EgressIsConfigured == EgressSpec => []EgressFollowsConfiguration
<1>1. EgressInit => EgressInv
  BY DEF EgressInit, EgressInv
<1>2. EgressInv => EgressFollowsConfiguration
  <2> SUFFICES ASSUME EgressInv, call # Idle
               PROVE  LET trusted == Origin(call.url) \in TrustedOrigins(call.ecosystem)
                      IN /\ call.stage = "connected" /\ IsForbidden(call.address) => trusted
                         /\ call.stage \in {"connected", "redirected"}
                              /\ call.url.scheme = "http" => trusted
                         /\ call.stage = "refused" =>
                              ~\E base \in config.upstreams[call.ecosystem] :
                                 call.url = [base EXCEPT !.path = TRUE]
    BY DEF EgressFollowsConfiguration
  <2>1. call \in Calls
    BY DEF EgressInv
  <2>2. ASSUME call.stage \in {"connected", "redirected"}, call.url.scheme = "http"
        PROVE  Origin(call.url) \in TrustedOrigins(call.ecosystem)
    BY <2>2 DEF EgressInv, ValidateUrl
  <2>3. ASSUME call.stage = "refused", NEW base \in config.upstreams[call.ecosystem],
               call.url = [base EXCEPT !.path = TRUE]
        PROVE  FALSE
    BY <2>1, <2>3, ConfiguredIsAccepted DEF EgressInv, Calls
  <2> QED BY <2>2, <2>3 DEF EgressInv
<1> QED BY <1>1, <1>2, EgressStep, PTL DEF EgressSpec

-----------------------------------------------------------------------------
(* Batches: how results are matched to the artifacts of a listing. *)

\* What was taken from an index is found at the place of the index.
LEMMA TakenFromIndex ==
  ASSUME NEW items, NEW n \in Nat, NEW indices \in SUBSET (1..n), NEW i \in indices
  PROVE  /\ Rank(indices, i) \in DOMAIN AtIndices(items, indices)
         /\ AtIndices(items, indices)[Rank(indices, i)] = items[i]
<1>1. indices \subseteq Nat /\ IsFiniteSet(indices)
  <2>1. IsFiniteSet(1..n)
    BY FS_Interval
  <2>2. IsFiniteSet(indices)
    BY <2>1, FS_Subset, Zenon
  <2> QED BY <2>2
<1>2. /\ Rank(indices, i) \in 1..Cardinality(indices)
      /\ \A k \in indices : Rank(indices, k) = Rank(indices, i) => k = i
  BY <1>1, RankIsPlace
<1>3. (CHOOSE k \in indices : Rank(indices, k) = Rank(indices, i)) = i
  BY <1>2
<1> QED BY <1>2, <1>3 DEF AtIndices, Rank

\* check_many answers for each artifact that is to be checked what its version has, or with
\* an error for all of them (policy.rs, malicious.rs 297-361).
LEMMA BatchAnswer ==
  ASSUME NEW p, NEW occurrences, NEW i \in Indices(p, Artifacts)
  PROVE  LET checked == Checked(p, Artifacts)
             fails == \E k \in DOMAIN checked : RangeFails(occurrences, checked[k].version)
         IN /\ BatchResult(p, Artifacts, CheckMany(occurrences, Versions(checked)), i) =
                 IF fails THEN CheckFailed
                 ELSE Findings(Hits(occurrences, Artifacts[i].version))
            /\ \E k \in DOMAIN checked : checked[k] = Artifacts[i]
<1> DEFINE checked == Checked(p, Artifacts)
           answer == CheckMany(occurrences, Versions(checked))
           place == BatchIndex(p, Artifacts, i)
<1>1. Len(Artifacts) \in Nat /\ Indices(p, Artifacts) \in SUBSET (1..Len(Artifacts))
  BY PolicyConstants DEF Indices
<1>2. place \in DOMAIN checked /\ checked[place] = Artifacts[i]
  BY <1>1, TakenFromIndex DEF Checked, BatchIndex, Rank
<1> HIDE DEF checked, place
<1>3. DOMAIN Versions(checked) = DOMAIN checked
  BY DEF Versions
<1>4. \A k \in DOMAIN checked : Versions(checked)[k] = checked[k].version
  BY DEF Versions
<1>5. /\ answer.ok = \A k \in DOMAIN checked : ~RangeFails(occurrences, checked[k].version)
      /\ DOMAIN answer.results = DOMAIN checked
      /\ answer.results[place] = Hits(occurrences, Artifacts[i].version)
  BY <1>2, <1>3, <1>4 DEF CheckMany
<1> HIDE DEF answer
<1>6. BatchResult(p, Artifacts, answer, i) =
        IF ~answer.ok THEN CheckFailed ELSE Findings(answer.results[place])
  BY <1>5 DEF BatchResult, checked, place
<1> QED BY <1>2, <1>5, <1>6 DEF answer, checked

-----------------------------------------------------------------------------
(* Policy decisions. *)

PolicyInv == policy \in Policies /\ docs \subseteq Advisories /\ time \in Nat

\* Every step keeps the policy, and time does not go back.
LEMMA PolicyStep ==
  PolicyInv /\ [PolicyNext]_policyVars => PolicyInv' /\ policy' = policy /\ time' >= time
BY PolicyConstants DEF PolicyInv, PolicyNext, Publish, Withdraw, TimePasses, policyVars

\* The policies, documents and clock of every reachable state (policy.rs).
THEOREM PolicyInvariant == PolicySpec => []PolicyInv
<1>1. PolicyInit => PolicyInv
  BY DEF PolicyInit, PolicyInv
<1> QED BY <1>1, PolicyStep, PTL DEF PolicySpec

\* An artifact has one decision in the batch of a listing and by itself, unless a range fails
\* the batch, for every package, policy and set of advisories (malicious.rs 297-361).
THEOREM BatchesAgree == PolicySpec => []BatchAgreesWithSingle
<1>1. BatchAgreesWithSingle
  <2> DEFINE checked == Checked(policy, Artifacts)
             occurrences == Stored(docs)
  <2> SUFFICES ASSUME \A k \in DOMAIN checked : ~RangeFails(occurrences, checked[k].version),
                      NEW i \in DOMAIN Artifacts
               PROVE  Listed[i] = Alone(Artifacts[i])
    BY DEF BatchAgreesWithSingle
  <2> DEFINE result == BatchResult(policy, Artifacts,
                                   CheckMany(occurrences, Versions(checked)), i)
  <2>1. Listed[i] = Evaluate(policy, Artifacts[i], time, result)
    BY DEF Listed, ListedAt, EvaluateArtifacts
  <2>2. CASE ShouldCheckOsv(policy, Artifacts[i])
    <3>1. i \in Indices(policy, Artifacts)
      BY <2>2 DEF Indices
    <3>2. /\ result = Findings(Hits(occurrences, Artifacts[i].version))
          /\ \E k \in DOMAIN checked : checked[k] = Artifacts[i]
      BY <3>1, BatchAnswer
    <3>3. result = Check(occurrences, Artifacts[i].version)
      BY <3>2 DEF Check
    <3> QED BY <2>1, <3>3 DEF Alone
  <2>3. CASE ~ShouldCheckOsv(policy, Artifacts[i])
    BY <2>1, <2>3 DEF Alone, Evaluate
  <2> QED BY <2>2, <2>3
<1> QED BY <1>1, PTL

\* What the store says lets a version pass exactly if nothing flags it.
LEMMA PassIsUnflagged ==
  ASSUME NEW a
  PROVE  OsvDecision(policy, Check(Stored(docs), a.version)) = Pass <=> ~Flagged(a)
<1> DEFINE osv == Check(Stored(docs), a.version)
           hits == Hits(Stored(docs), a.version)
           malicious == BlockingMalicious(policy, osv.hits)
           vulnerable == BlockingVulnerabilities(policy, osv.hits)
           faulty == {h \in osv.hits : h.failed}
<1>1. OsvDecision(policy, osv) = Pass <=>
        /\ malicious = {} /\ vulnerable = {}
        /\ policy.onErrorBlock => faulty = {} /\ osv.kind = "found"
  BY DEF OsvDecision, Pass, Allow, Blocked
<1>2. CASE RangeFails(Stored(docs), a.version)
  <2>1. osv.hits = {} /\ osv.kind = "error"
    BY <1>2 DEF Check, CheckFailed
  <2>2. malicious = {} /\ vulnerable = {}
    BY <2>1 DEF BlockingMalicious, BlockingVulnerabilities
  <2> QED BY <1>1, <1>2, <2>1, <2>2 DEF Flagged
<1>3. CASE ~RangeFails(Stored(docs), a.version)
  <2>1. osv.hits = hits /\ osv.kind = "found"
    BY <1>3 DEF Check, Findings
  <2> HIDE DEF hits, osv
  <2>2. Flagged(a) <=>
          \E h \in hits : \/ h.mal /\ policy.blockMalicious
                          \/ h.failed /\ policy.onErrorBlock
                          \/ /\ ~h.mal /\ ~h.failed /\ policy.blockVulnerabilities
                             /\ h.score >= policy.threshold \/ policy.threshold = 0
    BY <1>3 DEF Flagged, hits
  <2>3. malicious = {} <=> ~\E h \in hits : h.mal /\ policy.blockMalicious
    BY <2>1 DEF BlockingMalicious
  <2>4. vulnerable = {} <=>
          ~\E h \in hits : /\ ~h.mal /\ ~h.failed /\ policy.blockVulnerabilities
                           /\ h.score >= policy.threshold \/ policy.threshold = 0
    BY <2>1 DEF BlockingVulnerabilities
  <2>5. faulty = {} <=> ~\E h \in hits : h.failed
    BY <2>1
  <2> HIDE DEF malicious, vulnerable, faulty
  <2> QED BY <1>1, <2>1, <2>2, <2>3, <2>4, <2>5 DEF osv
<1> QED BY <1>2, <1>3

\* Nothing lifts the blocklist, and the entry of an artifact lifts the age gate if it says so.
LEMMA ListsAllow ==
  ASSUME NEW a
  PROVE  ListDecision(policy, a, time).allowed <=>
           /\ ~Blocklisted(policy, a)
           /\ Undatable(a) \/ TooYoung(policy, a, time) => EntryFor(a).bypassAge
BY DEF ListDecision, AgeDecision, Undatable, EntryFor, Allow, Blocked

\* An artifact is allowed exactly if it passes every gate that its own allowlist entry does not
\* lift, for every policy, artifact and set of advisories (policy.rs 124-292).
THEOREM GatesAreLiftedOneByOne == PolicySpec => []EntriesLiftOnlyTheirGates
<1>1. EntriesLiftOnlyTheirGates
  <2> SUFFICES ASSUME NEW i \in DOMAIN Artifacts
               PROVE  LET a == Artifacts[i]
                      IN Alone(a).allowed <=>
                           /\ ~Blocklisted(policy, a)
                           /\ ChecksOsv /\ Flagged(a) => EntryFor(a).bypassOsv
                           /\ Undatable(a) \/ TooYoung(policy, a, time) => EntryFor(a).bypassAge
    BY DEF EntriesLiftOnlyTheirGates
  <2> DEFINE a == Artifacts[i]
             osv == OsvDecision(policy, Check(Stored(docs), a.version))
             lists == ListDecision(policy, a, time)
  <2> HIDE DEF a
  <2>1. ShouldCheckOsv(policy, a) <=> ChecksOsv /\ ~EntryFor(a).bypassOsv
    BY DEF ShouldCheckOsv, ChecksOsv, EntryFor
  <2>2. osv # Pass => ~osv.allowed
    BY DEF OsvDecision, Blocked
  <2>3. Alone(a) = IF ShouldCheckOsv(policy, a) /\ osv # Pass THEN osv ELSE lists
    BY DEF Alone, Evaluate
  <2>4. osv = Pass <=> ~Flagged(a)
    BY PassIsUnflagged
  <2>5. lists.allowed <=>
          /\ ~Blocklisted(policy, a)
          /\ Undatable(a) \/ TooYoung(policy, a, time) => EntryFor(a).bypassAge
    BY ListsAllow
  <2> HIDE DEF osv, lists
  <2>6. CASE ShouldCheckOsv(policy, a) /\ osv # Pass
    BY <2>1, <2>2, <2>3, <2>4, <2>6 DEF a
  <2>7. CASE ~(ShouldCheckOsv(policy, a) /\ osv # Pass)
    BY <2>1, <2>3, <2>4, <2>5, <2>7 DEF a
  <2> QED BY <2>6, <2>7
<1> QED BY <1>1, PTL

\* The first of some instants is none when there is none, and at most each of them.
LEMMA EarliestIsFirst ==
  ASSUME NEW times, times \subseteq Nat \cup {Unknown}, NEW t \in times, t # Unknown
  PROVE  Earliest(times) \in Nat /\ Earliest(times) <= t
<1>1. times \ {Unknown} \subseteq Nat /\ times \ {Unknown} # {}
  OBVIOUS
<1>2. \E x \in times \ {Unknown} : \A y \in times \ {Unknown} : x <= y
  <2>1. \E x \in times \ {Unknown} : \A y \in times \ {Unknown} : ~(y < x)
    BY <1>1, LeastMember
  <2> QED BY <1>1, <2>1
<1> QED BY <1>1, <1>2 DEF Earliest

\* A decision of the age gate does not change before the instant that it names, and one
\* that names none does not change (policy.rs).
LEMMA DecisionHolds ==
  ASSUME NEW p \in Policies, NEW a, a.published \in Nat \cup {Unknown}, NEW osv,
         NEW t \in Nat, NEW u \in Nat, t <= u,
         LET until == ValidUntil(Evaluate(p, a, t, osv)) IN until = Unknown \/ u < until
  PROVE  Evaluate(p, a, u, osv) = Evaluate(p, a, t, osv)
<1> DEFINE byOsv == IF ShouldCheckOsv(p, a) THEN OsvDecision(p, osv) ELSE Pass
<1>1. CASE byOsv # Pass
  BY <1>1 DEF Evaluate
<1>2. CASE byOsv = Pass
  <2>1. \A w : Evaluate(p, a, w, osv) = ListDecision(p, a, w)
    BY <1>2 DEF Evaluate
  <2>2. CASE Blocklisted(p, a) \/ FindAllowlistEntry(p, a).bypassAge
    BY <2>1, <2>2 DEF ListDecision
  <2>3. CASE ~(Blocklisted(p, a) \/ FindAllowlistEntry(p, a).bypassAge)
    <3>1. \A w : Evaluate(p, a, w, osv) = AgeDecision(p, a, w)
      BY <2>1, <2>3 DEF ListDecision
    <3>2. TooYoung(p, a, u) <=> TooYoung(p, a, t)
      <4>1. CASE TooYoung(p, a, t)
        <5>1. EligibleAt(p, a) \in Nat
          BY <4>1, PolicyConstants DEF TooYoung, EligibleAt
        <5>2. ValidUntil(Evaluate(p, a, t, osv)) = EligibleAt(p, a)
          BY <3>1, <4>1 DEF AgeDecision, ValidUntil, Blocked
        <5> QED BY <4>1, <5>1, <5>2 DEF TooYoung, Unknown
      <4>2. CASE ~TooYoung(p, a, t)
        BY <4>2, PolicyConstants DEF TooYoung, EligibleAt
      <4> QED BY <4>1, <4>2
    <3> QED BY <3>1, <3>2 DEF AgeDecision
  <2> QED BY <2>2, <2>3
<1> QED BY <1>1, <1>2

\* Every decision names an instant or none.
LEMMA ValidUntilType ==
  ASSUME NEW p \in Policies, NEW a, a.published \in Nat \cup {Unknown}, NEW osv, NEW t
  PROVE  ValidUntil(Evaluate(p, a, t, osv)) \in Nat \cup {Unknown}
<1>1. OsvDecision(p, osv).eligible = Unknown
  BY DEF OsvDecision, Blocked, Pass, Allow
<1>2. TooYoung(p, a, t) => EligibleAt(p, a) \in Nat
  BY PolicyConstants DEF TooYoung, EligibleAt
<1> QED
  BY <1>1, <1>2 DEF ValidUntil, Evaluate, ListDecision, AgeDecision, Blocked, Allow

\* A cached listing is right until the instant that its metadata names, for every listing
\* (policy.rs 11-58).
THEOREM DecisionsHold == PolicySpec => DecisionHoldsUntilValid
<1>1. PolicyInv /\ [PolicyNext]_policyVars => [HoldsUntilValid]_policyVars
  <2> SUFFICES ASSUME PolicyInv, [PolicyNext]_policyVars, docs' = docs,
                      ListedUntil = Unknown \/ time' < ListedUntil
               PROVE  ListedAt(docs', time') = Listed
    BY DEF HoldsUntilValid
  <2> DEFINE answer == CheckMany(Stored(docs), Versions(Checked(policy, Artifacts)))
             osv(i) == BatchResult(policy, Artifacts, answer, i)
  <2>1. policy' = policy /\ time' >= time /\ time' \in Nat /\ time \in Nat
    BY PolicyStep DEF PolicyInv
  <2>2. /\ Listed = [i \in DOMAIN Artifacts |-> Evaluate(policy, Artifacts[i], time, osv(i))]
        /\ ListedAt(docs, time') =
             [i \in DOMAIN Artifacts |-> Evaluate(policy, Artifacts[i], time', osv(i))]
    BY DEF Listed, ListedAt, EvaluateArtifacts
  <2> HIDE DEF osv
  <2> DEFINE times == {ValidUntil(decision) : decision \in Range(Listed)}
  <2>3. \A i \in DOMAIN Artifacts : ValidUntil(Listed[i]) \in times
    BY <2>2 DEF Range
  <2>4. times \subseteq Nat \cup {Unknown}
    BY <2>2, ValidUntilType, PolicyConstants DEF Range, PolicyInv
  <2>5. ASSUME NEW i \in DOMAIN Artifacts
        PROVE  Evaluate(policy, Artifacts[i], time', osv(i)) =
                 Evaluate(policy, Artifacts[i], time, osv(i))
    <3> DEFINE until == ValidUntil(Evaluate(policy, Artifacts[i], time, osv(i)))
    <3>1. until \in times
      BY <2>2, <2>3
    <3>2. until = Unknown \/ time' < until
      <4>1. CASE until # Unknown
        <5>1. Earliest(times) \in Nat /\ Earliest(times) <= until /\ until \in Nat
          BY <2>4, <3>1, <4>1, EarliestIsFirst
        <5> QED BY <2>1, <5>1 DEF ListedUntil, Unknown
      <4> QED BY <4>1
    <3>3. policy \in Policies /\ Artifacts[i].published \in Nat \cup {Unknown}
      BY PolicyConstants DEF PolicyInv
    <3> QED BY <2>1, <3>2, <3>3, DecisionHolds
  <2>6. ListedAt(docs', time') = ListedAt(docs, time')
    BY <2>1 DEF ListedAt
  <2> QED BY <2>2, <2>5, <2>6
<1> QED BY <1>1, PolicyInvariant, PTL DEF PolicySpec, DecisionHoldsUntilValid

-----------------------------------------------------------------------------
(* More advisories. *)

\* A stored finding: its score is a number, and at most what CVSS allows.
FindingShape(f) == f.score \in -1..10

\* replace_advisory stores scores in their range (malicious.rs).
LEMMA StoredShape ==
  ASSUME NEW published \in SUBSET Advisories
  PROVE  \A o \in Stored(published) : FindingShape(o.finding)
<1> SUFFICES ASSUME NEW doc \in published, NEW o \in Occurrences(doc)
             PROVE  FindingShape(o.finding)
  BY DEF Stored
<1>1. PICK entry \in Range(doc.affected) : o.finding.score = StoredScore(doc, entry)
  BY DEF Occurrences
<1>2. entry.severity \in Malformed..10
  BY <1>1, PolicyConstants DEF Range
<1> QED BY <1>1, <1>2 DEF FindingShape, StoredScore, Unknown, Malformed

\* What matches a version in a store still matches in one with more advisories, and so does
\* a range that fails.
LEMMA MatchingGrows ==
  ASSUME NEW old, NEW new, old \subseteq new, NEW v
  PROVE  /\ ExactHits(old, v) \cup RangeHits(old, v) \subseteq
              ExactHits(new, v) \cup RangeHits(new, v)
         /\ RangeFails(old, v) => RangeFails(new, v)
BY DEF ExactHits, RangeHits, RangeFails

\* consolidate_local_findings: over more findings, each advisory found before is found with
\* a score that is no lower, and with its error (malicious.rs).
LEMMA ConsolidatedGrows ==
  ASSUME NEW old, NEW new, old \subseteq new, \A f \in new : FindingShape(f),
         NEW h \in Consolidated(old)
  PROVE  \E g \in Consolidated(new) :
           /\ g.mal = h.mal /\ (h.failed => g.failed)
           /\ g.score \in Int /\ h.score \in Int /\ h.score <= g.score
<1> DEFINE scores(findings, f) == {g.score : g \in {x \in findings : x.id = f.id}}
           best(findings, f) ==
             CHOOSE s \in scores(findings, f) : \A t \in scores(findings, f) : t <= s
           broken(findings, f) == \E g \in findings : g.id = f.id /\ g.failed
           merged(findings, f) == [id |-> f.id, mal |-> f.mal, score |-> best(findings, f),
                                   failed |-> broken(findings, f)]
<1>1. PICK f \in old : h = merged(old, f)
  BY DEF Consolidated
<1>2. merged(new, f) \in Consolidated(new)
  BY <1>1 DEF Consolidated
<1>3. /\ scores(old, f) \subseteq scores(new, f) /\ scores(new, f) \subseteq -1..10
      /\ scores(old, f) # {}
  BY <1>1 DEF FindingShape
<1>4. /\ best(old, f) \in scores(old, f)
      /\ best(new, f) \in scores(new, f) /\ \A t \in scores(new, f) : t <= best(new, f)
  <2> HIDE DEF scores
  <2>0. -1 \in Int /\ 10 \in Int
    OBVIOUS
  <2>1. \E s \in scores(old, f) : \A t \in scores(old, f) : t <= s
    BY <1>3, <2>0, GreatestMember
  <2>2. \E s \in scores(new, f) : \A t \in scores(new, f) : t <= s
    BY <1>3, <2>0, GreatestMember
  <2> QED BY <2>1, <2>2
<1>5. best(old, f) \in Int /\ best(new, f) \in Int /\ best(old, f) <= best(new, f)
  <2>1. best(old, f) \in -1..10 /\ best(new, f) \in -1..10
    <3> HIDE DEF scores, best
    <3> QED BY <1>3, <1>4
  <2>2. best(old, f) <= best(new, f)
    <3> HIDE DEF scores, best
    <3> QED BY <1>3, <1>4
  <2> HIDE DEF scores, best
  <2> QED BY <2>1, <2>2
<1>6. broken(old, f) => broken(new, f)
  OBVIOUS
<1> HIDE DEF scores, best, broken
<1> QED BY <1>1, <1>2, <1>5, <1>6

\* The findings of a version let it pass only if none is malicious, vulnerable or in error.
LEMMA PassNeedsCleanFindings ==
  ASSUME NEW p, NEW osv, p.onErrorBlock
  PROVE  OsvDecision(p, osv) = Pass <=>
           /\ osv.kind = "found"
           /\ BlockingMalicious(p, osv.hits) = {} /\ BlockingVulnerabilities(p, osv.hits) = {}
           /\ {h \in osv.hits : h.failed} = {}
BY DEF OsvDecision, Pass, Allow, Blocked

\* Findings that let a version pass do so with fewer of them.
LEMMA PassShrinks ==
  ASSUME NEW p \in Policies, p.onErrorBlock, NEW old, NEW new,
         OsvDecision(p, Findings(new)) = Pass,
         \A h \in old : \E g \in new :
           /\ g.mal = h.mal /\ (h.failed => g.failed)
           /\ g.score \in Int /\ h.score \in Int /\ h.score <= g.score
  PROVE  OsvDecision(p, Findings(old)) = Pass
<1>1. /\ BlockingMalicious(p, new) = {} /\ BlockingVulnerabilities(p, new) = {}
      /\ {h \in new : h.failed} = {}
  BY PassNeedsCleanFindings DEF Findings
<1>2. ASSUME NEW h \in old
      PROVE  /\ ~h.failed /\ h \notin BlockingMalicious(p, old)
             /\ h \notin BlockingVulnerabilities(p, old)
  <2>1. PICK g \in new :
          /\ g.mal = h.mal /\ (h.failed => g.failed)
          /\ g.score \in Int /\ h.score \in Int /\ h.score <= g.score
    OBVIOUS
  <2>2. ~g.failed /\ g \notin BlockingMalicious(p, new) /\ g \notin BlockingVulnerabilities(p, new)
    BY <1>1
  <2>3. p.threshold \in Int
    BY PolicyConstants
  <2> QED BY <2>1, <2>2, <2>3 DEF BlockingMalicious, BlockingVulnerabilities
<1>3. /\ BlockingMalicious(p, old) \subseteq old /\ BlockingVulnerabilities(p, old) \subseteq old
  BY DEF BlockingMalicious, BlockingVulnerabilities
<1>4. /\ BlockingMalicious(p, old) = {} /\ BlockingVulnerabilities(p, old) = {}
      /\ {h \in old : h.failed} = {}
  BY <1>2, <1>3
<1> QED BY <1>4, PassNeedsCleanFindings DEF Findings

\* An artifact that the store lets pass is decided by the lists and the age gate alone, and
\* one that it does not is blocked.
LEMMA AllowedPasses ==
  ASSUME NEW p, NEW a, NEW t, NEW osv, ShouldCheckOsv(p, a)
  PROVE  /\ OsvDecision(p, osv) = Pass => Evaluate(p, a, t, osv) = ListDecision(p, a, t)
         /\ Evaluate(p, a, t, osv).allowed => OsvDecision(p, osv) = Pass
BY DEF Evaluate, OsvDecision, Blocked

\* With on_error = block, no advisory that is added turns "blocked" into "allowed", for
\* every listing, policy and advisory (policy.rs 124-292).
THEOREM PublishingNeverUnblocks == PolicySpec => PublishNeverUnblocks
<1>1. PolicyInv /\ PolicyInv' /\ [PolicyNext]_policyVars => [NeverUnblocks]_policyVars
  <2> SUFFICES ASSUME PolicyInv, PolicyInv', [PolicyNext]_policyVars, policy.onErrorBlock,
                      docs \subseteq docs', time' = time, NEW i \in DOMAIN Artifacts,
                      ListedAt(docs', time')[i].allowed
               PROVE  Listed[i].allowed
    BY DEF NeverUnblocks
  <2> DEFINE a == Artifacts[i]
             checked == Checked(policy, Artifacts)
             osv(published) == BatchResult(policy, Artifacts,
                                 CheckMany(Stored(published), Versions(checked)), i)
             hits(published) == Hits(Stored(published), a.version)
  <2>1. policy' = policy /\ policy \in Policies
    BY PolicyStep DEF PolicyInv
  <2>2. /\ Listed[i] = Evaluate(policy, a, time, osv(docs))
        /\ ListedAt(docs', time')[i] = Evaluate(policy, a, time, osv(docs'))
    BY DEF Listed, ListedAt, EvaluateArtifacts
  <2>3. CASE ~ShouldCheckOsv(policy, a)
    BY <2>2, <2>3 DEF Evaluate
  <2>4. CASE ShouldCheckOsv(policy, a)
    <3>1. i \in Indices(policy, Artifacts)
      BY <2>4 DEF Indices
    <3>2. \A published :
            osv(published) = IF \E k \in DOMAIN checked :
                                  RangeFails(Stored(published), checked[k].version)
                             THEN CheckFailed ELSE Findings(hits(published))
      BY <3>1, BatchAnswer
    <3>3. OsvDecision(policy, osv(docs')) = Pass
      BY <2>2, <2>4, AllowedPasses
    <3>4. osv(docs').kind = "found"
      BY <3>3, PassNeedsCleanFindings
    <3>5. Stored(docs) \subseteq Stored(docs')
      BY DEF Stored
    <3>6. osv(docs') = Findings(hits(docs')) /\ osv(docs) = Findings(hits(docs))
      <4> HIDE DEF osv, hits, checked
      <4>1. \A k \in DOMAIN checked : ~RangeFails(Stored(docs'), checked[k].version)
        BY <3>2, <3>4 DEF CheckFailed
      <4>2. \A k \in DOMAIN checked : ~RangeFails(Stored(docs), checked[k].version)
        BY <3>5, <4>1, MatchingGrows
      <4> QED BY <3>2, <4>1, <4>2
    <3>7. \A f \in ExactHits(Stored(docs'), a.version) \cup RangeHits(Stored(docs'), a.version) :
            FindingShape(f)
      <4>1. \A o \in Stored(docs') : FindingShape(o.finding)
        BY StoredShape DEF PolicyInv
      <4> QED BY <4>1 DEF ExactHits, RangeHits
    <3>8. \A h \in hits(docs) : \E g \in hits(docs') :
            /\ g.mal = h.mal /\ (h.failed => g.failed)
            /\ g.score \in Int /\ h.score \in Int /\ h.score <= g.score
      BY <3>5, <3>7, MatchingGrows, ConsolidatedGrows DEF Hits
    <3>9. OsvDecision(policy, osv(docs)) = Pass
      BY <2>1, <3>3, <3>6, <3>8, PassShrinks
    <3> QED BY <2>2, <2>4, <3>3, <3>9, AllowedPasses
  <2> QED BY <2>3, <2>4
<1> QED BY <1>1, PolicyInvariant, PTL DEF PolicySpec, PublishNeverUnblocks

-----------------------------------------------------------------------------
(* Ranges: the fold over their events says "inside" within their intervals, for any number
   of events that are in the order of their versions and alternate, and every version. *)

Verdicts == {Outside, Inside, Undecided}

\* The fold of evaluate_range_events, as the function that its recursive definition says.
Folds(f, v, es) ==
  f = [n \in 0..Len(es) |-> IF n = 0 THEN Outside ELSE AfterEvent(v, f[n - 1], es[n])]

\* The recursive definition of the fold has a solution, and the verdict is its last value.
LEMMA FoldExists ==
  ASSUME NEW v, NEW es, Len(es) \in Nat
  PROVE  \E f : Folds(f, v, es) /\ EvaluateRangeEvents(v, es) = f[Len(es)]
<1> DEFINE step == [s \in Nat \X Verdicts |-> <<s[1] + 1, AfterEvent(v, s[2], es[s[1] + 1])>>]
<1>1. ASSUME NEW verdict \in Verdicts, NEW e PROVE AfterEvent(v, verdict, e) \in Verdicts
  BY DEF AfterEvent, Verdicts, Outside, Inside, Undecided
<1>2. <<0, Outside>> \in Nat \X Verdicts /\ step \in [Nat \X Verdicts -> Nat \X Verdicts]
  BY <1>1 DEF Verdicts
<1>3. PICK g \in [Nat -> Nat \X Verdicts] : Iterates(g, <<0, Outside>>, step)
  <2> HIDE DEF step
  <2> QED BY <1>2, PrimitiveRecursion
<1> DEFINE S == {n \in Nat : g[n][1] = n}
<1>4. /\ g[0] = <<0, Outside>>
      /\ \A n \in Nat : g[n + 1] = <<g[n][1] + 1, AfterEvent(v, g[n][2], es[g[n][1] + 1])>>
  <2>1. ASSUME NEW n \in Nat
        PROVE  g[n + 1] = <<g[n][1] + 1, AfterEvent(v, g[n][2], es[g[n][1] + 1])>>
    <3>1. g[n] \in Nat \X Verdicts /\ g[n + 1] = step[g[n]]
      BY <1>3 DEF Iterates
    <3> QED BY <3>1
  <2> QED BY <1>3, <2>1 DEF Iterates
<1>5. Nat \subseteq S
  <2>1. 0 \in S /\ \A n \in Nat : n \in S => n + 1 \in S
    BY <1>4
  <2> HIDE DEF S
  <2> QED BY <2>1, SetInduction
<1>6. g[0] = <<0, Outside>> /\ \A n \in Nat : g[n + 1][2] = AfterEvent(v, g[n][2], es[n + 1])
  <2>1. \A n \in Nat : g[n][1] = n
    BY <1>5
  <2>2. ASSUME NEW n \in Nat PROVE g[n + 1][2] = AfterEvent(v, g[n][2], es[n + 1])
    <3>1. g[n][1] = n /\ g[n + 1] = <<g[n][1] + 1, AfterEvent(v, g[n][2], es[g[n][1] + 1])>>
      BY <1>4, <2>1
    <3> QED BY <3>1
  <2> QED BY <1>4, <2>2
<1> DEFINE f == [n \in 0..Len(es) |-> g[n][2]]
<1>7. ASSUME NEW n \in 0..Len(es)
      PROVE  f[n] = IF n = 0 THEN Outside ELSE AfterEvent(v, f[n - 1], es[n])
  <2>1. CASE n = 0
    BY <1>6, <2>1
  <2>2. CASE n # 0
    <3>1. n - 1 \in Nat /\ n - 1 \in 0..Len(es) /\ (n - 1) + 1 = n
      BY <2>2
    <3> QED BY <1>6, <2>2, <3>1
  <2> QED BY <2>1, <2>2
<1>8. Folds(f, v, es)
  BY <1>7 DEF Folds
<1> DEFINE after == CHOOSE h : Folds(h, v, es)
<1>9. EvaluateRangeEvents(v, es) = after[Len(es)]
  BY DEF EvaluateRangeEvents, Folds
<1>10. Folds(after, v, es)
  <2> HIDE DEF Folds, f
  <2> QED BY <1>8
<1> QED BY <1>9, <1>10

\* Introductions and ends alternate, in the order of their versions.
Alternate(es) ==
  /\ es \in Seq([type : EventTypes, version : Nat])
  /\ \A i \in DOMAIN es : i > 1 =>
       /\ es[i - 1].version < es[i].version
       /\ es[i - 1].type # "introduced" <=> es[i].type = "introduced"
  /\ es # <<>> => es[1].type = "introduced"

RangeInv == Alternate(events)

\* Every event that is read keeps the events in order.
LEMMA RangeStep == RangeInv /\ [RangeNext]_events => RangeInv'
<1> SUFFICES ASSUME RangeInv, [RangeNext]_events PROVE RangeInv'
  OBVIOUS
<1>1. CASE ReadEvent
  <2>1. PICK type \in EventTypes, v \in Boundaries :
          /\ events # <<>> => v > Last(events).version
          /\ (events = <<>> \/ Last(events).type # "introduced") <=> type = "introduced"
          /\ events' = Append(events, RangeEvent(type, v))
    BY <1>1 DEF ReadEvent
  <2>2. /\ events \in Seq([type : EventTypes, version : Nat]) /\ v \in Nat
        /\ RangeEvent(type, v) \in [type : EventTypes, version : Nat]
    BY RangeConstants DEF RangeInv, Alternate, RangeEvent
  <2>3. /\ events' \in Seq([type : EventTypes, version : Nat]) /\ Len(events) \in Nat
        /\ DOMAIN events = 1..Len(events) /\ DOMAIN events' = 1..Len(events) + 1
        /\ events'[Len(events) + 1] = RangeEvent(type, v)
        /\ \A i \in 1..Len(events) : events'[i] = events[i]
    BY <2>1, <2>2
  <2>4. /\ RangeEvent(type, v).version = v /\ RangeEvent(type, v).type = type
        /\ events = <<>> <=> Len(events) = 0
    BY <2>2 DEF RangeEvent
  <2>5. ASSUME NEW i \in DOMAIN events', i > 1
        PROVE  /\ events'[i - 1].version < events'[i].version
               /\ events'[i - 1].type # "introduced" <=> events'[i].type = "introduced"
    <3>1. CASE i <= Len(events)
      <4>1. i \in DOMAIN events /\ i - 1 \in 1..Len(events)
        BY <2>3, <2>5, <3>1
      <4> QED BY <2>3, <2>5, <4>1 DEF RangeInv, Alternate
    <3>2. CASE i = Len(events) + 1
      <4>1. Len(events) > 0 /\ i - 1 = Len(events) /\ Len(events) \in 1..Len(events)
        BY <2>3, <2>5, <3>2
      <4>2. events[Len(events)] \in [type : EventTypes, version : Nat]
        BY <2>2, <4>1, ElementOfSeq
      <4>3. events'[i - 1] = Last(events) /\ events # <<>> /\ Last(events).version \in Nat
        BY <2>3, <4>1, <4>2 DEF Last
      <4> QED BY <2>1, <2>2, <2>3, <2>4, <3>2, <4>3
    <3> QED BY <2>3, <3>1, <3>2
  <2>6. events'[1].type = "introduced"
    <3>1. CASE events = <<>>
      BY <2>1, <2>3, <2>4, <3>1
    <3>2. CASE events # <<>>
      <4>1. 1 \in 1..Len(events)
        BY <2>3, <2>4, <3>2
      <4> QED BY <2>3, <3>2, <4>1 DEF RangeInv, Alternate
    <3> QED BY <3>1, <3>2
  <2> QED BY <2>3, <2>5, <2>6 DEF RangeInv, Alternate
<1>2. CASE ReadAnother
  BY <1>2 DEF ReadAnother, RangeInv, Alternate
<1>3. CASE UNCHANGED events
  BY <1>3 DEF RangeInv
<1> QED BY <1>1, <1>2, <1>3 DEF RangeNext

\* Affected by the first n events: from an introduction among them until the next of them.
Within(v, es, n, i) ==
  /\ es[i].type = "introduced" /\ es[i].version <= v
  /\ i < n => IF es[i + 1].type = "last_affected" THEN v <= es[i + 1].version
              ELSE v < es[i + 1].version

\* One more event ends what it should, and nothing else (malicious.rs 2333-2358).
LEMMA NextVerdict ==
  ASSUME NEW v \in Nat, NEW es, Alternate(es), NEW n \in Nat, n + 1 \in DOMAIN es,
         NEW verdict \in {Outside, Inside},
         verdict = Inside <=> \E i \in 1..n : Within(v, es, n, i)
  PROVE  /\ AfterEvent(v, verdict, es[n + 1]) \in {Outside, Inside}
         /\ AfterEvent(v, verdict, es[n + 1]) = Inside
              <=> \E i \in 1..n + 1 : Within(v, es, n + 1, i)
<1> DEFINE e == es[n + 1]
           next == AfterEvent(v, verdict, e)
<1>1. /\ es \in Seq([type : EventTypes, version : Nat]) /\ DOMAIN es = 1..Len(es)
      /\ Len(es) \in Nat /\ n + 1 <= Len(es)
      /\ \A i \in 1..n + 1 : es[i] \in [type : EventTypes, version : Nat]
  <2>1. es \in Seq([type : EventTypes, version : Nat])
    BY DEF Alternate
  <2>2. DOMAIN es = 1..Len(es) /\ Len(es) \in Nat /\ n + 1 <= Len(es)
    BY <2>1
  <2>3. \A i \in 1..n + 1 : i \in 1..Len(es)
    BY <2>2
  <2> QED BY <2>1, <2>2, <2>3, ElementOfSeq
<1>2. e.version \in Nat /\ e.type \in EventTypes /\ e.version # Unparsable
  BY <1>1 DEF Unparsable
<1>3. \A i \in 1..n : /\ es[i].version < es[i + 1].version
                      /\ es[i].type # "introduced" <=> es[i + 1].type = "introduced"
  <2> SUFFICES ASSUME NEW i \in 1..n
               PROVE  /\ es[i].version < es[i + 1].version
                      /\ es[i].type # "introduced" <=> es[i + 1].type = "introduced"
    OBVIOUS
  <2>1. i + 1 \in DOMAIN es /\ i + 1 > 1 /\ (i + 1) - 1 = i
    BY <1>1
  <2> QED BY <2>1 DEF Alternate
<1>4. n = 0 => e.type = "introduced"
  BY <1>1 DEF Alternate
<1>5. \A i \in 1..n : es[i + 1].version <= e.version
  <2> DEFINE S == {k \in Nat : \A i \in 1..n : i + 1 + k <= n + 1 => es[i + 1].version <= es[i + 1 + k].version}
  <2>1. 0 \in S
    BY <1>1
  <2>2. ASSUME NEW k \in Nat, k \in S PROVE k + 1 \in S
    <3>1. ASSUME NEW i \in 1..n, i + 1 + (k + 1) <= n + 1
          PROVE  es[i + 1].version <= es[i + 1 + (k + 1)].version
      <4>0. n \in Nat /\ i \in Nat
        BY <1>1
      <4>1. es[i + 1].version <= es[i + 1 + k].version
        <5>1. i + 1 + k <= n + 1
          BY <3>1, <4>0
        <5>2. \A j \in 1..n : j + 1 + k <= n + 1 => es[j + 1].version <= es[j + 1 + k].version
          BY <2>2
        <5> HIDE DEF S
        <5> QED BY <5>1, <5>2
      <4>2. i + 1 + k \in 1..n /\ i + 1 + (k + 1) = (i + 1 + k) + 1
        BY <3>1, <4>0
      <4>3. es[i + 1 + k].version < es[(i + 1 + k) + 1].version
        BY <1>3, <4>2
      <4>4. i + 1 \in 1..n + 1 /\ i + 1 + k \in 1..n + 1 /\ (i + 1 + k) + 1 \in 1..n + 1
        BY <4>2
      <4>5. /\ es[i + 1].version \in Nat /\ es[i + 1 + k].version \in Nat
            /\ es[(i + 1 + k) + 1].version \in Nat
        BY <1>1, <4>4
      <4> QED BY <4>1, <4>2, <4>3, <4>5
    <3>2. k + 1 \in Nat
      OBVIOUS
    <3> QED BY <3>1, <3>2
  <2>3. Nat \subseteq S
    <3> HIDE DEF S
    <3> QED BY <2>1, <2>2, SetInduction
  <2> SUFFICES ASSUME NEW i \in 1..n PROVE es[i + 1].version <= e.version
    OBVIOUS
  <2>4. n - i \in Nat /\ i + 1 + (n - i) = n + 1
    OBVIOUS
  <2> QED BY <2>3, <2>4
<1>6. \A i \in 1..n : i < n => (Within(v, es, n + 1, i) <=> Within(v, es, n, i))
  BY DEF Within
<1>7. CASE e.type = "introduced"
  <2>1. next = IF v >= e.version THEN Inside ELSE verdict
    BY <1>2, <1>7 DEF AfterEvent, AtLeast, Outside, Inside, Undecided
  <2>2. Within(v, es, n + 1, n + 1) <=> e.version <= v
    BY <1>7 DEF Within
  <2>3. ASSUME n > 0 PROVE ~Within(v, es, n, n) /\ ~Within(v, es, n + 1, n)
    BY <1>3, <1>7, <2>3 DEF Within
  <2>4. \A i \in 1..n : Within(v, es, n + 1, i) <=> Within(v, es, n, i)
    BY <1>6, <2>3
  <2>5. \A i \in 1..n + 1 : i \in 1..n \/ i = n + 1
    OBVIOUS
  <2>6. n + 1 \in 1..n + 1 /\ 1..n \subseteq 1..n + 1
    OBVIOUS
  <2> HIDE DEF e, next
  <2>7. ASSUME v >= e.version
        PROVE  next = Inside /\ \E i \in 1..n + 1 : Within(v, es, n + 1, i)
    BY <1>2, <2>1, <2>2, <2>6, <2>7
  <2>8. ASSUME ~(v >= e.version)
        PROVE  /\ next = verdict
               /\ (\E i \in 1..n : Within(v, es, n, i))
                    <=> \E i \in 1..n + 1 : Within(v, es, n + 1, i)
    BY <1>2, <2>1, <2>2, <2>4, <2>5, <2>6, <2>8
  <2>9. /\ next \in {Outside, Inside}
        /\ next = Inside <=> \E i \in 1..n + 1 : Within(v, es, n + 1, i)
    BY <2>7, <2>8
  <2> QED BY <2>9 DEF next, e
<1>8. CASE e.type # "introduced"
  <2> DEFINE ends == IF e.type = "last_affected" THEN v > e.version ELSE v >= e.version
  <2>1. next = IF verdict = Outside THEN Outside ELSE IF ends THEN Outside ELSE Inside
    BY <1>2, <1>8 DEF AfterEvent, AtLeast, Above, Outside, Inside, Undecided, EventTypes
  <2>2. n \in 1..n /\ ~Within(v, es, n + 1, n + 1)
    BY <1>4, <1>8 DEF Within
  <2>3. Within(v, es, n + 1, n) <=> Within(v, es, n, n) /\ ~ends
    BY <1>2, <2>2 DEF Within
  <2>4. ASSUME NEW i \in 1..n, i < n, Within(v, es, n, i) PROVE ~ends
    <3>0. i + 1 \in 1..n + 1
      <4>1. n \in Nat /\ i \in 1..n
        OBVIOUS
      <4> QED BY ONLY <4>1
    <3>1. v <= es[i + 1].version /\ es[i + 1].version \in Nat
      <4>1. es[i + 1].version \in Nat
        BY <1>1, <3>0
      <4>2. IF es[i + 1].type = "last_affected" THEN v <= es[i + 1].version
                                                ELSE v < es[i + 1].version
        BY <2>4 DEF Within
      <4>3. v \in Nat
        OBVIOUS
      <4> QED BY <4>1, <4>2, <4>3
    <3>2. i + 1 \in 1..n
      <4>1. n \in Nat /\ i \in 1..n /\ i < n
        BY <2>4
      <4> QED BY ONLY <4>1
    <3>3. es[i + 1].version < e.version
      <4>1. CASE i + 1 = n
        BY <1>3, <2>2, <4>1
      <4>2. CASE i + 1 < n
        <5>1. es[i + 1].version < es[(i + 1) + 1].version /\ es[(i + 1) + 1].version <= e.version
          BY <1>3, <1>5, <3>2
        <5>2. es[(i + 1) + 1].version \in Nat
          <6>1. (i + 1) + 1 \in 1..n + 1
            BY <3>2
          <6> QED BY <1>1, <6>1
        <5> QED BY <1>2, <3>1, <5>1, <5>2
      <4> QED BY <3>2, <4>1, <4>2
    <3> QED BY <1>2, <3>1, <3>3
  <2>5. \A i \in 1..n + 1 : i = n + 1 \/ i = n \/ (i \in 1..n /\ i < n)
    OBVIOUS
  <2>6. 1..n \subseteq 1..n + 1
    OBVIOUS
  <2> HIDE DEF e, next, ends
  <2>7. (\E i \in 1..n + 1 : Within(v, es, n + 1, i)) <=> verdict = Inside /\ ~ends
    <3>1. ASSUME NEW i \in 1..n + 1, Within(v, es, n + 1, i) PROVE verdict = Inside /\ ~ends
      BY <1>6, <2>2, <2>3, <2>4, <2>5, <3>1
    <3>2. ASSUME verdict = Inside, ~ends PROVE \E i \in 1..n + 1 : Within(v, es, n + 1, i)
      <4>1. PICK i \in 1..n : Within(v, es, n, i)
        BY <3>2
      <4>2. Within(v, es, n + 1, i)
        BY <1>6, <2>3, <2>5, <2>6, <3>2, <4>1
      <4> QED BY <2>6, <4>2
    <3> QED BY <3>1, <3>2
  <2>8. Outside # Inside
    BY DEF Outside, Inside
  <2>9. next \in {Outside, Inside} /\ (next = Inside <=> verdict = Inside /\ ~ends)
    BY <2>1, <2>8
  <2> QED BY <2>7, <2>9 DEF next, e
<1> QED BY <1>7, <1>8

\* Of a range whose events are in the order of their versions, and alternate, the fold over
\* any number of events answers for every version whether an introduction is at or before it
\* and what follows has not ended it (evaluate_range_events, malicious.rs 2325-2360).
THEOREM VerdictsAreIntervals == RangeSpec => []RangeVerdictIsReference
<1>1. RangeInit => RangeInv
  BY DEF RangeInit, RangeInv, Alternate
<1>2. RangeInv => RangeVerdictIsReference
  <2> SUFFICES ASSUME RangeInv, NEW v \in RangeVersions
               PROVE  (EvaluateRangeEvents(v, events) = Inside)
                        <=> \E i \in DOMAIN events : Interval(v, i)
    BY DEF RangeVerdictIsReference
  <2>1. /\ v \in Nat /\ Len(events) \in Nat /\ DOMAIN events = 1..Len(events)
        /\ Alternate(events)
    BY RangeConstants DEF RangeInv, Alternate
  <2>2. PICK f : Folds(f, v, events) /\ EvaluateRangeEvents(v, events) = f[Len(events)]
    BY <2>1, FoldExists
  <2> DEFINE Right(n) == /\ f[n] \in {Outside, Inside}
                         /\ f[n] = Inside <=> \E i \in 1..n : Within(v, events, n, i)
             S == {n \in Nat : n <= Len(events) => Right(n)}
  <2>3. 0 \in S
    <3>1. f[0] = Outside
      BY <2>1, <2>2 DEF Folds
    <3>2. 1..0 = {} /\ Outside # Inside
      BY DEF Outside, Inside
    <3> QED BY <3>1, <3>2
  <2>4. ASSUME NEW n \in Nat, n \in S PROVE n + 1 \in S
    <3> SUFFICES ASSUME n + 1 <= Len(events) PROVE Right(n + 1)
      OBVIOUS
    <3>1. Right(n) /\ n + 1 \in DOMAIN events
      BY <2>1, <2>4
    <3>2. f[n + 1] = AfterEvent(v, f[n], events[n + 1])
      <4>1. n + 1 \in 0..Len(events) /\ n + 1 # 0 /\ (n + 1) - 1 = n
        BY <2>1
      <4> QED BY <2>2, <4>1 DEF Folds
    <3> QED BY <2>1, <3>1, <3>2, NextVerdict
  <2>5. Nat \subseteq S
    <3> HIDE DEF S
    <3> QED BY <2>3, <2>4, SetInduction
  <2>6. Right(Len(events))
    BY <2>1, <2>5
  <2>7. \A i \in DOMAIN events : Interval(v, i) <=> Within(v, events, Len(events), i)
    BY DEF Interval, Within
  <2> QED BY <2>1, <2>2, <2>6, <2>7
<1> QED BY <1>1, <1>2, RangeStep, PTL DEF RangeSpec

-----------------------------------------------------------------------------
(* Version orders: each is the lexicographic order of keys, for versions of any length. *)

Position == Nat \ {0}
Keys == [Position -> Int \X Int]
Precedes(p, q) == p[1] < q[1] \/ (p[1] = q[1] /\ p[2] < q[2])
SameUpTo(f, g, n) == \A m \in 1..(n - 1) : f[m] = g[m]
Before(f, g) == \E n \in Position : SameUpTo(f, g, n) /\ Precedes(f[n], g[n])

\* Keys that differ do so first at some position.
LEMMA FirstDifferenceExists ==
  ASSUME NEW f \in Keys, NEW g \in Keys, f # g
  PROVE  \E n \in Position : SameUpTo(f, g, n) /\ f[n] # g[n]
<1> DEFINE D == {n \in Position : f[n] # g[n]}
<1>1. D \subseteq Nat /\ D # {}
  BY DEF Keys, Position
<1>2. PICK n \in D : \A m \in D : ~(m < n)
  BY <1>1, LeastMember
<1> QED BY <1>2 DEF Position, SameUpTo

\* One of two different keys is before the other, and not the other way round.
LEMMA BeforeIsTotal ==
  ASSUME NEW f \in Keys, NEW g \in Keys
  PROVE  /\ f # g => Before(f, g) \/ Before(g, f)
         /\ ~(Before(f, g) /\ Before(g, f))
         /\ f = g => ~Before(f, g)
<1> USE DEF Position
<1>1. \A n \in Position : f[n] \in Int \X Int /\ g[n] \in Int \X Int
  BY DEF Keys
<1>2. ASSUME NEW n \in Position, f[n] # g[n]
      PROVE  Precedes(f[n], g[n]) \/ Precedes(g[n], f[n])
  BY <1>1, <1>2 DEF Precedes
<1>3. f # g => Before(f, g) \/ Before(g, f)
  <2> SUFFICES ASSUME f # g PROVE Before(f, g) \/ Before(g, f)
    OBVIOUS
  <2>1. PICK n \in Position : SameUpTo(f, g, n) /\ f[n] # g[n]
    BY FirstDifferenceExists
  <2> QED BY <1>2, <2>1 DEF Before, SameUpTo
<1>4. ~(Before(f, g) /\ Before(g, f))
  <2> SUFFICES ASSUME NEW n \in Position, SameUpTo(f, g, n), Precedes(f[n], g[n]),
                      NEW m \in Position, SameUpTo(g, f, m), Precedes(g[m], f[m])
               PROVE  FALSE
    BY DEF Before
  <2>1. CASE n < m
    BY <1>1, <2>1 DEF SameUpTo, Precedes
  <2>2. CASE m < n
    BY <1>1, <2>2 DEF SameUpTo, Precedes
  <2>3. CASE m = n
    BY <1>1, <2>3 DEF Precedes
  <2> QED BY <2>1, <2>2, <2>3
<1> QED BY <1>3, <1>4

\* What is before what is before a key is before that key.
LEMMA BeforeIsTransitive ==
  ASSUME NEW f \in Keys, NEW g \in Keys, NEW h \in Keys, Before(f, g), Before(g, h)
  PROVE  Before(f, h)
<1> USE DEF Position
<1>1. \A n \in Position : f[n] \in Int \X Int /\ g[n] \in Int \X Int /\ h[n] \in Int \X Int
  BY DEF Keys
<1>2. PICK n \in Position : SameUpTo(f, g, n) /\ Precedes(f[n], g[n])
  BY DEF Before
<1>3. PICK m \in Position : SameUpTo(g, h, m) /\ Precedes(g[m], h[m])
  BY DEF Before
<1>4. CASE n < m
  <2>1. SameUpTo(f, h, n) /\ h[n] = g[n]
    BY <1>2, <1>3, <1>4 DEF SameUpTo
  <2> QED BY <1>2, <2>1 DEF Before
<1>5. CASE m < n
  <2>1. SameUpTo(f, h, m) /\ f[m] = g[m]
    BY <1>2, <1>3, <1>5 DEF SameUpTo
  <2> QED BY <1>3, <2>1 DEF Before
<1>6. CASE m = n
  <2>1. SameUpTo(f, h, n)
    BY <1>2, <1>3, <1>6 DEF SameUpTo
  <2>2. Precedes(f[n], h[n])
    BY <1>1, <1>2, <1>3, <1>6 DEF Precedes
  <2> QED BY <2>1, <2>2 DEF Before
<1> QED BY <1>4, <1>5, <1>6

\* A comparison that says how two keys lie.
Compares(o, f, g) ==
  /\ o \in {-1, 0, 1}
  /\ o = -1 => Before(f, g)
  /\ o = 0 => f = g
  /\ o = 1 => Before(g, f)

\* Comparisons that follow keys are those of one order.
LEMMA KeysOrder ==
  ASSUME NEW f \in Keys, NEW g \in Keys, NEW h \in Keys,
         NEW ff, Compares(ff, f, f), NEW fg, Compares(fg, f, g), NEW gf, Compares(gf, g, f),
         NEW gh, Compares(gh, g, h), NEW fh, Compares(fh, f, h)
  PROVE  /\ ff = 0 /\ fg = -gf
         /\ fg = 0 => fh = gh
         /\ fg <= 0 /\ gh <= 0 => fh <= 0
<1>1. ff = 0
  BY BeforeIsTotal DEF Compares
<1>2. fg = -gf
  BY BeforeIsTotal DEF Compares
<1>3. ASSUME fg <= 0, gh <= 0 PROVE fh <= 0
  <2>1. fg \in {-1, 0} /\ gh \in {-1, 0} /\ fh \in {-1, 0, 1}
    BY <1>3 DEF Compares
  <2>2. CASE fg = 0
    BY <2>1, <2>2, BeforeIsTotal DEF Compares
  <2>3. CASE fg = -1 /\ gh = 0
    BY <2>1, <2>3, BeforeIsTotal DEF Compares
  <2>4. CASE fg = -1 /\ gh = -1
    <3>1. Before(f, h)
      BY <2>4, BeforeIsTransitive DEF Compares
    <3>2. fh = -1
      BY <2>1, <3>1, BeforeIsTotal DEF Compares
    <3> QED BY <2>4, <3>2
  <2> QED BY <2>1, <2>2, <2>3, <2>4
<1>4. ASSUME fg = 0 PROVE fh = gh
  <2>1. f = g /\ fh \in {-1, 0, 1} /\ gh \in {-1, 0, 1}
    BY <1>4 DEF Compares
  <2> QED BY <2>1, BeforeIsTotal DEF Compares
<1> QED BY <1>1, <1>2, <1>3, <1>4

\* The first difference of comparisons, or what the lengths say.
LEMMA FirstDifferenceIs ==
  ASSUME NEW n \in Nat, NEW orders, orders \in [1..n -> Int], NEW last
  PROVE  \/ (\A i \in 1..n : orders[i] = 0) /\ FirstDifference(orders, last) = last
         \/ \E i \in 1..n : /\ orders[i] # 0 /\ \A j \in 1..(i - 1) : orders[j] = 0
                            /\ FirstDifference(orders, last) = orders[i]
<1> DEFINE I == {i \in 1..n : orders[i] # 0}
<1>1. Len(orders) = n
  OBVIOUS
<1>2. CASE I = {}
  BY <1>1, <1>2 DEF FirstDifference, SelectInSeq
<1>3. CASE I # {}
  <2>1. PICK i \in I : \A j \in I : ~(j < i)
    <3>1. I \subseteq Nat
      OBVIOUS
    <3> HIDE DEF I
    <3> QED BY <1>3, <3>1, LeastMember
  <2>2. Min(I) = i
    BY <2>1 DEF Min
  <2>3. FirstDifference(orders, last) = orders[i]
    BY <1>1, <1>3, <2>1, <2>2 DEF FirstDifference, SelectInSeq
  <2> QED BY <2>1, <2>3
<1> QED BY <1>2, <1>3

\* Comparisons one after the other compare keys, if each compares the parts at its position
\* and the rest is compared last.
LEMMA OrdersCompare ==
  ASSUME NEW f \in Keys, NEW g \in Keys, NEW n \in Nat, NEW last,
         NEW orders \in [1..n -> {-1, 0, 1}],
         \A i \in 1..n : /\ orders[i] = 0 => f[i] = g[i]
                         /\ orders[i] = -1 => Precedes(f[i], g[i])
                         /\ orders[i] = 1 => Precedes(g[i], f[i]),
         SameUpTo(f, g, n + 1) => Compares(last, f, g)
  PROVE  Compares(FirstDifference(orders, last), f, g)
<1> DEFINE o == FirstDifference(orders, last)
<1>1. \/ (\A i \in 1..n : orders[i] = 0) /\ o = last
      \/ \E i \in 1..n : /\ orders[i] # 0 /\ \A j \in 1..(i - 1) : orders[j] = 0
                         /\ o = orders[i]
  BY FirstDifferenceIs
<1> HIDE DEF o
<1>2. ASSUME NEW i \in 1..(n + 1), \A j \in 1..(i - 1) : orders[j] = 0
      PROVE  SameUpTo(f, g, i)
  <2> SUFFICES ASSUME NEW m \in 1..(i - 1) PROVE f[m] = g[m]
    BY DEF SameUpTo
  <2>1. m \in 1..n
    OBVIOUS
  <2> QED BY <1>2, <2>1
<1>3. CASE (\A i \in 1..n : orders[i] = 0) /\ o = last
  <2>1. n + 1 \in 1..(n + 1) /\ \A j \in 1..(n + 1 - 1) : j \in 1..n
    OBVIOUS
  <2>2. SameUpTo(f, g, n + 1)
    BY <1>2, <1>3, <2>1
  <2> QED BY <1>3, <2>2 DEF o
<1>4. ASSUME NEW i \in 1..n, orders[i] # 0, \A j \in 1..(i - 1) : orders[j] = 0, o = orders[i]
      PROVE  Compares(o, f, g)
  <2>1. SameUpTo(f, g, i) /\ i \in Position /\ i \in 1..(n + 1)
    BY <1>2, <1>4 DEF Position
  <2>2. SameUpTo(g, f, i)
    BY <2>1 DEF SameUpTo
  <2>3. orders[i] \in {-1, 1}
    BY <1>4
  <2>4. CASE orders[i] = -1
    BY <1>4, <2>1, <2>4 DEF Compares, Before
  <2>5. CASE orders[i] = 1
    BY <1>4, <2>1, <2>2, <2>5 DEF Compares, Before
  <2> QED BY <2>3, <2>4, <2>5
<1> QED BY <1>1, <1>3, <1>4 DEF o

\* The sign of a difference.
LEMMA SignCompares ==
  ASSUME NEW d \in Int
  PROVE  /\ Sign(d) \in {-1, 0, 1}
         /\ Sign(d) = 0 <=> d = 0
         /\ Sign(d) = -1 <=> d < 0
         /\ Sign(d) = 1 <=> d > 0
BY DEF Sign

\* Sequences that are compared member by member, and by their lengths at last, are compared
\* by keys whose end is before every member.
LEMMA SequencesCompare ==
  ASSUME NEW f \in Keys, NEW g \in Keys, NEW S, NEW l \in Seq(S), NEW r \in Seq(S), NEW end,
         NEW orders \in [1..Shorter(l, r) -> {-1, 0, 1}],
         \A i \in 1..Shorter(l, r) : /\ orders[i] = 0 => f[i] = g[i]
                                     /\ orders[i] = -1 => Precedes(f[i], g[i])
                                     /\ orders[i] = 1 => Precedes(g[i], f[i]),
         \A i \in Position : IF i <= Len(l) THEN Precedes(end, f[i]) ELSE f[i] = end,
         \A i \in Position : IF i <= Len(r) THEN Precedes(end, g[i]) ELSE g[i] = end
  PROVE  Compares(FirstDifference(orders, Sign(Len(l) - Len(r))), f, g)
<1> DEFINE n == Shorter(l, r)
           last == Sign(Len(l) - Len(r))
<1>1. n \in Nat /\ n <= Len(l) /\ n <= Len(r) /\ (n = Len(l) \/ n = Len(r))
  BY DEF Shorter
<1> HIDE DEF n
<1>2. ASSUME SameUpTo(f, g, n + 1) PROVE Compares(last, f, g)
  <2>1. CASE Len(l) = Len(r)
    <3>1. ASSUME NEW m \in Position PROVE f[m] = g[m]
      <4>1. CASE m <= n
        BY <1>1, <1>2, <4>1 DEF SameUpTo, Position
      <4>2. CASE m > n
        BY <1>1, <2>1, <4>2 DEF Position
      <4> QED BY <1>1, <4>1, <4>2 DEF Position
    <3>2. f = g
      BY <3>1 DEF Keys
    <3> QED BY <2>1, <3>2, SignCompares DEF Compares
  <2>2. CASE Len(l) < Len(r)
    <3>1. n + 1 \in Position /\ n = Len(l) /\ ~(n + 1 <= Len(l)) /\ n + 1 <= Len(r)
      BY <1>1, <2>2 DEF Position
    <3>2. Precedes(f[n + 1], g[n + 1])
      BY <3>1
    <3>3. Before(f, g)
      BY <1>2, <3>1, <3>2 DEF Before
    <3> QED BY <2>2, <3>3, SignCompares DEF Compares
  <2>3. CASE Len(r) < Len(l)
    <3>1. n + 1 \in Position /\ n = Len(r) /\ ~(n + 1 <= Len(r)) /\ n + 1 <= Len(l)
      BY <1>1, <2>3 DEF Position
    <3>2. Precedes(g[n + 1], f[n + 1])
      BY <3>1
    <3>3. SameUpTo(g, f, n + 1)
      BY <1>2 DEF SameUpTo
    <3>4. Before(g, f)
      BY <3>1, <3>2, <3>3 DEF Before
    <3> QED BY <2>3, <3>4, SignCompares DEF Compares
  <2> QED BY <2>1, <2>2, <2>3
<1> HIDE DEF last
<1>3. Compares(FirstDifference(orders, last), f, g)
  BY <1>1, <1>2, OrdersCompare DEF n
<1> QED BY <1>3 DEF last

-----------------------------------------------------------------------------
(* NuGet. *)

\* Up to four numbers of a core, of which the last may be missing.
CoreKey(core) ==
  [n \in Position |-> IF n <= Len(core) THEN <<core[n], 0>> ELSE <<-1, 0>>]

\* Numbers come before words, and the end before both.
IdentifierKey(segment) == <<IF segment.kind = "number" THEN 1 ELSE 2, segment.val>>
PrereleaseKey(pre) ==
  [n \in Position |-> IF n <= Len(pre) THEN IdentifierKey(pre[n]) ELSE <<0, 0>>]

\* A core, a mark, and the rest; a prerelease comes before none.
Joined(core, mark, rest) ==
  [n \in Position |-> IF n <= 4 THEN core[n] ELSE IF n = 5 THEN mark ELSE rest[n - 5]]
Mark(pre) == <<IF pre = <<>> THEN 1 ELSE 0, 0>>
NugetKey(v) == Joined(CoreKey(NugetCore(v.core)), Mark(v.pre), PrereleaseKey(v.pre))

\* Joined keys are compared part by part.
LEMMA JoinedBefore ==
  ASSUME NEW f \in Keys, NEW g \in Keys, NEW p \in Keys, NEW q \in Keys,
         NEW x \in Int \X Int, NEW y \in Int \X Int,
         \A n \in Position : n > 4 => f[n] = <<-1, 0>> /\ g[n] = <<-1, 0>>
  PROVE  /\ Joined(f, x, p) \in Keys
         /\ Before(f, g) => Before(Joined(f, x, p), Joined(g, y, q))
         /\ f = g /\ Precedes(x, y) => Before(Joined(f, x, p), Joined(g, y, q))
         /\ f = g /\ x = y /\ Before(p, q) => Before(Joined(f, x, p), Joined(g, y, q))
<1> DEFINE a == Joined(f, x, p)
           b == Joined(g, y, q)
<1>1. /\ \A n \in Position : n <= 4 => a[n] = f[n] /\ b[n] = g[n]
      /\ a[5] = x /\ b[5] = y
      /\ \A n \in Position : n > 5 => a[n] = p[n - 5] /\ b[n] = q[n - 5]
  BY DEF Joined, Position
<1>2. a \in Keys
  BY DEF Joined, Keys, Position
<1> HIDE DEF a, b
<1>3. ASSUME Before(f, g) PROVE Before(a, b)
  <2>1. PICK n \in Position : SameUpTo(f, g, n) /\ Precedes(f[n], g[n])
    BY <1>3 DEF Before
  <2>2. n <= 4
    BY <2>1 DEF Precedes, Position
  <2>3. SameUpTo(a, b, n) /\ a[n] = f[n] /\ b[n] = g[n]
    BY <1>1, <2>1, <2>2 DEF SameUpTo, Position
  <2> QED BY <2>1, <2>3 DEF Before
<1>4. ASSUME f = g PROVE SameUpTo(a, b, 5)
  BY <1>1, <1>4 DEF SameUpTo, Position
<1>5. ASSUME f = g, Precedes(x, y) PROVE Before(a, b)
  BY <1>1, <1>4, <1>5 DEF Before, Position
<1>6. ASSUME f = g, x = y, Before(p, q) PROVE Before(a, b)
  <2>1. PICK n \in Position : SameUpTo(p, q, n) /\ Precedes(p[n], q[n])
    BY <1>6 DEF Before
  <2>2. n + 5 \in Position /\ n + 5 > 5 /\ (n + 5) - 5 = n
    BY DEF Position
  <2>3. a[n + 5] = p[n] /\ b[n + 5] = q[n]
    BY <1>1, <2>2
  <2>4. SameUpTo(a, b, n + 5)
    <3> SUFFICES ASSUME NEW i \in 1..((n + 5) - 1) PROVE a[i] = b[i]
      BY DEF SameUpTo
    <3>1. i \in Position
      BY <2>2 DEF Position
    <3>2. CASE i <= 4
      BY <1>1, <1>6, <3>1, <3>2
    <3>3. CASE i > 5
      <4>1. i - 5 \in 1..(n - 1)
        BY <3>3 DEF Position
      <4> QED BY <1>1, <2>1, <3>1, <3>3, <4>1 DEF SameUpTo
    <3> QED BY <1>1, <1>6, <3>1, <3>2, <3>3 DEF Position
  <2> QED BY <2>1, <2>2, <2>3, <2>4 DEF Before
<1> QED BY <1>2, <1>3, <1>5, <1>6 DEF a, b

\* normalize_nuget_version leaves three or four numbers (artifact.rs 195-239).
LEMMA NugetCoreIs ==
  ASSUME NEW parts \in Seq(Nat), Len(parts) \in 1..4
  PROVE  NugetCore(parts) \in Seq(Nat) /\ Len(NugetCore(parts)) \in 3..4
<1> DEFINE n == Longer(parts, <<0, 0, 0>>)
           padded == [i \in 1..n |-> IF i <= Len(parts) THEN parts[i] ELSE 0]
<1>1. n \in 3..4
  <2>1. \A a \in 1..4 : (IF a >= 3 THEN a ELSE 3) \in 3..4
    OBVIOUS
  <2>2. Len(<<0, 0, 0>>) = 3
    OBVIOUS
  <2>3. n = IF Len(parts) >= 3 THEN Len(parts) ELSE 3
    BY <2>2 DEF Longer
  <2> HIDE DEF n
  <2> QED BY <2>1, <2>3
<1>2. padded \in Seq(Nat) /\ Len(padded) = n
  <2> HIDE DEF n
  <2>1. \A i \in 1..n : (IF i <= Len(parts) THEN parts[i] ELSE 0) \in Nat
    BY <1>1
  <2>2. padded \in [1..n -> Nat]
    BY <2>1
  <2> QED BY <1>1, <2>2
<1>3. Len(padded) = 4 => SubSeq(padded, 1, 3) \in Seq(Nat) /\ Len(SubSeq(padded, 1, 3)) = 3
  <2> HIDE DEF padded, n
  <2> SUFFICES ASSUME Len(padded) = 4
               PROVE  SubSeq(padded, 1, 3) \in Seq(Nat) /\ Len(SubSeq(padded, 1, 3)) = 3
    OBVIOUS
  <2>1. \A i \in 1..3 : padded[i] \in Nat
    BY <1>2, ElementOfSeq
  <2> QED BY <2>1, SubSeqProperties
<1>4. NugetCore(parts) = IF Len(padded) = 4 /\ padded[4] = 0 THEN SubSeq(padded, 1, 3) ELSE padded
  BY DEF NugetCore
<1> HIDE DEF padded, n
<1>5. Len(padded) \in 3..4
  BY <1>1, <1>2
<1>6. CASE Len(padded) = 4 /\ padded[4] = 0
  <2>1. NugetCore(parts) = SubSeq(padded, 1, 3)
    BY <1>4, <1>6
  <2>2. 3 \in 3..4
    OBVIOUS
  <2> QED BY <1>3, <1>6, <2>1, <2>2
<1>7. CASE ~(Len(padded) = 4 /\ padded[4] = 0)
  <2>1. NugetCore(parts) = padded
    BY <1>4, <1>7
  <2> QED BY <1>2, <1>5, <2>1
<1> QED BY <1>6, <1>7

\* Cores are compared number by number, and a fourth number that one of them lacks is greater
\* (malicious.rs 2260-2297).
LEMMA NugetCoresCompare ==
  ASSUME NEW l \in Seq(Nat), NEW r \in Seq(Nat)
  PROVE  /\ CoreKey(l) \in Keys /\ CoreKey(r) \in Keys
         /\ Compares(NugetCoreOrder(l, r), CoreKey(l), CoreKey(r))
<1> DEFINE n == Shorter(l, r)
           orders == [i \in 1..n |-> Sign(l[i] - r[i])]
           f == CoreKey(l)
           g == CoreKey(r)
<1>1. n \in Nat /\ n <= Len(l) /\ n <= Len(r)
  <2>1. Len(l) \in Nat /\ Len(r) \in Nat
    OBVIOUS
  <2> QED BY <2>1 DEF Shorter
<1>2. f \in Keys /\ g \in Keys
  BY DEF Keys, CoreKey, Position
<1> HIDE DEF n
<1>3. \A i \in 1..n : l[i] \in Nat /\ r[i] \in Nat
  BY <1>1
<1>4. orders \in [1..n -> {-1, 0, 1}]
  BY <1>3, SignCompares
<1>5. ASSUME NEW i \in 1..n PROVE f[i] = <<l[i], 0>> /\ g[i] = <<r[i], 0>>
  <2>1. i \in Position /\ i <= Len(l) /\ i <= Len(r)
    BY <1>1 DEF Position
  <2> QED BY <2>1 DEF CoreKey
<1>6. ASSUME NEW i \in 1..n
      PROVE  /\ orders[i] = 0 => f[i] = g[i]
             /\ orders[i] = -1 => Precedes(f[i], g[i])
             /\ orders[i] = 1 => Precedes(g[i], f[i])
  <2>1. l[i] \in Nat /\ r[i] \in Nat /\ f[i] = <<l[i], 0>> /\ g[i] = <<r[i], 0>>
    BY <1>3, <1>5
  <2>2. orders[i] = Sign(l[i] - r[i])
    OBVIOUS
  <2> HIDE DEF f, g, orders
  <2> QED BY <2>1, <2>2 DEF Precedes, Sign
<1>7. /\ \A i \in Position : IF i <= Len(l) THEN Precedes(<<-1, 0>>, f[i]) ELSE f[i] = <<-1, 0>>
      /\ \A i \in Position : IF i <= Len(r) THEN Precedes(<<-1, 0>>, g[i]) ELSE g[i] = <<-1, 0>>
  <2>1. ASSUME NEW c \in Seq(Nat), NEW i \in Position
        PROVE  IF i <= Len(c) THEN Precedes(<<-1, 0>>, CoreKey(c)[i])
               ELSE CoreKey(c)[i] = <<-1, 0>>
    <3>1. i <= Len(c) => c[i] \in Nat
      BY DEF Position
    <3>2. CoreKey(c)[i] = IF i <= Len(c) THEN <<c[i], 0>> ELSE <<-1, 0>>
      BY DEF CoreKey
    <3>3. \A k \in Nat : Precedes(<<-1, 0>>, <<k, 0>>)
      BY DEF Precedes
    <3> QED BY <3>1, <3>2, <3>3
  <2> QED BY <2>1
<1> HIDE DEF f, g, orders
<1>8. Compares(FirstDifference(orders, Sign(Len(l) - Len(r))), f, g)
  BY <1>2, <1>4, <1>6, <1>7, SequencesCompare DEF n
<1> QED BY <1>2, <1>8 DEF NugetCoreOrder, orders, f, g, n

\* Prereleases are compared identifier by identifier (malicious.rs 2299-2345).
LEMMA NugetPrereleasesCompare ==
  ASSUME NEW l \in Seq(Segments), NEW r \in Seq(Segments)
  PROVE  /\ PrereleaseKey(l) \in Keys /\ PrereleaseKey(r) \in Keys
         /\ Compares(NugetPrereleaseOrder(l, r), PrereleaseKey(l), PrereleaseKey(r))
<1> DEFINE n == Shorter(l, r)
           orders == [i \in 1..n |-> NugetIdentifierOrder(l[i], r[i])]
           f == PrereleaseKey(l)
           g == PrereleaseKey(r)
<1>1. n \in Nat /\ n <= Len(l) /\ n <= Len(r)
  BY DEF Shorter
<1>2. \A a \in Segments : IdentifierKey(a) \in Int \X Int /\ Precedes(<<0, 0>>, IdentifierKey(a))
  BY DEF Segments, IdentifierKey, Precedes
<1>3. \A i \in Position : /\ i <= Len(l) => l[i] \in Segments
                          /\ i <= Len(r) => r[i] \in Segments
  BY DEF Position
<1>4. f \in Keys /\ g \in Keys
  BY <1>2, <1>3 DEF Keys, PrereleaseKey
<1> HIDE DEF n
<1>5. \A i \in 1..n : /\ l[i] \in Segments /\ r[i] \in Segments
                      /\ f[i] = IdentifierKey(l[i]) /\ g[i] = IdentifierKey(r[i])
  BY <1>1, <1>3 DEF PrereleaseKey, Position
<1>6. ASSUME NEW a \in Segments, NEW b \in Segments
      PROVE  /\ NugetIdentifierOrder(a, b) \in {-1, 0, 1}
             /\ NugetIdentifierOrder(a, b) = 0 => IdentifierKey(a) = IdentifierKey(b)
             /\ NugetIdentifierOrder(a, b) = -1 => Precedes(IdentifierKey(a), IdentifierKey(b))
             /\ NugetIdentifierOrder(a, b) = 1 => Precedes(IdentifierKey(b), IdentifierKey(a))
  BY DEF Segments, NugetIdentifierOrder, IdentifierKey, Precedes, Sign
<1>7. orders \in [1..n -> {-1, 0, 1}]
  BY <1>5, <1>6
<1>8. \A i \in 1..n : /\ orders[i] = 0 => f[i] = g[i]
                      /\ orders[i] = -1 => Precedes(f[i], g[i])
                      /\ orders[i] = 1 => Precedes(g[i], f[i])
  <2> HIDE DEF f, g
  <2> QED BY <1>5, <1>6
<1>9. /\ \A i \in Position : IF i <= Len(l) THEN Precedes(<<0, 0>>, f[i]) ELSE f[i] = <<0, 0>>
      /\ \A i \in Position : IF i <= Len(r) THEN Precedes(<<0, 0>>, g[i]) ELSE g[i] = <<0, 0>>
  BY <1>2, <1>3 DEF PrereleaseKey
<1> HIDE DEF f, g, orders
<1>10. Compares(FirstDifference(orders, Sign(Len(l) - Len(r))), f, g)
  BY <1>4, <1>7, <1>8, <1>9, SequencesCompare DEF n
<1> QED BY <1>4, <1>10 DEF NugetPrereleaseOrder, orders, f, g, n

\* compare_nuget_version follows the keys: the cores, whether there is a prerelease, and the
\* prereleases.
LEMMA NugetCompares ==
  ASSUME NEW a \in NugetVersions, NEW b \in NugetVersions
  PROVE  /\ NugetKey(a) \in Keys
         /\ Compares(NugetOrder(a, b), NugetKey(a), NugetKey(b))
<1> DEFINE f == CoreKey(NugetCore(a.core))
           g == CoreKey(NugetCore(b.core))
           core == NugetCoreOrder(NugetCore(a.core), NugetCore(b.core))
           p == PrereleaseKey(a.pre)
           q == PrereleaseKey(b.pre)
           pre == NugetPrereleaseOrder(a.pre, b.pre)
           marks == Sign(Len(b.pre)) - Sign(Len(a.pre))
           fa == NugetKey(a)
           fb == NugetKey(b)
<1>1. /\ a.core \in Seq(Nat) /\ Len(a.core) \in 1..4 /\ a.pre \in Seq(Segments)
      /\ b.core \in Seq(Nat) /\ Len(b.core) \in 1..4 /\ b.pre \in Seq(Segments)
  BY VersionConstants
<1>2. /\ NugetCore(a.core) \in Seq(Nat) /\ Len(NugetCore(a.core)) \in 3..4
      /\ NugetCore(b.core) \in Seq(Nat) /\ Len(NugetCore(b.core)) \in 3..4
  BY <1>1, NugetCoreIs
<1>3. f \in Keys /\ g \in Keys /\ Compares(core, f, g)
  BY <1>2, NugetCoresCompare
<1>4. p \in Keys /\ q \in Keys /\ Compares(pre, p, q)
  BY <1>1, NugetPrereleasesCompare
<1>5. \A n \in Position : n > 4 => f[n] = <<-1, 0>> /\ g[n] = <<-1, 0>>
  <2>1. ASSUME NEW s \in Seq(Nat), Len(s) \in 3..4, NEW n \in Position, n > 4
        PROVE  CoreKey(s)[n] = <<-1, 0>>
    <3>1. \A x \in 3..4 : ~(n <= x)
      BY <2>1 DEF Position
    <3>2. ~(n <= Len(s))
      BY <2>1, <3>1
    <3> QED BY <3>2 DEF CoreKey
  <2> QED BY <1>2, <2>1
<1>6. /\ a.pre = <<>> => marks = (IF b.pre = <<>> THEN 0 ELSE 1)
      /\ b.pre = <<>> => marks = (IF a.pre = <<>> THEN 0 ELSE -1)
  <2>1. \A s \in Seq(Segments) : Sign(Len(s)) = IF s = <<>> THEN 0 ELSE 1
    BY EmptySeq DEF Sign
  <2> QED BY <1>1, <2>1
<1>7. NugetOrder(a, b) = IF core # 0 THEN core
                         ELSE IF a.pre = <<>> \/ b.pre = <<>> THEN marks ELSE pre
  BY DEF NugetOrder
<1>8. /\ Mark(a.pre) \in Int \X Int /\ Mark(b.pre) \in Int \X Int
      /\ a.pre = <<>> /\ b.pre # <<>> => Precedes(Mark(b.pre), Mark(a.pre))
      /\ a.pre # <<>> /\ b.pre = <<>> => Precedes(Mark(a.pre), Mark(b.pre))
      /\ (a.pre = <<>> <=> b.pre = <<>>) => Mark(a.pre) = Mark(b.pre)
  BY DEF Mark, Precedes
<1>9. fa = Joined(f, Mark(a.pre), p) /\ fb = Joined(g, Mark(b.pre), q)
  BY DEF NugetKey
<1> HIDE DEF f, g, core, p, q, pre, marks, fa, fb
<1>10. fa \in Keys
  BY <1>3, <1>4, <1>5, <1>8, <1>9, JoinedBefore
<1>11. /\ Before(f, g) => Before(fa, fb)
       /\ Before(g, f) => Before(fb, fa)
       /\ f = g /\ Precedes(Mark(a.pre), Mark(b.pre)) => Before(fa, fb)
       /\ f = g /\ Precedes(Mark(b.pre), Mark(a.pre)) => Before(fb, fa)
       /\ f = g /\ Mark(a.pre) = Mark(b.pre) /\ Before(p, q) => Before(fa, fb)
       /\ f = g /\ Mark(a.pre) = Mark(b.pre) /\ Before(q, p) => Before(fb, fa)
  BY <1>3, <1>4, <1>5, <1>8, <1>9, JoinedBefore
<1>12. ASSUME core # 0 PROVE Compares(NugetOrder(a, b), fa, fb)
  BY <1>3, <1>7, <1>11, <1>12 DEF Compares
<1>13. ASSUME core = 0, a.pre = <<>> \/ b.pre = <<>>
       PROVE  Compares(NugetOrder(a, b), fa, fb)
  <2>1. f = g /\ NugetOrder(a, b) = marks
    BY <1>3, <1>7, <1>13 DEF Compares
  <2>2. a.pre = <<>> /\ b.pre = <<>> => p = q
    BY DEF p, q
  <2> QED BY <1>6, <1>8, <1>9, <1>11, <1>13, <2>1, <2>2 DEF Compares
<1>14. ASSUME core = 0, a.pre # <<>>, b.pre # <<>>
       PROVE  Compares(NugetOrder(a, b), fa, fb)
  <2>1. f = g /\ NugetOrder(a, b) = pre
    BY <1>3, <1>7, <1>14 DEF Compares
  <2> QED BY <1>4, <1>8, <1>9, <1>11, <1>14, <2>1 DEF Compares
<1>15. Compares(NugetOrder(a, b), fa, fb)
  BY <1>12, <1>13, <1>14
<1> QED BY <1>10, <1>15 DEF fa, fb

-----------------------------------------------------------------------------
(* RubyGems. *)

\* Words come before numbers, and the end is as a zero.
GemSegmentKey(segment) == <<IF segment.kind = "word" THEN 0 ELSE 1, segment.val>>
GemKey(s) == [n \in Position |-> IF n <= Len(s) THEN GemSegmentKey(s[n]) ELSE <<1, 0>>]

\* What canonical_segments leaves are segments.
LEMMA GemCanonicalIs ==
  ASSUME NEW s \in Seq(Segments)
  PROVE  GemCanonical(s) \in Seq(Segments)
<1>1. \A t \in Seq(Segments) : Significant(t) \in 0..Len(t)
  <2> SUFFICES ASSUME NEW t \in Seq(Segments) PROVE Significant(t) \in 0..Len(t)
    OBVIOUS
  <2> DEFINE I == {i \in 1..Len(t) : ~IsZero(t[i])}
  <2>1. CASE I = {}
    BY <2>1 DEF Significant, SelectLastInSeq
  <2>2. CASE I # {}
    <3>1. I \subseteq 1..Len(t)
      OBVIOUS
    <3> HIDE DEF I
    <3>2. \E x \in I : \A y \in I : y <= x
      <4>1. 1 \in Int /\ Len(t) \in Int
        OBVIOUS
      <4> QED BY <2>2, <3>1, <4>1, GreatestMember
    <3>3. \E x \in I : \A y \in I : x >= y
      BY <3>1, <3>2
    <3>4. Max(I) \in I
      BY <3>3 DEF Max
    <3> QED BY <2>2, <3>1, <3>4 DEF I, Significant, SelectLastInSeq
  <2> QED BY <2>1, <2>2
<1>2. \A t \in Seq(Segments), n \in Nat, m \in Nat \ {0} :
        n <= Len(t) => SubSeq(t, m, n) \in Seq(Segments)
  OBVIOUS
<1> DEFINE stripped == SubSeq(s, 1, Significant(s))
           word == SelectInSeq(stripped, LAMBDA x : x.kind = "word")
           before == SubSeq(stripped, 1, word - 1)
<1>3. stripped \in Seq(Segments)
  BY <1>1, <1>2
<1> HIDE DEF stripped
<1>4. CASE word = 0
  BY <1>3, <1>4 DEF GemCanonical, stripped
<1>5. CASE word # 0
  <2>1. word \in 1..Len(stripped)
    <3> DEFINE I == {i \in 1..Len(stripped) : stripped[i].kind = "word"}
    <3>1. I \subseteq Nat
      OBVIOUS
    <3>2. word = IF I # {} THEN Min(I) ELSE 0
      BY DEF SelectInSeq
    <3>3. I # {} /\ word = Min(I)
      BY <1>5, <3>2
    <3>4. PICK x \in I : \A y \in I : ~(y < x)
      <4> HIDE DEF I, word
      <4> QED BY <3>1, <3>3, LeastMember
    <3>5. Min(I) = x
      BY <3>4 DEF Min
    <3> QED BY <3>3, <3>5
  <2> HIDE DEF word
  <2>2. before \in Seq(Segments) /\ SubSeq(stripped, word, Len(stripped)) \in Seq(Segments)
    BY <1>2, <1>3, <2>1
  <2>3. Significant(before) \in 0..Len(before)
    <3> HIDE DEF before
    <3> QED BY <1>1, <2>2
  <2>4. Len(before) <= Len(stripped)
    BY <1>3, <2>1
  <2> HIDE DEF before
  <2>5. SubSeq(stripped, 1, Significant(before)) \in Seq(Segments)
    <3>1. Significant(before) \in Nat /\ Significant(before) <= Len(stripped)
      BY <1>3, <2>2, <2>3, <2>4
    <3> QED BY <1>2, <1>3, <3>1
  <2>6. GemCanonical(s) = SubSeq(stripped, 1, Significant(before))
                            \o SubSeq(stripped, word, Len(stripped))
    BY <1>5 DEF GemCanonical, stripped, word, before
  <2> QED BY <2>2, <2>5, <2>6
<1> QED BY <1>4, <1>5

\* What the end of a version is against the rest of another, in keys.
LEMMA EndAgainstIs ==
  ASSUME NEW s \in Seq(Segments), NEW c \in Nat, c <= Len(s)
  PROVE  LET o == EndAgainst(SubSeq(s, c + 1, Len(s)))
             key == GemKey(s)
         IN /\ o \in {-1, 0, 1}
            /\ o = 0 => \A n \in Position : n > c => key[n] = <<1, 0>>
            /\ o # 0 => \E n \in Position :
                          /\ n > c /\ \A m \in (c + 1)..(n - 1) : key[m] = <<1, 0>>
                          /\ IF o = 1 THEN Precedes(key[n], <<1, 0>>) ELSE Precedes(<<1, 0>>, key[n])
            /\ c = Len(s) => o = 0
<1> DEFINE rest == SubSeq(s, c + 1, Len(s))
           o == EndAgainst(rest)
           key == GemKey(s)
           I == {i \in 1..Len(rest) : ~IsZero(rest[i])}
<1>1. Len(rest) = Len(s) - c /\ \A i \in 1..Len(rest) : rest[i] = s[c + i]
  OBVIOUS
<1>2. \A a \in Segments : /\ IsZero(a) => GemSegmentKey(a) = <<1, 0>>
                          /\ a.kind = "word" => Precedes(GemSegmentKey(a), <<1, 0>>)
                          /\ ~IsZero(a) /\ a.kind # "word" => Precedes(<<1, 0>>, GemSegmentKey(a))
  BY DEF Segments, IsZero, GemSegmentKey, Precedes
<1>3. /\ \A n \in Position : n > Len(s) => key[n] = <<1, 0>>
      /\ \A n \in Position : n <= Len(s) => key[n] = GemSegmentKey(s[n]) /\ s[n] \in Segments
  BY DEF GemKey, Position
<1> HIDE DEF rest, key
<1>4. CASE I = {}
  <2>1. o = 0
    BY <1>1, <1>4 DEF EndAgainst, SelectInSeq
  <2>2. ASSUME NEW n \in Position, n > c PROVE key[n] = <<1, 0>>
    <3>1. CASE n <= Len(s)
      <4>1. n - c \in 1..Len(rest) /\ s[n] = rest[n - c]
        BY <1>1, <2>2, <3>1 DEF Position
      <4> QED BY <1>2, <1>3, <1>4, <3>1, <4>1
    <3> QED BY <1>3, <3>1 DEF Position
  <2> QED BY <2>1, <2>2 DEF rest, key
<1>5. CASE I # {}
  <2>1. PICK i \in I : \A j \in I : ~(j < i)
    <3>1. I \subseteq Nat
      OBVIOUS
    <3> HIDE DEF I
    <3> QED BY <1>5, <3>1, LeastMember
  <2>2. Min(I) = i
    BY <2>1 DEF Min
  <2>3. o = IF rest[i].kind = "word" THEN 1 ELSE -1
    BY <1>1, <1>5, <2>1, <2>2 DEF EndAgainst, SelectInSeq
  <2>4. i \in Nat /\ c + i \in Position /\ c + i > c /\ c + i <= Len(s) /\ rest[i] = s[c + i] /\ c # Len(s)
    <3>1. i \in 1..Len(rest)
      OBVIOUS
    <3> QED BY <1>1, <3>1 DEF Position
  <2>5. ASSUME NEW m \in (c + 1)..(c + i - 1) PROVE key[m] = <<1, 0>>
    <3>1. m - c \in 1..Len(rest) /\ m - c < i /\ s[m] = rest[m - c] /\ m \in Position /\ m <= Len(s)
      BY <1>1, <2>4 DEF Position
    <3> QED BY <1>2, <1>3, <2>1, <3>1
  <2>6. IF o = 1 THEN Precedes(key[c + i], <<1, 0>>) ELSE Precedes(<<1, 0>>, key[c + i])
    BY <1>2, <1>3, <2>1, <2>3, <2>4
  <2> HIDE DEF I, o
  <2>7. o \in {-1, 1} /\ c # Len(s)
    BY <2>3, <2>4
  <2>8. \E n \in Position :
          /\ n > c /\ \A m \in (c + 1)..(n - 1) : key[m] = <<1, 0>>
          /\ IF o = 1 THEN Precedes(key[n], <<1, 0>>) ELSE Precedes(<<1, 0>>, key[n])
    <3>1. PICK n \in Position : n = c + i
      BY <2>4
    <3>2. n > c
      BY <2>4, <3>1
    <3>3. \A m \in (c + 1)..(n - 1) : key[m] = <<1, 0>>
      BY <2>4, <2>5, <3>1
    <3>4. IF o = 1 THEN Precedes(key[n], <<1, 0>>) ELSE Precedes(<<1, 0>>, key[n])
      BY <2>6, <3>1
    <3> QED BY <3>2, <3>3, <3>4, Zenon
  <2> QED BY <2>7, <2>8 DEF o, rest, key
<1> QED BY <1>4, <1>5

\* compare_versions of rubygems.rs follows the keys of the canonical segments.
LEMMA GemCompares ==
  ASSUME NEW a \in Seq(Segments), NEW b \in Seq(Segments)
  PROVE  /\ GemKey(GemCanonical(a)) \in Keys
         /\ Compares(GemOrder(a, b), GemKey(GemCanonical(a)), GemKey(GemCanonical(b)))
<1> DEFINE l == GemCanonical(a)
           r == GemCanonical(b)
           c == Shorter(l, r)
           orders == [i \in 1..c |-> GemSegmentOrder(l[i], r[i])]
           lo == EndAgainst(SubSeq(l, c + 1, Len(l)))
           ro == EndAgainst(SubSeq(r, c + 1, Len(r)))
           f == GemKey(l)
           g == GemKey(r)
<1>1. l \in Seq(Segments) /\ r \in Seq(Segments)
  BY GemCanonicalIs
<1> HIDE DEF l, r
<1>2. c \in Nat /\ c <= Len(l) /\ c <= Len(r) /\ (c = Len(l) \/ c = Len(r))
  BY <1>1 DEF Shorter
<1> HIDE DEF c
<1>3. \A i \in Position : /\ i <= Len(l) => l[i] \in Segments
                          /\ i <= Len(r) => r[i] \in Segments
  BY <1>1 DEF Position
<1>4. \A x \in Segments : GemSegmentKey(x) \in Int \X Int
  BY DEF Segments, GemSegmentKey
<1>5. f \in Keys /\ g \in Keys
  BY <1>3, <1>4 DEF Keys, GemKey
<1>6. \A i \in 1..c : /\ l[i] \in Segments /\ r[i] \in Segments
                      /\ f[i] = GemSegmentKey(l[i]) /\ g[i] = GemSegmentKey(r[i])
  BY <1>1, <1>2, <1>3 DEF GemKey, Position
<1>7. ASSUME NEW x \in Segments, NEW y \in Segments
      PROVE  /\ GemSegmentOrder(x, y) \in {-1, 0, 1}
             /\ GemSegmentOrder(x, y) = 0 => GemSegmentKey(x) = GemSegmentKey(y)
             /\ GemSegmentOrder(x, y) = -1 => Precedes(GemSegmentKey(x), GemSegmentKey(y))
             /\ GemSegmentOrder(x, y) = 1 => Precedes(GemSegmentKey(y), GemSegmentKey(x))
  BY DEF Segments, GemSegmentOrder, GemSegmentKey, Precedes, Sign
<1>8. orders \in [1..c -> {-1, 0, 1}]
  BY <1>6, <1>7
<1>9. \A i \in 1..c : /\ orders[i] = 0 => f[i] = g[i]
                      /\ orders[i] = -1 => Precedes(f[i], g[i])
                      /\ orders[i] = 1 => Precedes(g[i], f[i])
  <2> HIDE DEF f, g
  <2> QED BY <1>6, <1>7
<1>10. /\ lo \in {-1, 0, 1} /\ ro \in {-1, 0, 1}
       /\ lo = 0 => \A n \in Position : n > c => f[n] = <<1, 0>>
       /\ ro = 0 => \A n \in Position : n > c => g[n] = <<1, 0>>
       /\ lo # 0 => \E n \in Position :
                      /\ n > c /\ \A m \in (c + 1)..(n - 1) : f[m] = <<1, 0>>
                      /\ IF lo = 1 THEN Precedes(f[n], <<1, 0>>) ELSE Precedes(<<1, 0>>, f[n])
       /\ ro # 0 => \E n \in Position :
                      /\ n > c /\ \A m \in (c + 1)..(n - 1) : g[m] = <<1, 0>>
                      /\ IF ro = 1 THEN Precedes(g[n], <<1, 0>>) ELSE Precedes(<<1, 0>>, g[n])
       /\ lo = 0 \/ ro = 0
  BY <1>1, <1>2, EndAgainstIs
<1> HIDE DEF f, g, orders, lo, ro
<1>11. ASSUME SameUpTo(f, g, c + 1) PROVE Compares(ro - lo, f, g)
  <2>1. \A m \in 1..c : f[m] = g[m]
    BY <1>2, <1>11 DEF SameUpTo
  <2>2. CASE lo = 0 /\ ro = 0
    <3>1. ASSUME NEW m \in Position PROVE f[m] = g[m]
      <4>1. m \in 1..c \/ m > c
        BY <1>2 DEF Position
      <4> QED BY <1>10, <2>1, <2>2, <4>1
    <3>2. f = g
      BY <1>5, <3>1 DEF Keys
    <3> QED BY <2>2, <3>2 DEF Compares
  <2>3. ASSUME lo # 0, ro = 0 PROVE Compares(ro - lo, f, g)
    <3>1. PICK n \in Position :
            /\ n > c /\ \A m \in (c + 1)..(n - 1) : f[m] = <<1, 0>>
            /\ IF lo = 1 THEN Precedes(f[n], <<1, 0>>) ELSE Precedes(<<1, 0>>, f[n])
      BY <1>10, <2>3
    <3>2. ASSUME NEW m \in 1..(n - 1) PROVE f[m] = g[m]
      <4>1. m \in Position /\ (m \in 1..c \/ (m > c /\ m \in (c + 1)..(n - 1)))
        BY <1>2 DEF Position
      <4> QED BY <1>10, <2>1, <2>3, <3>1, <4>1
    <3>3. SameUpTo(f, g, n) /\ SameUpTo(g, f, n) /\ g[n] = <<1, 0>>
      BY <1>10, <2>3, <3>1, <3>2 DEF SameUpTo
    <3>4. IF lo = 1 THEN Before(f, g) ELSE Before(g, f)
      BY <3>1, <3>3 DEF Before
    <3> QED BY <1>10, <2>3, <3>4 DEF Compares
  <2>4. ASSUME ro # 0, lo = 0 PROVE Compares(ro - lo, f, g)
    <3>1. PICK n \in Position :
            /\ n > c /\ \A m \in (c + 1)..(n - 1) : g[m] = <<1, 0>>
            /\ IF ro = 1 THEN Precedes(g[n], <<1, 0>>) ELSE Precedes(<<1, 0>>, g[n])
      BY <1>10, <2>4
    <3>2. ASSUME NEW m \in 1..(n - 1) PROVE f[m] = g[m]
      <4>1. m \in Position /\ (m \in 1..c \/ (m > c /\ m \in (c + 1)..(n - 1)))
        BY <1>2 DEF Position
      <4> QED BY <1>10, <2>1, <2>4, <3>1, <4>1
    <3>3. SameUpTo(f, g, n) /\ SameUpTo(g, f, n) /\ f[n] = <<1, 0>>
      BY <1>10, <2>4, <3>1, <3>2 DEF SameUpTo
    <3>4. IF ro = 1 THEN Before(g, f) ELSE Before(f, g)
      BY <3>1, <3>3 DEF Before
    <3> QED BY <1>10, <2>4, <3>4 DEF Compares
  <2> QED BY <1>10, <2>2, <2>3, <2>4
<1>12. Compares(FirstDifference(orders, ro - lo), f, g)
  BY <1>2, <1>5, <1>8, <1>9, <1>11, OrdersCompare
<1>13. GemOrder(a, b) = FirstDifference(orders, ro - lo)
  BY DEF GemOrder, GemCanonicalOrder, orders, lo, ro, l, r, c
<1> QED BY <1>5, <1>12, <1>13 DEF f, g, l, r

-----------------------------------------------------------------------------
(* Maven. *)

Tokens == MavenTokens({"", "-", "."})

\* What trimming leaves: a first token, no null one last or before a "-".
Trimmed(t, N) ==
  /\ N \in Nat \ {0} /\ t \in [1..N -> Tokens]
  /\ \A i \in 1..N : t[i].prefix = "" <=> i = 1
  /\ N # 1 => ~IsNull(t[N])
  /\ \A i \in 2..(N - 1) : IsNull(t[i]) => t[i + 1].prefix # "-"

\* What is kept of L tokens, of which some are null, and some after a "-".
Keeps(kept, L, nulls, dashed) ==
  /\ L \in Nat /\ kept \subseteq 1..L /\ 1 \in kept
  /\ \A i \in 1..L : i \notin kept <=>
       /\ i > 1
       /\ \E j \in i..L : (\A k \in i..j : k \in nulls) /\ (j = L \/ j + 1 \in dashed)

\* A null token is not kept if those after it, up to the end or a "-", are not.
LEMMA KeptAreNotNull ==
  ASSUME NEW kept, NEW L, NEW nulls, NEW dashed, Keeps(kept, L, nulls, dashed),
         NEW i \in kept, i > 1, NEW j \in i..L, j = L \/ j + 1 \in dashed,
         \A k \in kept : k <= i \/ j < k
  PROVE  i \notin nulls
<1> SUFFICES ASSUME i \in nulls PROVE FALSE
  OBVIOUS
<1>1. L \in Nat /\ i \in 1..L
  BY DEF Keeps
<1>2. ASSUME NEW k \in i..j PROVE k \in nulls
  <2>1. CASE k = i
    BY <2>1
  <2>2. CASE k # i
    <3>1. k \in 1..L /\ ~(k <= i \/ j < k)
      BY <1>1, <2>2
    <3>2. k \notin kept
      BY <3>1
    <3>3. PICK m \in k..L : \A n \in k..m : n \in nulls
      BY <3>1, <3>2 DEF Keeps
    <3>4. k \in k..m
      BY <1>1, <3>1, <3>3
    <3> QED BY <3>3, <3>4
  <2> QED BY <2>1, <2>2
<1>3. i \notin kept
  BY <1>1, <1>2 DEF Keeps
<1> QED BY <1>3

\* Tokens as the parser splits them, and what is known of them by their indices.
Parsed(v, L) ==
  /\ L \in Nat \ {0} /\ v \in [1..L -> Tokens] /\ Len(v) = L
  /\ \A i \in 1..L : v[i].prefix = "" <=> i = 1

\* What trimming keeps (MavenVersion::parse, maven.rs 1078-1095): the first token, no null one last
\* or directly before a "-".
LEMMA TrimmingKeeps ==
  ASSUME NEW v, NEW L, Parsed(v, L)
  PROVE  LET kept == {i \in 1..L : ~Dropped(v, i)}
         IN /\ MavenTrimmed(v) = AtIndices(v, kept)
            /\ Keeps(kept, L, {i \in 1..L : IsNull(v[i])}, {i \in 1..L : v[i].prefix = "-"})
<1> DEFINE kept == {i \in 1..L : ~Dropped(v, i)}
           nulls == {i \in 1..L : IsNull(v[i])}
           dashed == {i \in 1..L : v[i].prefix = "-"}
<1>1. L \in Nat \ {0} /\ DOMAIN v = 1..L /\ Len(v) = L
  BY DEF Parsed
<1>2. MavenTrimmed(v) = AtIndices(v, kept)
  BY <1>1 DEF MavenTrimmed
<1>3. ASSUME NEW i \in 1..L
      PROVE  Dropped(v, i) <=>
               /\ i > 1
               /\ \E j \in i..L : (\A k \in i..j : k \in nulls) /\ (j = L \/ j + 1 \in dashed)
  <2>1. \A j \in i..L : \A k \in i..j : k \in nulls <=> IsNull(v[k])
    BY <1>1
  <2>2. \A j \in i..L : (j = L \/ j + 1 \in dashed) <=> (j = L \/ v[j + 1].prefix = "-")
    BY <1>1
  <2> HIDE DEF nulls, dashed
  <2> QED BY <1>1, <2>1, <2>2 DEF Dropped
<1> HIDE DEF nulls, dashed
<1>4. 1 \in kept
  BY <1>1 DEF Dropped
<1>5. Keeps(kept, L, nulls, dashed)
  BY <1>1, <1>3, <1>4 DEF Keeps
<1> QED BY <1>2, <1>5 DEF nulls, dashed

\* MavenVersion::parse: a null token that is left is neither last nor before a "-".
LEMMA TrimmingLeaves ==
  ASSUME NEW v, NEW L, Parsed(v, L)
  PROVE  \E N \in Nat : Trimmed(MavenTrimmed(v), N)
<1> DEFINE kept == {i \in 1..L : ~Dropped(v, i)}
           nulls == {i \in 1..L : IsNull(v[i])}
           dashed == {i \in 1..L : v[i].prefix = "-"}
           t == MavenTrimmed(v)
<1>1. Keeps(kept, L, nulls, dashed) /\ t = AtIndices(v, kept)
  BY TrimmingKeeps
<1>2. /\ \A i \in 1..L : i \in nulls <=> IsNull(v[i])
      /\ \A i \in 1..L : i \in dashed <=> v[i].prefix = "-"
  OBVIOUS
<1> HIDE DEF kept, nulls, dashed, t
<1>3. L \in Nat /\ kept \subseteq 1..L /\ 1 \in kept
  BY <1>1 DEF Keeps
<1>4. kept \subseteq Nat /\ IsFiniteSet(kept) /\ kept # {}
  <2>1. IsFiniteSet(1..L)
    BY <1>3, FS_Interval
  <2>2. IsFiniteSet(kept)
    BY <1>3, <2>1, FS_Subset
  <2> QED BY <1>3, <2>2
<1>5. PICK N, at : TakenBy(v, kept, N, at)
  BY <1>4, TakenInOrder
<1>6. /\ N \in Nat \ {0} /\ at \in [1..N -> kept] /\ t = [n \in 1..N |-> v[at[n]]]
      /\ \A i \in kept : at[1] <= i /\ i <= at[N]
      /\ \A n \in 1..(N - 1) : /\ at[n] < at[n + 1]
                               /\ \A i \in kept : i <= at[n] \/ at[n + 1] <= i
      /\ \A n \in 1..N : n # 1 => at[1] < at[n]
  BY <1>1, <1>5 DEF TakenBy
<1>7. \A n \in 1..N : at[n] \in 1..L /\ t[n] = v[at[n]] /\ at[n] \in kept
  BY <1>3, <1>6
<1>8. t \in [1..N -> Tokens]
  <2>1. \A n \in 1..N : t[n] \in Tokens
    BY <1>7 DEF Parsed
  <2> QED BY <1>6, <2>1
<1>9. at[1] = 1
  <2>1. at[1] <= 1 /\ at[1] \in 1..L
    BY <1>3, <1>6, <1>7
  <2> QED BY <1>3, <2>1
<1>10. \A i \in 1..N : t[i].prefix = "" <=> i = 1
  <2>1. \A i \in 1..N : i # 1 => at[i] # 1
    BY <1>3, <1>6, <1>7, <1>9
  <2> QED BY <1>7, <1>9, <2>1 DEF Parsed
<1>11. \A i \in kept : \A j \in i..L :
         i > 1 /\ (j = L \/ j + 1 \in dashed) /\ (\A k \in kept : k <= i \/ j < k)
           => i \notin nulls
  BY <1>1, KeptAreNotNull
<1>12. ASSUME N # 1 PROVE ~IsNull(t[N])
  <2>1. N \in 1..N
    BY <1>6
  <2>2. PICK i \in 1..L : i = at[N] /\ i \in kept /\ i > 1 /\ t[N] = v[i]
    BY <1>3, <1>6, <1>7, <1>9, <1>12, <2>1
  <2>3. \A k \in kept : k <= i \/ L < k
    BY <1>6, <2>2
  <2>4. L \in i..L
    BY <1>3
  <2>5. i \notin nulls
    BY <1>11, <2>2, <2>3, <2>4
  <2> QED BY <1>2, <2>2, <2>5
<1>13. ASSUME NEW i \in 2..(N - 1), t[i + 1].prefix = "-" PROVE ~IsNull(t[i])
  <2>1. i \in 1..N /\ i + 1 \in 1..N /\ i \in 1..(N - 1) /\ i # 1
    BY <1>6
  <2>2. PICK a \in 1..L, b \in 1..L : a = at[i] /\ b = at[i + 1]
    BY <1>7, <2>1
  <2>3. /\ a > 1 /\ a \in kept /\ t[i] = v[a] /\ a < b
        /\ b \in dashed /\ \A k \in kept : k <= a \/ b <= k
    BY <1>2, <1>3, <1>6, <1>7, <1>9, <1>13, <2>1, <2>2
  <2>4. PICK j \in a..L : j + 1 = b
    <3>1. b - 1 \in a..L /\ (b - 1) + 1 = b
      BY <1>3, <2>3
    <3> QED BY <3>1
  <2>5. \A k \in kept : k <= a \/ j < k
    BY <1>3, <2>3, <2>4
  <2>6. a \notin nulls
    BY <1>11, <2>3, <2>4, <2>5
  <2> QED BY <1>2, <2>3, <2>6
<1>14. Trimmed(t, N)
  BY <1>6, <1>8, <1>10, <1>12, <1>13 DEF Trimmed
<1> QED BY <1>6, <1>14 DEF t

\* What MavenVersion::parse returns for any tokens (maven.rs 1078-1095).
LEMMA MavenTrimmedIs ==
  ASSUME NEW v \in Seq(Tokens), v # <<>>, \A i \in DOMAIN v : v[i].prefix = "" <=> i = 1
  PROVE  Trimmed(MavenTrimmed(v), Len(MavenTrimmed(v)))
<1>1. Len(v) \in Nat /\ DOMAIN v = 1..Len(v) /\ v \in [1..Len(v) -> Tokens] /\ Len(v) # 0
  BY EmptySeq, LenProperties
<1>2. Parsed(v, Len(v))
  BY <1>1 DEF Parsed
<1>3. PICK N \in Nat : Trimmed(MavenTrimmed(v), N)
  BY <1>2, TrimmingLeaves
<1>4. Len(MavenTrimmed(v)) = N
  BY <1>3, LengthOfFunction DEF Trimmed
<1> QED BY <1>3, <1>4

\* Of first tokens the words come first, and then the empty one; of others, words after a dot,
\* words before the empty one, the end, other words, and numbers after "-" and after a dot.
MavenTokenKey(token) ==
  LET value == token.value
      number == IF value = Empty THEN 0 ELSE value.val + 1
  IN IF IsNumeric(value)
     THEN <<IF token.prefix = "" THEN 1 ELSE IF token.prefix = "." THEN 5 ELSE 4, number>>
     ELSE <<IF token.prefix # "-" THEN 0 ELSE IF value.val < 5 THEN 1 ELSE 3, value.val>>
EndKey == <<2, 0>>
MavenKey(t, N) == [n \in Position |-> IF n <= N THEN MavenTokenKey(t[n]) ELSE EndKey]

\* After a dot there is a number or a known word.
Known(token) ==
  token.prefix = "." => \/ token.value.kind = "number"
                        \/ token.value.kind = "word" /\ token.value.val <= Sp.val

\* Tokens of which one is the first of its version if the other is.
SamePlace(a, b) == (a.prefix = "") <=> (b.prefix = "")
NotFirst(b) == b.prefix # ""

\* Keys of tokens against one another, and against the end.
LEMMA SameGroup ==
  ASSUME NEW i \in {1, 4, 5}, NEW m \in Nat, NEW n \in Nat
  PROVE  /\ <<i, m>> \in Int \X Int
         /\ Precedes(<<i, m>>, <<i, n>>) <=> m < n
         /\ Precedes(<<i, n>>, <<i, m>>) <=> n < m
BY DEF Precedes

\* A word comes before a number of the same place.
LEMMA WordsBeforeNumbers ==
  ASSUME NEW i \in {1, 4, 5}, NEW g \in {0, 1, 3}, g < i, NEW m \in Nat, NEW n \in Nat
  PROVE  /\ <<i, m>> \in Int \X Int /\ <<g, n>> \in Int \X Int
         /\ Precedes(<<g, n>>, <<i, m>>)
BY DEF Precedes

\* Words of the same place compare as their ranks.
LEMMA WordsCompare ==
  ASSUME NEW g \in {0, 1, 3}, NEW h \in {0, 1, 3}, NEW m \in Nat, NEW n \in Nat,
         m < n => g <= h, n < m => h <= g, m = n => g = h
  PROVE  /\ <<g, m>> \in Int \X Int
         /\ Sign(m - n) \in {-1, 0, 1}
         /\ Sign(m - n) = 0 => <<g, m>> = <<h, n>>
         /\ Sign(m - n) = -1 => Precedes(<<g, m>>, <<h, n>>)
         /\ Sign(m - n) = 1 => Precedes(<<h, n>>, <<g, m>>)
BY DEF Precedes, Sign

\* How the keys of numbers and words compare with the key of the end.
LEMMA AgainstEnd ==
  ASSUME NEW n \in Nat
  PROVE  /\ Sign(0 - n) = IF n = 0 THEN 0 ELSE -1
         /\ Precedes(EndKey, <<5, n + 1>>) /\ Precedes(EndKey, <<4, n + 1>>)
         /\ Precedes(EndKey, <<4, 0>>) /\ Sign(5 - 5) = 0
         /\ Precedes(<<0, n>>, EndKey)
         /\ n <= 6 => Sign(7 - n) = 1
         /\ n < 5 => Sign(5 - n) = 1
         /\ n > 5 => Sign(5 - n) = -1
         /\ Precedes(<<1, n>>, EndKey)
         /\ Precedes(EndKey, <<3, n>>)
BY DEF Precedes, EndKey, Sign

\* A value is a number, a word that is not the empty one, or the empty one.
LEMMA MavenValuesAre ==
  ASSUME NEW value \in MavenValues
  PROVE  \/ /\ value.kind = "number" /\ value.val \in Nat /\ value # Empty
            /\ value = Num(0) <=> value.val = 0
         \/ /\ value.kind = "word" /\ value.val \in Nat /\ value.val # 5 /\ value.val # 7
            /\ value # Empty /\ value # Num(0)
         \/ value.kind = "empty" /\ value.val = 5 /\ value = Empty /\ value # Num(0)
BY DEF MavenValues, Empty, Num

\* The cases of compare_tokens one by one.
LEMMA TokenOrderIs ==
  ASSUME NEW a, NEW b
  PROVE  LET o == MavenTokenOrder(a, b)
             an == IsNumeric(a.value)
             bn == IsNumeric(b.value)
         IN /\ a.prefix # b.prefix => o = Sign(SeparatorOrder(a) - SeparatorOrder(b))
            /\ a.prefix = b.prefix /\ an /\ bn => o = NumericOrder(a.value, b.value)
            /\ a.prefix = b.prefix /\ an /\ ~bn /\ ~a.null => o = 1
            /\ a.prefix = b.prefix /\ ~an /\ bn /\ ~b.null => o = -1
            /\ /\ a.prefix = b.prefix /\ ~(an /\ bn) /\ ~(an /\ ~bn /\ ~a.null)
               /\ ~(~an /\ bn /\ ~b.null)
               => o = QualifierOrder(a.value, b.value)
<1> DEFINE o == MavenTokenOrder(a, b)
           an == IsNumeric(a.value)
           bn == IsNumeric(b.value)
           sep == Sign(SeparatorOrder(a) - SeparatorOrder(b))
           num == NumericOrder(a.value, b.value)
           qual == QualifierOrder(a.value, b.value)
<1>1. o = CASE a.prefix # b.prefix -> sep
            [] a.prefix = b.prefix /\ an /\ bn -> num
            [] a.prefix = b.prefix /\ an /\ ~bn /\ ~a.null -> 1
            [] a.prefix = b.prefix /\ ~an /\ bn /\ ~b.null -> -1
            [] OTHER -> qual
  BY DEF MavenTokenOrder
<1> HIDE DEF o, an, bn, sep, num, qual
<1>2. a.prefix # b.prefix => o = sep
  BY <1>1
<1>3. a.prefix = b.prefix /\ an /\ bn => o = num
  BY <1>1
<1>4. a.prefix = b.prefix /\ an /\ ~bn /\ ~a.null => o = 1
  BY <1>1
<1>5. a.prefix = b.prefix /\ ~an /\ bn /\ ~b.null => o = -1
  BY <1>1
<1>6. /\ a.prefix = b.prefix /\ ~(an /\ bn) /\ ~(an /\ ~bn /\ ~a.null)
      /\ ~(~an /\ bn /\ ~b.null)
      => o = qual
  BY <1>1
<1> QED BY <1>2, <1>3, <1>4, <1>5, <1>6 DEF o, an, bn, sep, num, qual

\* The cases of qualifier_order (maven.rs 1173-1184).
LEMMA SeparatorOrderIs ==
  ASSUME NEW a
  PROVE  /\ a.prefix = "-" => SeparatorOrder(a) = IF IsNumeric(a.value) THEN 2 ELSE 1
         /\ a.prefix = "." => SeparatorOrder(a) = IF IsNumeric(a.value) THEN 3 ELSE 0
         /\ SeparatorOrder(a) \in Int
<1> DEFINE n == IsNumeric(a.value)
<1>1. SeparatorOrder(a) = CASE a.prefix = "-" -> IF n THEN 2 ELSE 1
                            [] a.prefix = "." -> IF n THEN 3 ELSE 0
                            [] OTHER -> 0
  BY DEF SeparatorOrder
<1> HIDE DEF n
<1> QED BY <1>1 DEF n

\* A key after a separator says what the separator is ranked as.
SeparatorRank(g) == IF g = 0 THEN 0 ELSE IF g = 5 THEN 3 ELSE IF g = 4 THEN 2 ELSE 1
IsSeparated(token, g, m) ==
  /\ MavenTokenKey(token) = <<g, m>> /\ SeparatorOrder(token) = SeparatorRank(g)
  /\ IF token.prefix = "." THEN g \in {0, 5} ELSE g \in {1, 3, 4}

\* A token after a separator has such a key.
LEMMA SeparatedKey ==
  ASSUME NEW token \in Tokens, token.prefix \in {"-", "."}
  PROVE  \E g \in 0..5, m \in Nat : IsSeparated(token, g, m)
<1> DEFINE value == token.value
           rank == IF value = Empty THEN 0 ELSE value.val + 1
           g == IF IsNumeric(value) THEN IF token.prefix = "." THEN 5 ELSE 4
                ELSE IF token.prefix = "." THEN 0 ELSE IF value.val < 5 THEN 1 ELSE 3
           m == IF IsNumeric(value) THEN rank ELSE value.val
<1>1. value \in MavenValues
  BY DEF Tokens, MavenTokens
<1>2. value = Empty \/ value.val \in Nat
  BY <1>1, MavenValuesAre
<1>3. m \in Nat
  BY <1>1, <1>2, MavenValuesAre DEF IsNumeric
<1>4. MavenTokenKey(token) = <<g, m>>
  BY DEF MavenTokenKey
<1>5. SeparatorOrder(token) = SeparatorRank(g)
  BY SeparatorOrderIs DEF SeparatorRank
<1>6. g \in 0..5 /\ IF token.prefix = "." THEN g \in {0, 5} ELSE g \in {1, 3, 4}
  OBVIOUS
<1> HIDE DEF g, m
<1> QED BY <1>3, <1>4, <1>5, <1>6 DEF IsSeparated

\* Tokens after different separators compare as their keys.
LEMMA SeparatorsCompare ==
  ASSUME NEW g \in 0..5, NEW h \in 0..5, NEW m \in Nat, NEW n \in Nat,
         (g \in {0, 5} /\ h \in {1, 3, 4}) \/ (h \in {0, 5} /\ g \in {1, 3, 4})
  PROVE  LET o == Sign(SeparatorRank(g) - SeparatorRank(h))
         IN /\ o \in {-1, 1} /\ <<g, m>> \in Int \X Int
            /\ o = -1 => Precedes(<<g, m>>, <<h, n>>)
            /\ o = 1 => Precedes(<<h, n>>, <<g, m>>)
BY DEF SeparatorRank, Sign, Precedes

\* Two tokens that are both there are compared as their keys.
LEMMA TokensCompare ==
  ASSUME NEW a \in Tokens, NEW b \in Tokens, Known(a), Known(b), SamePlace(a, b)
  PROVE  /\ MavenTokenKey(a) \in Int \X Int
         /\ MavenTokenOrder(a, b) \in {-1, 0, 1}
         /\ MavenTokenOrder(a, b) = 0 => MavenTokenKey(a) = MavenTokenKey(b)
         /\ MavenTokenOrder(a, b) = -1 => Precedes(MavenTokenKey(a), MavenTokenKey(b))
         /\ MavenTokenOrder(a, b) = 1 => Precedes(MavenTokenKey(b), MavenTokenKey(a))
<1>1. /\ a.prefix \in {"", "-", "."} /\ b.prefix \in {"", "-", "."} /\ ~a.null /\ ~b.null
      /\ a.value \in MavenValues /\ b.value \in MavenValues
      /\ (a.prefix = "") <=> (b.prefix = "")
  BY DEF Tokens, MavenTokens, SamePlace
<1> DEFINE x == a.value
           y == b.value
           o == MavenTokenOrder(a, b)
<1>2. x \in MavenValues /\ y \in MavenValues
  BY <1>1
<1>3. CASE a.prefix # b.prefix
  <2>1. o = Sign(SeparatorOrder(a) - SeparatorOrder(b))
    BY <1>3, TokenOrderIs
  <2>2. a.prefix \in {"-", "."} /\ b.prefix \in {"-", "."}
    <3> DEFINE p == a.prefix
               q == b.prefix
    <3>1. p \in {"", "-", "."} /\ q \in {"", "-", "."} /\ p # q
      BY <1>1, <1>3
    <3>2. (p = "" => q = "") /\ (q = "" => p = "")
      BY <1>1
    <3> HIDE DEF p, q
    <3>3. p # "" /\ q # ""
      BY <3>1, <3>2, Zenon
    <3>4. p \in {"-", "."} /\ q \in {"-", "."}
      BY <3>1, <3>3
    <3> QED BY <3>4 DEF p, q
  <2>3. PICK g \in 0..5, m \in Nat : IsSeparated(a, g, m)
    BY <2>2, SeparatedKey
  <2>4. PICK h \in 0..5, n \in Nat : IsSeparated(b, h, n)
    BY <2>2, SeparatedKey
  <2>5. (g \in {0, 5} /\ h \in {1, 3, 4}) \/ (h \in {0, 5} /\ g \in {1, 3, 4})
    BY <1>3, <2>2, <2>3, <2>4 DEF IsSeparated
  <2>6. SeparatorOrder(a) = SeparatorRank(g) /\ SeparatorOrder(b) = SeparatorRank(h)
    BY <2>3, <2>4 DEF IsSeparated
  <2>7. MavenTokenKey(a) = <<g, m>> /\ MavenTokenKey(b) = <<h, n>>
    BY <2>3, <2>4 DEF IsSeparated
  <2> HIDE DEF o
  <2>8. /\ o \in {-1, 1} /\ <<g, m>> \in Int \X Int
        /\ o = -1 => Precedes(<<g, m>>, <<h, n>>)
        /\ o = 1 => Precedes(<<h, n>>, <<g, m>>)
    BY <2>1, <2>5, <2>6, SeparatorsCompare
  <2> QED BY <2>7, <2>8 DEF o
<1>4. CASE a.prefix = b.prefix
  <2> DEFINE i == IF a.prefix = "" THEN 1 ELSE IF a.prefix = "." THEN 5 ELSE 4
             group(n) == IF a.prefix # "-" THEN 0 ELSE IF n < 5 THEN 1 ELSE 3
             rank(v) == IF v = Empty THEN 0 ELSE v.val + 1
  <2>1. /\ IsNumeric(x) => MavenTokenKey(a) = <<i, rank(x)>>
        /\ IsNumeric(y) => MavenTokenKey(b) = <<i, rank(y)>>
        /\ ~IsNumeric(x) => MavenTokenKey(a) = <<group(x.val), x.val>>
        /\ ~IsNumeric(y) => MavenTokenKey(b) = <<group(y.val), y.val>>
    BY <1>4 DEF MavenTokenKey
  <2>2. i \in {1, 4, 5}
    OBVIOUS
  <2>3. \A v \in MavenValues : /\ ~IsNumeric(v) => v.val \in Nat
                               /\ IsNumeric(v) => rank(v) \in Nat
    BY MavenValuesAre DEF IsNumeric
  <2>8. /\ \A n \in Nat : group(n) \in {0, 1, 3} /\ group(n) < i
        /\ \A m, n \in Nat : m <= n => group(m) <= group(n)
    <3>1. CASE a.prefix = "-"
      BY <3>1
    <3>2. CASE a.prefix # "-"
      BY <3>2
    <3> QED BY <3>1, <3>2
  <2> HIDE DEF i, group
  <2>4. CASE IsNumeric(x) /\ IsNumeric(y)
    <3>1. o = NumericOrder(x, y)
      BY <1>4, <2>4, TokenOrderIs
    <3>2. o = IF rank(x) < rank(y) THEN -1 ELSE IF rank(x) = rank(y) THEN 0 ELSE 1
      BY <1>2, <2>4, <3>1, MavenValuesAre DEF NumericOrder, IsNumeric, Sign
    <3>3. PICK m \in Nat, n \in Nat : m = rank(x) /\ n = rank(y)
      BY <1>2, <2>3, <2>4
    <3> HIDE DEF rank
    <3>4. /\ MavenTokenKey(a) = <<i, m>> /\ MavenTokenKey(b) = <<i, n>>
          /\ o = IF m < n THEN -1 ELSE IF m = n THEN 0 ELSE 1
      BY <2>1, <2>4, <3>2, <3>3
    <3>5. /\ <<i, m>> \in Int \X Int
          /\ Precedes(<<i, m>>, <<i, n>>) <=> m < n
          /\ Precedes(<<i, n>>, <<i, m>>) <=> n < m
      BY <2>2, SameGroup
    <3> HIDE DEF o
    <3> QED BY <3>4, <3>5 DEF o
  <2>5. CASE IsNumeric(x) /\ ~IsNumeric(y)
    <3>1. o = 1
      BY <1>1, <1>4, <2>5, TokenOrderIs
    <3>2. PICK m \in Nat, n \in Nat : m = rank(x) /\ n = y.val
      BY <1>2, <2>3, <2>5
    <3>3. MavenTokenKey(a) = <<i, m>> /\ MavenTokenKey(b) = <<group(n), n>>
      BY <2>1, <2>5, <3>2
    <3>4. Precedes(<<group(n), n>>, <<i, m>>) /\ <<i, m>> \in Int \X Int
      BY <2>2, <2>8, WordsBeforeNumbers
    <3> QED BY <3>1, <3>3, <3>4
  <2>6. CASE ~IsNumeric(x) /\ IsNumeric(y)
    <3>1. o = -1
      BY <1>1, <1>4, <2>6, TokenOrderIs
    <3>2. PICK m \in Nat, n \in Nat : m = x.val /\ n = rank(y)
      BY <1>2, <2>3, <2>6
    <3>3. MavenTokenKey(a) = <<group(m), m>> /\ MavenTokenKey(b) = <<i, n>>
      BY <2>1, <2>6, <3>2
    <3>4. Precedes(<<group(m), m>>, <<i, n>>) /\ <<group(m), m>> \in Int \X Int
      BY <2>2, <2>8, WordsBeforeNumbers
    <3> QED BY <3>1, <3>3, <3>4
  <2>7. CASE ~IsNumeric(x) /\ ~IsNumeric(y)
    <3>1. o = QualifierOrder(x, y)
      BY <1>4, <2>7, TokenOrderIs
    <3>2. PICK m \in Nat, n \in Nat : m = x.val /\ n = y.val
      BY <1>2, <2>3, <2>7
    <3>3. o = Sign(m - n)
      BY <2>7, <3>1, <3>2 DEF QualifierOrder, IsNumeric
    <3>4. MavenTokenKey(a) = <<group(m), m>> /\ MavenTokenKey(b) = <<group(n), n>>
      BY <2>1, <2>7, <3>2
    <3>5. /\ <<group(m), m>> \in Int \X Int
          /\ o \in {-1, 0, 1}
          /\ o = 0 => <<group(m), m>> = <<group(n), n>>
          /\ o = -1 => Precedes(<<group(m), m>>, <<group(n), n>>)
          /\ o = 1 => Precedes(<<group(n), n>>, <<group(m), m>>)
      BY <2>8, <3>3, WordsCompare
    <3> QED BY <3>4, <3>5
  <2> QED BY <2>4, <2>5, <2>6, <2>7
<1> QED BY <1>3, <1>4

\* A token that is there is compared with the end as their keys, unless padding equals it;
\* then it is null.
LEMMA EndCompares ==
  ASSUME NEW b \in Tokens, Known(b), NotFirst(b)
  PROVE  LET o == MavenTokenOrder(NullToken(b), b)
         IN /\ o \in {-1, 0, 1}
            /\ o = 0 => PaddingEquals(b) /\ IsNull(b)
            /\ o # 1 => Precedes(EndKey, MavenTokenKey(b))
            /\ o = 1 => Precedes(MavenTokenKey(b), EndKey) /\ b.value.kind = "word"
<1> DEFINE null == NullToken(b)
           o == MavenTokenOrder(null, b)
           x == null.value
           y == b.value
<1>1. b.prefix \in {"-", "."} /\ ~b.null /\ y \in MavenValues
  BY DEF Tokens, MavenTokens, NotFirst
<1>2. null.prefix = b.prefix /\ null.null /\ x = IF b.prefix = "." THEN Num(0) ELSE Empty
  BY DEF NullToken
<1>3. IF b.prefix = "." THEN x.kind = "number" /\ x.val = 0 ELSE x.kind = "empty" /\ x.val = 5
  <2>1. Num(0).kind = "number" /\ Num(0).val = 0 /\ Empty.kind = "empty" /\ Empty.val = 5
    BY DEF Num, Empty
  <2> QED BY <1>2, <2>1
<1>4. MavenTokenKey(b) =
        IF IsNumeric(y)
        THEN <<IF b.prefix = "." THEN 5 ELSE 4, IF y = Empty THEN 0 ELSE y.val + 1>>
        ELSE <<IF b.prefix = "." THEN 0 ELSE IF y.val < 5 THEN 1 ELSE 3, y.val>>
  BY <1>1 DEF MavenTokenKey
<1>5. /\ b.prefix = "." => y.kind = "number" \/ (y.kind = "word" /\ y.val <= 6)
      /\ y.kind = "number" => y.val \in Nat /\ y # Empty /\ (y = Num(0) <=> y.val = 0)
      /\ y.kind = "word" => y.val \in Nat /\ y.val # 5
      /\ y.kind \notin {"number", "word"} => y.kind = "empty" /\ y.val = 5 /\ y = Empty
  BY <1>1, MavenValuesAre DEF Known, Sp, Word
<1>6. /\ IsNumeric(y) => o = NumericOrder(x, y)
      /\ ~IsNumeric(y) => o = QualifierOrder(x, y)
  BY <1>2, <1>3, TokenOrderIs DEF IsNumeric
<1> HIDE DEF null, o, x, y
<1>7. ASSUME y.kind = "number"
      PROVE  /\ o \in {-1, 0} /\ Precedes(EndKey, MavenTokenKey(b))
             /\ o = 0 => PaddingEquals(b) /\ IsNull(b)
  <2>1. PICK n \in Nat : n = y.val
    BY <1>5, <1>7
  <2>2. CASE b.prefix = "."
    <3>1. o = Sign(0 - n)
      BY <1>2, <1>3, <1>6, <1>7, <2>1, <2>2 DEF NumericOrder, IsNumeric
    <3>2. MavenTokenKey(b) = <<5, n + 1>>
      BY <1>4, <1>5, <1>7, <2>1, <2>2 DEF IsNumeric
    <3>3. Precedes(EndKey, MavenTokenKey(b)) /\ o = IF n = 0 THEN 0 ELSE -1
      BY <3>1, <3>2, AgainstEnd
    <3>4. n = 0 => y = x /\ y = Num(0)
      BY <1>2, <1>5, <1>7, <2>1, <2>2
    <3>5. o = 0 => PaddingEquals(b) /\ IsNull(b)
      BY <3>3, <3>4 DEF PaddingEquals, IsNull, null, x, y
    <3> QED BY <3>3, <3>5
  <2>3. CASE b.prefix = "-"
    <3>1. o = -1
      BY <1>2, <1>3, <1>6, <1>7, <2>3 DEF NumericOrder, IsNumeric
    <3>2. MavenTokenKey(b) = <<4, n + 1>>
      BY <1>4, <1>5, <1>7, <2>1, <2>3 DEF IsNumeric
    <3>3. Precedes(EndKey, MavenTokenKey(b))
      BY <3>2, AgainstEnd
    <3> QED BY <3>1, <3>3
  <2> QED BY <1>1, <2>2, <2>3
<1>8. ASSUME y.kind = "empty"
      PROVE  o = 0 /\ Precedes(EndKey, MavenTokenKey(b)) /\ PaddingEquals(b) /\ IsNull(b)
  <2>1. b.prefix = "-" /\ y = x /\ y = Empty
    BY <1>1, <1>2, <1>5, <1>8
  <2>2. o = Sign(5 - 5)
    BY <1>3, <1>5, <1>6, <1>8, <2>1 DEF NumericOrder, IsNumeric
  <2>3. MavenTokenKey(b) = <<4, 0>>
    BY <1>4, <1>8, <2>1 DEF IsNumeric
  <2>4. 0 \in Nat
    OBVIOUS
  <2>5. o = 0 /\ Precedes(EndKey, MavenTokenKey(b))
    BY <2>2, <2>3, <2>4, AgainstEnd
  <2>6. PaddingEquals(b) /\ IsNull(b)
    BY <2>1 DEF PaddingEquals, IsNull, null, x, y
  <2> QED BY <2>5, <2>6
<1>9. ASSUME y.kind = "word"
      PROVE  /\ o \in {-1, 1}
             /\ o = -1 => Precedes(EndKey, MavenTokenKey(b))
             /\ o = 1 => Precedes(MavenTokenKey(b), EndKey)
  <2>1. PICK n \in Nat : n = y.val /\ n # 5 /\ (b.prefix = "." => n <= 6)
    BY <1>5, <1>9
  <2>2. CASE b.prefix = "."
    <3>1. o = Sign(7 - n)
      BY <1>2, <1>3, <1>6, <1>9, <2>1, <2>2 DEF QualifierOrder, IsNumeric
    <3>2. MavenTokenKey(b) = <<0, n>>
      BY <1>4, <1>9, <2>1, <2>2 DEF IsNumeric
    <3>3. o = 1 /\ Precedes(MavenTokenKey(b), EndKey)
      BY <2>1, <2>2, <3>1, <3>2, AgainstEnd
    <3> QED BY <3>3
  <2>3. CASE b.prefix = "-"
    <3>1. o = Sign(5 - n)
      BY <1>2, <1>3, <1>6, <1>9, <2>1, <2>3 DEF QualifierOrder, IsNumeric
    <3>2. MavenTokenKey(b) = <<IF n < 5 THEN 1 ELSE 3, n>>
      BY <1>4, <1>9, <2>1, <2>3 DEF IsNumeric
    <3>3. CASE n < 5
      <4>1. o = 1 /\ Precedes(MavenTokenKey(b), EndKey)
        BY <3>1, <3>2, <3>3, AgainstEnd
      <4> QED BY <4>1
    <3>4. CASE n > 5
      <4>1. ~(n < 5)
        BY <3>4
      <4>2. o = -1 /\ Precedes(EndKey, MavenTokenKey(b))
        BY <3>1, <3>2, <3>4, <4>1, AgainstEnd
      <4> QED BY <4>2
    <3> QED BY <2>1, <3>3, <3>4
  <2> QED BY <1>1, <2>2, <2>3
<1>10. /\ o \in {-1, 0, 1}
       /\ o = 0 => PaddingEquals(b) /\ IsNull(b)
       /\ o # 1 => Precedes(EndKey, MavenTokenKey(b))
       /\ o = 1 => Precedes(MavenTokenKey(b), EndKey) /\ y.kind = "word"
  <2>1. y.kind \in {"number", "empty", "word"}
    BY <1>5
  <2> QED BY <1>7, <1>8, <1>9, <2>1
<1> QED BY <1>10 DEF o, null, y

Opposite(m, n) == m \in {-1, 0, 1} /\ n \in {-1, 0, 1} /\ m + n = 0

\* Opposites are opposite both ways.
LEMMA OppositeIs ==
  ASSUME NEW m, NEW n, Opposite(m, n)
  PROVE  m = -n /\ n = -m /\ Opposite(n, m) /\ m \in {-1, 0, 1} /\ (m = 0 <=> n = 0)
BY DEF Opposite

\* Tokens compared the other way round give the opposite.
LEMMA TokensOpposite ==
  ASSUME NEW a, NEW b, a.value \in MavenValues, b.value \in MavenValues
  PROVE  Opposite(MavenTokenOrder(a, b), MavenTokenOrder(b, a))
<1> DEFINE x == a.value
           y == b.value
           o == MavenTokenOrder(a, b)
           p == MavenTokenOrder(b, a)
           xq == QualifierOrder(x, y)
           yq == QualifierOrder(y, x)
           xn == NumericOrder(x, y)
           yn == NumericOrder(y, x)
<1>1. SeparatorOrder(a) \in Int /\ SeparatorOrder(b) \in Int
  BY SeparatorOrderIs
<1>2. \A d, e \in Int : Opposite(Sign(d - e), Sign(e - d))
  BY DEF Sign, Opposite
<1>3. Opposite(1, -1) /\ Opposite(-1, 1)
  BY DEF Opposite
<1>4. x \in MavenValues /\ y \in MavenValues
  OBVIOUS
<1>5. Opposite(xq, yq)
  BY <1>4, MavenValuesAre DEF QualifierOrder, Sign, Opposite
<1>6. IsNumeric(x) /\ IsNumeric(y) => Opposite(xn, yn)
  BY <1>4, MavenValuesAre DEF NumericOrder, IsNumeric, Sign, Opposite
<1>7. CASE a.prefix # b.prefix
  <2>1. /\ o = Sign(SeparatorOrder(a) - SeparatorOrder(b))
        /\ p = Sign(SeparatorOrder(b) - SeparatorOrder(a))
    BY <1>7, TokenOrderIs
  <2> QED BY <1>1, <1>2, <2>1
<1>8. CASE a.prefix = b.prefix
  <2>1. /\ IsNumeric(x) /\ IsNumeric(y) => o = xn /\ p = yn
        /\ ~IsNumeric(x) /\ ~IsNumeric(y) => o = xq /\ p = yq
        /\ IsNumeric(x) /\ ~IsNumeric(y) =>
             IF a.null THEN o = xq /\ p = yq ELSE o = 1 /\ p = -1
        /\ ~IsNumeric(x) /\ IsNumeric(y) =>
             IF b.null THEN o = xq /\ p = yq ELSE o = -1 /\ p = 1
    BY <1>8, TokenOrderIs
  <2> HIDE DEF o, p, xn, yn, xq, yq
  <2>2. Opposite(o, p)
    BY <1>3, <1>5, <1>6, <2>1
  <2> QED BY <2>2 DEF o, p
<1> QED BY <1>7, <1>8

\* o is the first of n comparisons that is not 0.
Decides(n, orders, o) ==
  \/ (\A i \in 1..n : orders[i] = 0) /\ o = 0
  \/ \E i \in 1..n : /\ orders[i] # 0 /\ \A j \in 1..(i - 1) : orders[j] = 0
                     /\ o = orders[i]

\* The first difference decides.
LEMMA FirstDecides ==
  ASSUME NEW n \in Nat, NEW orders \in [1..n -> Int]
  PROVE  Decides(n, orders, FirstDifference(orders, 0))
<1> DEFINE o == FirstDifference(orders, 0)
<1>1. \/ (\A i \in 1..n : orders[i] = 0) /\ o = 0
      \/ \E i \in 1..n : /\ orders[i] # 0 /\ \A j \in 1..(i - 1) : orders[j] = 0
                         /\ o = orders[i]
  BY FirstDifferenceIs
<1> HIDE DEF o
<1>2. Decides(n, orders, o)
  BY <1>1 DEF Decides
<1> QED BY <1>2 DEF o

Opposites(n, orders, others) == \A i \in 1..n : Opposite(orders[i], others[i])

\* Opposite comparisons give the opposite.
LEMMA FirstDifferenceOpposite ==
  ASSUME NEW n \in Nat, NEW orders, NEW others, NEW o, NEW p,
         Opposites(n, orders, others), Decides(n, orders, o), Decides(n, others, p)
  PROVE  Opposite(o, p)
<1>1. CASE \A i \in 1..n : orders[i] = 0
  <2>1. \A i \in 1..n : others[i] = 0
    BY <1>1, OppositeIs DEF Opposites
  <2>2. o = 0 /\ p = 0
    BY <1>1, <2>1 DEF Decides
  <2> QED BY <2>2 DEF Opposite
<1>2. CASE \E i \in 1..n : orders[i] # 0
  <2>1. PICK i \in 1..n : /\ orders[i] # 0 /\ \A j \in 1..(i - 1) : orders[j] = 0
                          /\ o = orders[i]
    BY <1>2 DEF Decides
  <2>2. others[i] # 0 /\ Opposite(orders[i], others[i])
    BY <2>1, OppositeIs DEF Opposites
  <2>3. PICK k \in 1..n : /\ others[k] # 0 /\ \A j \in 1..(k - 1) : others[j] = 0
                          /\ p = others[k]
    BY <2>2 DEF Decides
  <2>4. orders[k] # 0
    BY <2>3, OppositeIs DEF Opposites
  <2>5. i = k
    BY <2>1, <2>2, <2>3, <2>4
  <2> QED BY <2>1, <2>2, <2>3, <2>5
<1> QED BY <1>1, <1>2

\* Comparisons of N keys with the first of M keys, and of the end with the others.
Follow(orders, f, g, N) ==
  \A i \in 1..N : /\ orders[i] \in {-1, 0, 1}
                  /\ orders[i] = 0 => f[i] = g[i]
                  /\ orders[i] = -1 => Precedes(f[i], g[i])
                  /\ orders[i] = 1 => Precedes(g[i], f[i])
FollowEnd(orders, f, g, N, M) ==
  /\ \A i \in (N + 1)..M : /\ orders[i] \in {-1, 0, 1}
                           /\ orders[i] # 1 => Precedes(f[i], g[i])
                           /\ orders[i] = 1 => Precedes(g[i], f[i])
  /\ \A i \in (N + 2)..M : orders[i - 1] = 0 => orders[i] # 1
  /\ M > N => orders[M] # 0
  /\ \A i \in Position : i > M => f[i] = g[i]

\* Comparisons that follow keys, of the second version up to its end, compare the keys.
LEMMA FirstComparison ==
  ASSUME NEW f \in Keys, NEW g \in Keys, NEW N \in Nat, NEW M \in Nat, N <= M,
         NEW orders, NEW o, Decides(M, orders, o),
         Follow(orders, f, g, N), FollowEnd(orders, f, g, N, M)
  PROVE  Compares(o, f, g)
<1>1. CASE \A i \in 1..M : orders[i] = 0
  <2>1. o = 0
    BY <1>1 DEF Decides
  <2>2. N = M
    BY <1>1 DEF FollowEnd
  <2>3. \A i \in Position : f[i] = g[i]
    <3> SUFFICES ASSUME NEW i \in Position PROVE f[i] = g[i]
      OBVIOUS
    <3>1. CASE i <= N
      BY <1>1, <2>2, <3>1 DEF Follow, Position
    <3>2. CASE i > N
      BY <2>2, <3>2 DEF FollowEnd
    <3> QED BY <3>1, <3>2 DEF Position
  <2>4. f = g
    BY <2>3 DEF Keys
  <2> QED BY <2>1, <2>4 DEF Compares
<1>2. CASE \E i \in 1..M : orders[i] # 0
  <2>1. PICK d \in 1..M : /\ orders[d] # 0 /\ \A j \in 1..(d - 1) : orders[j] = 0
                          /\ o = orders[d]
    BY <1>2 DEF Decides
  <2>2. CASE d <= N
    <3>1. SameUpTo(f, g, d) /\ SameUpTo(g, f, d)
      <4> SUFFICES ASSUME NEW j \in 1..(d - 1) PROVE f[j] = g[j]
        BY DEF SameUpTo
      <4>1. j \in 1..N /\ orders[j] = 0
        BY <2>1, <2>2
      <4> QED BY <4>1 DEF Follow
    <3>2. d \in Position /\ d \in 1..N
      BY <2>2 DEF Position
    <3>3. /\ o \in {-1, 1}
          /\ o = -1 => Precedes(f[d], g[d])
          /\ o = 1 => Precedes(g[d], f[d])
      BY <2>1, <3>2 DEF Follow
    <3>4. (o = -1 => Before(f, g)) /\ (o = 1 => Before(g, f))
      BY <3>1, <3>2, <3>3 DEF Before
    <3> QED BY <3>3, <3>4 DEF Compares
  <2>3. CASE d > N
    <3> DEFINE e == N + 1
    <3>1. e \in Position /\ e \in (N + 1)..M /\ e <= d
      BY <2>3 DEF Position
    <3>2. SameUpTo(f, g, e) /\ SameUpTo(g, f, e)
      <4> SUFFICES ASSUME NEW j \in 1..(e - 1) PROVE f[j] = g[j]
        BY DEF SameUpTo
      <4>1. j \in 1..N /\ orders[j] = 0
        BY <2>1, <2>3
      <4> QED BY <4>1 DEF Follow
    <3>3. CASE d = e
      <4>1. /\ o \in {-1, 1}
            /\ o = -1 => Precedes(f[e], g[e])
            /\ o = 1 => Precedes(g[e], f[e])
        BY <2>1, <3>1, <3>3 DEF FollowEnd
      <4>2. (o = -1 => Before(f, g)) /\ (o = 1 => Before(g, f))
        BY <3>1, <3>2, <4>1 DEF Before
      <4> QED BY <4>1, <4>2 DEF Compares
    <3>4. CASE d # e
      <4>1. d \in (N + 2)..M /\ d - 1 \in 1..(d - 1) /\ e \in 1..(d - 1) /\ d \in (N + 1)..M
        BY <3>1, <3>4
      <4>2. orders[d - 1] = 0 /\ orders[e] = 0
        BY <2>1, <4>1
      <4>3. o = -1
        BY <2>1, <4>1, <4>2 DEF FollowEnd
      <4>4. Precedes(f[e], g[e])
        BY <3>1, <4>2 DEF FollowEnd
      <4>5. Before(f, g)
        BY <3>1, <3>2, <4>4 DEF Before
      <4> QED BY <4>3, <4>5 DEF Compares
    <3> QED BY <3>3, <3>4
  <2> QED BY <2>2, <2>3
<1> QED BY <1>1, <1>2

\* Trimmed tokens on which the order is one.
Ordered(t, N) ==
  /\ Trimmed(t, N)
  /\ \A i \in 1..N : Known(t[i])
  /\ \A i \in 3..N : t[i].prefix = "." /\ t[i].value.kind = "word" => ~PaddingEquals(t[i - 1])

\* What Orderly says of the tokens that trimming leaves.
LEMMA OrderedIs ==
  ASSUME NEW t, NEW N, Trimmed(t, N), Orderly(t)
  PROVE  Ordered(t, N)
<1>1. Len(t) = N /\ N \in Nat \ {0}
  BY LengthOfFunction DEF Trimmed
<1>2. \A i \in 2..N : t[i].prefix = "." =>
        \/ t[i].value.kind = "number"
        \/ /\ t[i].value.kind = "word" /\ t[i].value.val <= Sp.val
           /\ i > 2 => ~PaddingEquals(t[i - 1])
  BY <1>1 DEF Orderly
<1>3. ASSUME NEW i \in 1..N PROVE Known(t[i])
  <2>1. CASE i = 1
    <3>1. t[i].prefix = ""
      BY <2>1 DEF Trimmed
    <3> QED BY <3>1 DEF Known
  <2>2. CASE i # 1
    <3>1. i \in 2..N
      BY <1>1, <2>2
    <3> QED BY <1>2, <3>1 DEF Known
  <2> QED BY <2>1, <2>2
<1>4. ASSUME NEW i \in 3..N, t[i].prefix = ".", t[i].value.kind = "word"
      PROVE  ~PaddingEquals(t[i - 1])
  <2>1. i \in 2..N /\ i > 2
    BY <1>1
  <2> QED BY <1>2, <1>4, <2>1
<1> QED BY <1>3, <1>4 DEF Ordered

\* The comparisons of two trimmed versions, of which the first is not longer.
OrdersOf(l, N, r, M) ==
  [i \in 1..M |-> IF i <= N THEN MavenTokenOrder(l[i], r[i])
                  ELSE MavenTokenOrder(NullToken(r[i]), r[i])]
OthersOf(l, N, r, M) ==
  [i \in 1..M |-> IF i <= N THEN MavenTokenOrder(r[i], l[i])
                  ELSE MavenTokenOrder(r[i], NullToken(r[i]))]

\* Which comparisons compare_versions makes, in both directions (maven.rs).
LEMMA OrdersAre ==
  ASSUME NEW l, NEW N, NEW r, NEW M, Trimmed(l, N), Trimmed(r, M), N <= M
  PROVE  /\ MavenTrimmedOrder(l, r) = FirstDifference(OrdersOf(l, N, r, M), 0)
         /\ MavenTrimmedOrder(r, l) = FirstDifference(OthersOf(l, N, r, M), 0)
<1>1. Len(l) = N /\ Len(r) = M /\ N \in Nat /\ M \in Nat
  BY LengthOfFunction DEF Trimmed
<1>2. Longer(l, r) = M /\ Longer(r, l) = M
  BY <1>1 DEF Longer
<1> DEFINE at(s, other, i) == IF i <= Len(s) THEN s[i] ELSE NullToken(other[i])
           to(s, other) ==
             [i \in 1..Longer(s, other) |-> MavenTokenOrder(at(s, other, i), at(other, s, i))]
<1>3. to(l, r) = OrdersOf(l, N, r, M)
  <2>1. \A i \in 1..M :
          MavenTokenOrder(at(l, r, i), at(r, l, i)) =
            IF i <= N THEN MavenTokenOrder(l[i], r[i]) ELSE MavenTokenOrder(NullToken(r[i]), r[i])
    BY <1>1
  <2> QED BY <1>2, <2>1 DEF OrdersOf
<1>4. to(r, l) = OthersOf(l, N, r, M)
  <2>1. \A i \in 1..M :
          MavenTokenOrder(at(r, l, i), at(l, r, i)) =
            IF i <= N THEN MavenTokenOrder(r[i], l[i]) ELSE MavenTokenOrder(r[i], NullToken(r[i]))
    BY <1>1
  <2> QED BY <1>2, <2>1 DEF OthersOf
<1>5. /\ MavenTrimmedOrder(l, r) = FirstDifference(to(l, r), 0)
      /\ MavenTrimmedOrder(r, l) = FirstDifference(to(r, l), 0)
  BY DEF MavenTrimmedOrder
<1> QED BY <1>3, <1>4, <1>5

\* Up to the end of the shorter version they follow the keys.
LEMMA OrdersFollow ==
  ASSUME NEW l, NEW N, NEW r, NEW M, Ordered(l, N), Ordered(r, M), N <= M
  PROVE  Follow(OrdersOf(l, N, r, M), MavenKey(l, N), MavenKey(r, M), N)
<1> SUFFICES ASSUME NEW i \in 1..N
             PROVE  LET o == OrdersOf(l, N, r, M)[i]
                        f == MavenKey(l, N)[i]
                        g == MavenKey(r, M)[i]
                    IN /\ o \in {-1, 0, 1}
                       /\ o = 0 => f = g
                       /\ o = -1 => Precedes(f, g)
                       /\ o = 1 => Precedes(g, f)
  BY DEF Follow
<1>1. N \in Nat /\ M \in Nat /\ i \in 1..M /\ i \in Position
  <2>1. N \in Nat /\ M \in Nat
    BY DEF Ordered, Trimmed
  <2> QED BY <2>1 DEF Position
<1>2. OrdersOf(l, N, r, M)[i] = MavenTokenOrder(l[i], r[i])
  BY <1>1 DEF OrdersOf
<1>3. MavenKey(l, N)[i] = MavenTokenKey(l[i]) /\ MavenKey(r, M)[i] = MavenTokenKey(r[i])
  BY <1>1 DEF MavenKey
<1>4. l[i] \in Tokens /\ r[i] \in Tokens /\ Known(l[i]) /\ Known(r[i])
  BY <1>1 DEF Ordered, Trimmed
<1>5. (l[i].prefix = "" => i = 1) /\ (i = 1 => l[i].prefix = "")
  BY DEF Ordered, Trimmed
<1>6. (r[i].prefix = "" => i = 1) /\ (i = 1 => r[i].prefix = "")
  BY <1>1 DEF Ordered, Trimmed
<1>7. SamePlace(l[i], r[i])
  BY <1>5, <1>6 DEF SamePlace
<1> QED BY <1>2, <1>3, <1>4, <1>7, TokensCompare

\* After it they compare tokens with the end, and a null token that padding equals is not
\* followed by one that comes before the end.
LEMMA OrdersFollowEnd ==
  ASSUME NEW l, NEW N, NEW r, NEW M, Ordered(l, N), Ordered(r, M), N <= M
  PROVE  FollowEnd(OrdersOf(l, N, r, M), MavenKey(l, N), MavenKey(r, M), N, M)
<1> DEFINE orders == OrdersOf(l, N, r, M)
           f == MavenKey(l, N)
           g == MavenKey(r, M)
<1>1. N \in Nat \ {0} /\ M \in Nat \ {0}
  BY DEF Ordered, Trimmed
<1>2. \A i \in (N + 1)..M : /\ i \in 2..M /\ i \in 1..M /\ ~(i <= N) /\ i \in Position
                            /\ orders[i] = MavenTokenOrder(NullToken(r[i]), r[i])
                            /\ f[i] = EndKey /\ g[i] = MavenTokenKey(r[i])
  <2> SUFFICES ASSUME NEW i \in (N + 1)..M
               PROVE  /\ i \in 2..M /\ i \in 1..M /\ ~(i <= N) /\ i \in Position
                      /\ orders[i] = MavenTokenOrder(NullToken(r[i]), r[i])
                      /\ f[i] = EndKey /\ g[i] = MavenTokenKey(r[i])
    OBVIOUS
  <2>1. i \in 2..M /\ i \in 1..M /\ ~(i <= N) /\ i \in Position /\ i <= M
    BY <1>1 DEF Position
  <2>2. orders[i] = MavenTokenOrder(NullToken(r[i]), r[i])
    BY <2>1 DEF OrdersOf
  <2>3. f[i] = EndKey /\ g[i] = MavenTokenKey(r[i])
    BY <2>1 DEF MavenKey
  <2> QED BY <2>1, <2>2, <2>3
<1>3. \A i \in 2..M : r[i] \in Tokens /\ Known(r[i]) /\ NotFirst(r[i])
  <2> SUFFICES ASSUME NEW i \in 2..M PROVE r[i] \in Tokens /\ Known(r[i]) /\ NotFirst(r[i])
    OBVIOUS
  <2>1. i \in 1..M /\ i # 1
    BY <1>1
  <2> QED BY <2>1 DEF Ordered, Trimmed, NotFirst
<1> HIDE DEF orders, f, g
<1>4. \A i \in (N + 1)..M : /\ orders[i] \in {-1, 0, 1}
                            /\ orders[i] # 1 => Precedes(f[i], g[i])
                            /\ orders[i] = 1 => Precedes(g[i], f[i])
                            /\ orders[i] = 1 => r[i].value.kind = "word"
                            /\ orders[i] = 0 => PaddingEquals(r[i]) /\ IsNull(r[i])
  BY <1>2, <1>3, EndCompares
<1>5. ASSUME NEW i \in (N + 2)..M, orders[i - 1] = 0 PROVE orders[i] # 1
  <2>1. i \in (N + 1)..M /\ i - 1 \in (N + 1)..M /\ i \in 3..M /\ i - 1 \in 2..(M - 1) /\ i \in 2..M
    BY <1>1
  <2>2. PaddingEquals(r[i - 1]) /\ IsNull(r[i - 1])
    BY <1>4, <1>5, <2>1
  <2>3. r[i - 1 + 1].prefix # "-"
    BY <2>1, <2>2 DEF Ordered, Trimmed
  <2>4. i - 1 + 1 = i
    OBVIOUS
  <2>5. r[i].prefix = "."
    BY <1>3, <2>1, <2>3, <2>4 DEF NotFirst, Tokens, MavenTokens
  <2>6. ~(r[i].value.kind = "word")
    BY <2>1, <2>2, <2>5 DEF Ordered
  <2> QED BY <1>4, <2>1, <2>6
<1>6. ASSUME M > N PROVE orders[M] # 0
  <2>1. M # 1 /\ M \in (N + 1)..M
    BY <1>1, <1>6
  <2>2. ~IsNull(r[M])
    BY <2>1 DEF Ordered, Trimmed
  <2> QED BY <1>4, <2>1, <2>2
<1>7. \A i \in Position : i > M => f[i] = g[i]
  <2> SUFFICES ASSUME NEW i \in Position, i > M PROVE f[i] = g[i]
    OBVIOUS
  <2>1. ~(i <= N) /\ ~(i <= M)
    BY <1>1 DEF Position
  <2> QED BY <2>1 DEF f, g, MavenKey
<1> QED BY <1>4, <1>5, <1>6, <1>7 DEF FollowEnd, orders, f, g

\* Keys of trimmed versions are keys.
LEMMA MavenKeyIs ==
  ASSUME NEW t, NEW N, Ordered(t, N)
  PROVE  MavenKey(t, N) \in Keys
<1>1. ASSUME NEW i \in 1..N PROVE MavenTokenKey(t[i]) \in Int \X Int
  <2>1. t[i] \in Tokens /\ Known(t[i]) /\ SamePlace(t[i], t[i])
    BY DEF Ordered, Trimmed, SamePlace
  <2> QED BY <2>1, TokensCompare
<1>2. EndKey \in Int \X Int
  BY DEF EndKey
<1>3. \A n \in Position : n <= N => n \in 1..N
  <2>1. N \in Nat
    BY DEF Ordered, Trimmed
  <2> QED BY <2>1 DEF Position
<1> QED BY <1>1, <1>2, <1>3 DEF MavenKey, Keys

\* Two trimmed versions compared the other way round give the opposite.
LEMMA TrimmedOpposite ==
  ASSUME NEW l, NEW N, NEW r, NEW M, Trimmed(l, N), Trimmed(r, M), N <= M
  PROVE  /\ Opposite(MavenTrimmedOrder(l, r), MavenTrimmedOrder(r, l))
         /\ Decides(M, OrdersOf(l, N, r, M), MavenTrimmedOrder(l, r))
<1> DEFINE orders == OrdersOf(l, N, r, M)
           others == OthersOf(l, N, r, M)
           o == MavenTrimmedOrder(l, r)
           p == MavenTrimmedOrder(r, l)
<1>1. N \in Nat /\ M \in Nat
  BY DEF Trimmed
<1>2. ASSUME NEW i \in 1..M PROVE Opposite(orders[i], others[i])
  <2>1. r[i].value \in MavenValues
    BY <1>1 DEF Trimmed, Tokens, MavenTokens
  <2>2. CASE i <= N
    <3>1. l[i].value \in MavenValues
      <4>1. i \in 1..N
        BY <1>1, <2>2
      <4> QED BY <1>1, <4>1 DEF Trimmed, Tokens, MavenTokens
    <3>2. Opposite(MavenTokenOrder(l[i], r[i]), MavenTokenOrder(r[i], l[i]))
      BY <2>1, <3>1, TokensOpposite
    <3> QED BY <2>2, <3>2 DEF OrdersOf, OthersOf
  <2>3. CASE ~(i <= N)
    <3>1. NullToken(r[i]).value \in MavenValues
      BY DEF NullToken, MavenValues, Num
    <3>2. Opposite(MavenTokenOrder(NullToken(r[i]), r[i]), MavenTokenOrder(r[i], NullToken(r[i])))
      BY <2>1, <3>1, TokensOpposite
    <3> QED BY <2>3, <3>2 DEF OrdersOf, OthersOf
  <2> QED BY <2>2, <2>3
<1>3. /\ orders = [i \in 1..M |-> orders[i]]
      /\ others = [i \in 1..M |-> others[i]]
  BY DEF OrdersOf, OthersOf
<1>4. orders \in [1..M -> Int] /\ others \in [1..M -> Int]
  <2>1. \A i \in 1..M : orders[i] \in Int /\ others[i] \in Int
    <3>1. \A m, n : Opposite(m, n) => m \in Int /\ n \in Int
      BY DEF Opposite
    <3> QED BY <1>2, <3>1
  <2> QED BY <1>3, <2>1
<1>5. o = FirstDifference(orders, 0) /\ p = FirstDifference(others, 0)
  BY OrdersAre
<1>6. Decides(M, orders, o) /\ Decides(M, others, p)
  BY <1>1, <1>4, <1>5, FirstDecides
<1>7. Opposite(o, p)
  BY <1>1, <1>2, <1>6, FirstDifferenceOpposite DEF Opposites
<1> QED BY <1>6, <1>7

\* A value that is not numeric is a word.
LEMMA WordValues ==
  ASSUME NEW value \in MavenValues, ~IsNumeric(value)
  PROVE  value \in [kind : {"word"}, val : Nat]
<1>1. value.kind = "word"
  BY DEF IsNumeric
<1>2. value \notin [kind : {"number"}, val : Nat]
  BY <1>1
<1>3. value # Empty
  BY <1>1 DEF Empty
<1>4. value \in [kind : {"word"}, val : Nat \ {5, 7}]
  BY <1>2, <1>3 DEF MavenValues
<1> QED BY <1>4

\* A token is what its fields are.
LEMMA TokenIs ==
  ASSUME NEW P, NEW V, NEW W,
         NEW a \in [prefix : P, value : V, null : W], NEW b \in [prefix : P, value : V, null : W],
         a.prefix = b.prefix, a.value = b.value, a.null = b.null
  PROVE  a = b
OBVIOUS

\* Two tokens that are both there are equal if they compare so.
LEMMA EqualTokens ==
  ASSUME NEW a \in Tokens, NEW b \in Tokens, SamePlace(a, b), MavenTokenOrder(a, b) = 0
  PROVE  a = b
<1>1. /\ a.prefix \in {"", "-", "."} /\ b.prefix \in {"", "-", "."} /\ ~a.null /\ ~b.null
      /\ a.value \in MavenValues /\ b.value \in MavenValues
      /\ (a.prefix = "") <=> (b.prefix = "")
  BY DEF Tokens, MavenTokens, SamePlace
<1> DEFINE x == a.value
           y == b.value
<1>2. a.prefix = b.prefix
  <2> SUFFICES ASSUME a.prefix # b.prefix PROVE FALSE
    OBVIOUS
  <2>1. Sign(SeparatorOrder(a) - SeparatorOrder(b)) = 0
    BY TokenOrderIs
  <2>2. \/ SeparatorOrder(a) \in {1, 2} /\ SeparatorOrder(b) \in {0, 3}
        \/ SeparatorOrder(a) \in {0, 3} /\ SeparatorOrder(b) \in {1, 2}
    <3>1. CASE a.prefix = "-"
      <4>1. b.prefix = "."
        BY <1>1, <3>1
      <4> QED BY <3>1, <4>1, SeparatorOrderIs
    <3>2. CASE a.prefix = "."
      <4>1. b.prefix = "-"
        BY <1>1, <3>2
      <4> QED BY <3>2, <4>1, SeparatorOrderIs
    <3> QED BY <1>1, <3>1, <3>2
  <2>3. \A m \in {1, 2}, n \in {0, 3} : Sign(m - n) # 0 /\ Sign(n - m) # 0
    BY DEF Sign
  <2> QED BY <2>1, <2>2, <2>3
<1>3. IsNumeric(x) <=> IsNumeric(y)
  <2>1. ~a.null /\ ~b.null
    BY <1>1
  <2>2. ASSUME IsNumeric(x), ~IsNumeric(y) PROVE FALSE
    <3>1. MavenTokenOrder(a, b) = 1
      BY <1>2, <2>1, <2>2, TokenOrderIs
    <3> QED BY <3>1
  <2>3. ASSUME ~IsNumeric(x), IsNumeric(y) PROVE FALSE
    <3>1. MavenTokenOrder(a, b) = -1
      BY <1>2, <2>1, <2>3, TokenOrderIs
    <3> QED BY <3>1
  <2> QED BY <2>2, <2>3
<1>4. x = y
  <2>1. CASE IsNumeric(x) /\ IsNumeric(y)
    <3>1. NumericOrder(x, y) = 0
      BY <1>2, <2>1, TokenOrderIs
    <3>2. /\ x = Empty \/ (x \in [kind : {"number"}, val : Nat])
          /\ y = Empty \/ (y \in [kind : {"number"}, val : Nat])
      BY <1>1, <2>1 DEF MavenValues, IsNumeric
    <3> QED BY <3>1, <3>2 DEF NumericOrder, Sign, Empty
  <2>2. CASE ~IsNumeric(x) /\ ~IsNumeric(y)
    <3>1. QualifierOrder(x, y) = 0
      BY <1>2, <2>2, TokenOrderIs
    <3>2. x \in [kind : {"word"}, val : Nat] /\ y \in [kind : {"word"}, val : Nat]
      BY <1>1, <2>2, WordValues
    <3>3. x.val = y.val
      BY <3>1, <3>2 DEF QualifierOrder, Sign
    <3> QED BY <3>2, <3>3
  <2> QED BY <1>3, <2>1, <2>2
<1>5. a.null = b.null
  BY DEF Tokens, MavenTokens
<1>6. /\ a \in [prefix : {"", "-", "."}, value : MavenValues, null : {FALSE}]
      /\ b \in [prefix : {"", "-", "."}, value : MavenValues, null : {FALSE}]
  BY DEF Tokens, MavenTokens
<1> QED BY <1>2, <1>4, <1>5, <1>6, TokenIs

\* Padding equals null tokens only.
LEMMA PaddedIsNull ==
  ASSUME NEW b \in Tokens, MavenTokenOrder(NullToken(b), b) = 0
  PROVE  IsNull(b)
<1> DEFINE null == NullToken(b)
           x == null.value
           y == b.value
<1>1. y \in MavenValues /\ ~b.null
  BY DEF Tokens, MavenTokens
<1>2. null.prefix = b.prefix /\ null.null /\ x \in {Num(0), Empty}
  BY DEF NullToken
<1>3. IsNumeric(x) /\ (x = Num(0) => x.kind = "number" /\ x.val = 0) /\ (x = Empty => x.val = 5 /\ x.kind = "empty")
  BY <1>2 DEF IsNumeric, Num, Empty
<1>4. CASE IsNumeric(y)
  <2>1. NumericOrder(x, y) = 0
    BY <1>2, <1>3, <1>4, TokenOrderIs
  <2>2. y = Empty \/ (y \in [kind : {"number"}, val : Nat])
    BY <1>1, <1>4 DEF MavenValues, IsNumeric
  <2>3. y \in {Empty, Num(0)}
    BY <1>2, <1>3, <2>1, <2>2 DEF NumericOrder, Sign, Empty, Num
  <2> QED BY <2>3 DEF IsNull
<1>5. CASE ~IsNumeric(y)
  <2>1. QualifierOrder(x, y) = 0
    BY <1>2, <1>3, <1>5, TokenOrderIs
  <2>2. y.kind = "word" /\ y.val \in Nat /\ y.val # 5 /\ y.val # 7
    BY <1>1, <1>5, MavenValuesAre DEF IsNumeric
  <2> QED BY <1>2, <1>3, <2>1, <2>2 DEF QualifierOrder, Sign
<1> QED BY <1>4, <1>5

\* Trimmed versions that compare equal have the same tokens.
LEMMA EqualTrimmed ==
  ASSUME NEW l, NEW N, NEW r, NEW M, Trimmed(l, N), Trimmed(r, M), N <= M,
         MavenTrimmedOrder(l, r) = 0
  PROVE  l = r
<1> DEFINE orders == OrdersOf(l, N, r, M)
<1>1. N \in Nat \ {0} /\ M \in Nat \ {0}
  BY DEF Trimmed
<1>2. \A i \in 1..M : orders[i] = 0
  BY TrimmedOpposite DEF Decides
<1>3. N = M
  <2> SUFFICES ASSUME N < M PROVE FALSE
    BY <1>1
  <2>1. M \in 1..M /\ ~(M <= N) /\ M # 1
    BY <1>1
  <2>2. MavenTokenOrder(NullToken(r[M]), r[M]) = 0
    BY <1>2, <2>1 DEF OrdersOf
  <2>3. r[M] \in Tokens /\ ~IsNull(r[M])
    BY <2>1 DEF Trimmed
  <2> QED BY <2>2, <2>3, PaddedIsNull
<1>4. ASSUME NEW i \in 1..N PROVE l[i] = r[i]
  <2>1. MavenTokenOrder(l[i], r[i]) = 0
    BY <1>1, <1>2, <1>3 DEF OrdersOf
  <2>2. i \in 1..M
    BY <1>3
  <2>3. l[i] \in Tokens /\ (l[i].prefix = "" <=> i = 1)
    BY DEF Trimmed
  <2>4. r[i] \in Tokens /\ (r[i].prefix = "" <=> i = 1)
    BY <2>2 DEF Trimmed
  <2>5. SamePlace(l[i], r[i])
    BY <2>3, <2>4 DEF SamePlace
  <2> QED BY <2>1, <2>3, <2>4, <2>5, EqualTokens
<1>5. l = [i \in 1..N |-> l[i]] /\ r = [i \in 1..N |-> r[i]]
  BY <1>3 DEF Trimmed
<1> QED BY <1>4, <1>5

\* Of two orderly trimmed versions the one that is not longer is compared with the other as
\* their keys.
LEMMA TrimmedCompare ==
  ASSUME NEW l, NEW N, NEW r, NEW M, Ordered(l, N), Ordered(r, M), N <= M
  PROVE  Compares(MavenTrimmedOrder(l, r), MavenKey(l, N), MavenKey(r, M))
<1> DEFINE orders == OrdersOf(l, N, r, M)
           o == MavenTrimmedOrder(l, r)
<1>1. N \in Nat /\ M \in Nat /\ Trimmed(l, N) /\ Trimmed(r, M)
  BY DEF Ordered, Trimmed
<1>2. Decides(M, orders, o)
  BY <1>1, TrimmedOpposite
<1>3. Follow(orders, MavenKey(l, N), MavenKey(r, M), N)
  BY OrdersFollow
<1>4. FollowEnd(orders, MavenKey(l, N), MavenKey(r, M), N, M)
  BY OrdersFollowEnd
<1>5. MavenKey(l, N) \in Keys /\ MavenKey(r, M) \in Keys
  BY MavenKeyIs
<1> QED BY <1>1, <1>2, <1>3, <1>4, <1>5, FirstComparison

\* Opposite comparisons compare keys the other way round.
LEMMA CompareOpposite ==
  ASSUME NEW f, NEW g, NEW o, NEW p, Compares(o, f, g), Opposite(o, p)
  PROVE  Compares(p, g, f)
BY DEF Compares, Opposite

KeyOfMaven(v) == MavenKey(MavenTrimmed(v), Len(MavenTrimmed(v)))

\* What the parser returns is trimmed.
LEMMA MavenVersionsAre ==
  ASSUME NEW v \in MavenVersions
  PROVE  Trimmed(MavenTrimmed(v), Len(MavenTrimmed(v))) /\ Len(MavenTrimmed(v)) \in Nat
<1>1. v \in Seq(Tokens) /\ v # <<>> /\ \A i \in DOMAIN v : v[i].prefix = "" <=> i = 1
  BY VersionConstants DEF Tokens
<1>2. Trimmed(MavenTrimmed(v), Len(MavenTrimmed(v)))
  BY <1>1, MavenTrimmedIs
<1> QED BY <1>2 DEF Trimmed

\* compare_versions of maven.rs gives the opposite the other way round, and calls versions equal
\* only if the same tokens are left of them.
LEMMA MavenComparesAlike ==
  ASSUME NEW a \in MavenVersions, NEW b \in MavenVersions
  PROVE  /\ Opposite(MavenOrder(a, b), MavenOrder(b, a))
         /\ MavenOrder(a, b) = 0 => MavenTrimmed(a) = MavenTrimmed(b)
<1> DEFINE l == MavenTrimmed(a)
           r == MavenTrimmed(b)
           n == Len(l)
           m == Len(r)
<1>1. Trimmed(l, n) /\ Trimmed(r, m) /\ n \in Nat /\ m \in Nat
  BY MavenVersionsAre
<1>2. MavenOrder(a, b) = MavenTrimmedOrder(l, r) /\ MavenOrder(b, a) = MavenTrimmedOrder(r, l)
  BY DEF MavenOrder
<1> HIDE DEF l, r, n, m
<1>3. CASE n <= m
  <2>1. Opposite(MavenTrimmedOrder(l, r), MavenTrimmedOrder(r, l))
    BY <1>1, <1>3, TrimmedOpposite
  <2>2. MavenTrimmedOrder(l, r) = 0 => l = r
    BY <1>1, <1>3, EqualTrimmed
  <2> QED BY <1>2, <2>1, <2>2 DEF l, r
<1>4. CASE m <= n
  <2>1. Opposite(MavenTrimmedOrder(r, l), MavenTrimmedOrder(l, r))
    BY <1>1, <1>4, TrimmedOpposite
  <2>2. MavenTrimmedOrder(r, l) = 0 => r = l
    BY <1>1, <1>4, EqualTrimmed
  <2>3. /\ Opposite(MavenTrimmedOrder(l, r), MavenTrimmedOrder(r, l))
        /\ MavenTrimmedOrder(l, r) = 0 => l = r
    BY <2>1, <2>2, OppositeIs
  <2> QED BY <1>2, <2>3 DEF l, r
<1> QED BY <1>1, <1>3, <1>4

\* It follows the keys of orderly versions.
LEMMA MavenCompares ==
  ASSUME NEW a \in MavenVersions, NEW b \in MavenVersions,
         Orderly(MavenTrimmed(a)), Orderly(MavenTrimmed(b))
  PROVE  KeyOfMaven(a) \in Keys /\ Compares(MavenOrder(a, b), KeyOfMaven(a), KeyOfMaven(b))
<1> DEFINE l == MavenTrimmed(a)
           r == MavenTrimmed(b)
           n == Len(l)
           m == Len(r)
<1>1. Trimmed(l, n) /\ Trimmed(r, m) /\ n \in Nat /\ m \in Nat
  BY MavenVersionsAre
<1>2. Ordered(l, n) /\ Ordered(r, m)
  BY <1>1, OrderedIs
<1>3. /\ KeyOfMaven(a) = MavenKey(l, n) /\ KeyOfMaven(b) = MavenKey(r, m)
      /\ MavenOrder(a, b) = MavenTrimmedOrder(l, r)
  BY DEF KeyOfMaven, MavenOrder
<1> HIDE DEF l, r, n, m
<1>4. CASE n <= m
  BY <1>2, <1>3, <1>4, TrimmedCompare, MavenKeyIs
<1>5. CASE m <= n
  <2>1. Compares(MavenTrimmedOrder(r, l), MavenKey(r, m), MavenKey(l, n))
    BY <1>2, <1>5, TrimmedCompare
  <2>2. Opposite(MavenTrimmedOrder(r, l), MavenTrimmedOrder(l, r))
    BY <1>1, <1>5, TrimmedOpposite
  <2>3. Compares(MavenTrimmedOrder(l, r), MavenKey(l, n), MavenKey(r, m))
    BY <2>1, <2>2, CompareOpposite
  <2> QED BY <1>2, <1>3, <2>3, MavenKeyIs
<1> QED BY <1>1, <1>4, <1>5

\* Comparisons of three versions, of which each says what the others allow; two decide the
\* third if there is an order.
Agree(ordered, ff, fg, gf, gh, fh) ==
  /\ ff = 0 /\ fg = -gf
  /\ fg = 0 => fh = gh
  /\ ordered /\ fg <= 0 /\ gh <= 0 => fh <= 0

\* Three versions of one registry are compared so.
LEMMA SamplesAgree ==
  ASSUME NEW x \in Families, NEW a \in Samples(x), NEW b \in Samples(x), NEW c \in Samples(x),
         NEW ordered \in BOOLEAN,
         x = "maven" /\ ordered => \A v \in {a, b, c} : Orderly(MavenTrimmed(v))
  PROVE  Agree(ordered, Order(x, a, a), Order(x, a, b), Order(x, b, a), Order(x, b, c),
               Order(x, a, c))
<1>1. CASE x = "nuget"
  <2>1. /\ a \in NugetVersions /\ b \in NugetVersions /\ c \in NugetVersions
        /\ \A v, w : Order(x, v, w) = NugetOrder(v, w)
    BY <1>1 DEF Samples, Order
  <2> QED BY <2>1, NugetCompares, KeysOrder DEF Agree
<1>2. CASE x = "gem"
  <2>1. /\ a \in GemVersions /\ b \in GemVersions /\ c \in GemVersions
        /\ \A v, w : Order(x, v, w) = GemOrder(v, w)
    BY <1>2 DEF Samples, Order
  <2>2. a \in Seq(Segments) /\ b \in Seq(Segments) /\ c \in Seq(Segments)
    BY <2>1, VersionConstants
  <2> QED BY <2>1, <2>2, GemCompares, KeysOrder DEF Agree
<1>3. CASE x = "maven"
  <2>1. /\ a \in MavenVersions /\ b \in MavenVersions /\ c \in MavenVersions
        /\ \A v, w : Order(x, v, w) = MavenOrder(v, w)
    BY <1>3 DEF Samples, Order
  <2>2. Opposite(MavenOrder(a, a), MavenOrder(a, a)) /\ Opposite(MavenOrder(a, b), MavenOrder(b, a))
    BY <2>1, MavenComparesAlike
  <2>3. MavenOrder(a, a) = 0 /\ MavenOrder(a, b) = -MavenOrder(b, a)
    BY <2>2 DEF Opposite
  <2>4. MavenOrder(a, b) = 0 => MavenOrder(a, c) = MavenOrder(b, c)
    BY <2>1, MavenComparesAlike DEF MavenOrder
  <2>5. ASSUME ordered PROVE MavenOrder(a, b) <= 0 /\ MavenOrder(b, c) <= 0 => MavenOrder(a, c) <= 0
    BY <1>3, <2>1, <2>5, MavenCompares, KeysOrder
  <2> QED BY <2>1, <2>3, <2>4, <2>5 DEF Agree
<1> QED BY <1>1, <1>2, <1>3 DEF Families

\* Appending to a function on 1..N.
LEMMA AppendToFunction ==
  ASSUME NEW N \in Nat, NEW S, NEW t \in [1..N -> S], NEW v \in S
  PROVE  Append(t, v) \in [1..(N + 1) -> S]
<1>1. t \in Seq(S) /\ Len(t) = N
  OBVIOUS
<1>2. Append(t, v) \in Seq(S) /\ Len(Append(t, v)) = N + 1
  BY <1>1, AppendProperties
<1> QED BY <1>2, LenProperties

\* At most three versions of one registry.
OrderInv ==
  /\ family \in Families
  /\ \E n \in 0..3 : sample \in [1..n -> Samples(family)]

\* Comparisons agree with one another, whatever the versions, and those of NuGet, RubyGems and
\* orderly Maven versions are those of an order (compare_nuget_version of malicious.rs,
\* compare_versions of rubygems.rs and maven.rs).
THEOREM ComparisonsAgree == OrderSpec => []VersionsCompareConsistently
<1>1. OrderInit => OrderInv
  BY DEF OrderInit, OrderInv
<1>2. OrderInv /\ [OrderNext]_orderVars => OrderInv'
  <2> SUFFICES ASSUME OrderInv, [OrderNext]_orderVars PROVE OrderInv'
    OBVIOUS
  <2>1. PICK n \in 0..3 : sample \in [1..n -> Samples(family)]
    BY DEF OrderInv
  <2>2. Len(sample) = n
    BY <2>1, LengthOfFunction
  <2>3. CASE TakeVersion
    <3>1. PICK v \in Samples(family) : sample' = Append(sample, v)
      BY <2>3 DEF TakeVersion
    <3>2. n + 1 \in 0..3
      BY <2>2, <2>3 DEF TakeVersion
    <3>3. sample' \in [1..(n + 1) -> Samples(family)]
      BY <2>1, <3>1, AppendToFunction
    <3>4. Len(sample') = n + 1
      BY <3>2, <3>3, LengthOfFunction
    <3> QED BY <2>3, <3>2, <3>3, <3>4 DEF OrderInv, TakeVersion
  <2>4. CASE TakeOthers
    <3>1. sample' = <<>> /\ family' = family
      BY <2>4 DEF TakeOthers
    <3> QED BY <3>1 DEF OrderInv
  <2>5. CASE UNCHANGED orderVars
    BY <2>5 DEF OrderInv, orderVars
  <2> QED BY <2>3, <2>4, <2>5 DEF OrderNext
<1>3. OrderInv => VersionsCompareConsistently
  <2> SUFFICES ASSUME OrderInv, Len(sample) = 3 PROVE VersionsCompareConsistently
    BY DEF VersionsCompareConsistently
  <2>1. PICK n \in 0..3 : sample \in [1..n -> Samples(family)]
    BY DEF OrderInv
  <2>2. n = 3
    BY <2>1, LengthOfFunction
  <2>3. /\ sample[1] \in Samples(family) /\ sample[2] \in Samples(family)
        /\ sample[3] \in Samples(family) /\ DOMAIN sample = 1..3
    BY <2>1, <2>2
  <2> DEFINE order(i, j) == Order(family, sample[i], sample[j])
             ordered == AllOrderly
  <2>4. /\ ordered \in BOOLEAN
        /\ family = "maven" /\ ordered =>
             \A v \in {sample[1], sample[2], sample[3]} : Orderly(MavenTrimmed(v))
    BY <2>3 DEF AllOrderly
  <2>5. Agree(ordered, order(1, 1), order(1, 2), order(2, 1), order(2, 3), order(1, 3))
    BY <2>3, <2>4, SamplesAgree DEF OrderInv
  <2> HIDE DEF order
  <2>6. /\ order(1, 1) = 0 /\ order(1, 2) = -order(2, 1)
        /\ order(1, 2) = 0 => order(1, 3) = order(2, 3)
        /\ AllOrderly /\ order(1, 2) <= 0 /\ order(2, 3) <= 0 => order(1, 3) <= 0
    BY <2>5 DEF Agree
  <2> QED BY <2>6 DEF VersionsCompareConsistently, order
<1> QED BY <1>1, <1>2, <1>3, PTL DEF OrderSpec

-----------------------------------------------------------------------------
(* The background loop forgets no failure, for any ecosystems, delays and restarts. *)

LoopTypes ==
  /\ phase \in {"starting", "running", "sleeping"}
  /\ requested \in SUBSET Ecosystems /\ todo \in SUBSET requested
  /\ failed \in SUBSET requested
  /\ consecutive \in 0..MaxFailures
  /\ behind \in SUBSET Ecosystems

\* Within a cycle, who is behind has failed in this cycle or is still to be synced.
CycleCoversBehind == phase = "running" => behind \subseteq todo \cup failed

LoopInv == LoopTypes /\ CycleCoversBehind /\ FailuresStayRequested

\* The first cycle asks for every ecosystem, and none has failed yet (server.rs 257-284).
LEMMA LoopInitInvariant == LoopInit => LoopInv
BY LoopConstants
DEF LoopInit, LoopInv, LoopTypes, CycleCoversBehind, FailuresStayRequested

\* A cycle begins with all that is behind still to be synced (malicious.rs 556-565).
LEMMA StartKeepsInvariant == ASSUME LoopInv, StartCycle PROVE LoopInv'
BY DEF LoopInv, LoopTypes, CycleCoversBehind, FailuresStayRequested, StartCycle, outside

\* One ecosystem, whose failure does not lose that of another (malicious.rs 566-585).
LEMMA SyncKeepsInvariant ==
  ASSUME LoopInv, NEW e \in Ecosystems, SyncEcosystem(e)
  PROVE  LoopInv'
<1> USE DEF LoopInv, SyncEcosystem, outside
<1>1. LoopTypes'
  BY DEF LoopTypes
<1>2. CycleCoversBehind'
  BY DEF LoopTypes, CycleCoversBehind
<1>3. FailuresStayRequested'
  BY DEF LoopTypes, FailuresStayRequested
<1> QED  BY <1>1, <1>2, <1>3

\* A failure is counted, and so is never taken for a clean cycle (server.rs 299).
LEMMA SaturatedCounts ==
  ASSUME NEW n \in 0..MaxFailures
  PROVE  Saturated(n + 1) \in 1..MaxFailures
BY LoopConstants DEF Saturated, Least

\* A cycle without failures leaves nothing behind, so it may sleep for long (server.rs 288-296).
LEMMA SuccessKeepsInvariant == ASSUME LoopInv, FullSuccess PROVE LoopInv'
<1> USE DEF LoopInv, FullSuccess, Everything, outside
<1>1. behind = {}
  BY DEF CycleCoversBehind
<1>2. LoopTypes'
  BY LoopConstants DEF LoopTypes
<1>3. CycleCoversBehind' /\ FailuresStayRequested'
  BY <1>1 DEF CycleCoversBehind, FailuresStayRequested
<1> QED  BY <1>2, <1>3

\* A cycle with failures asks for these again, and all that is behind is among them
\* (server.rs 297-311).
LEMMA FailureKeepsInvariant == ASSUME LoopInv, PartialFailure PROVE LoopInv'
<1> USE DEF LoopInv, PartialFailure, StillRequested, outside
<1>1. behind \subseteq failed
  BY DEF CycleCoversBehind
<1>2. consecutive' \in 1..MaxFailures
  BY SaturatedCounts DEF LoopTypes
<1>3. LoopTypes'
  BY <1>2 DEF LoopTypes
<1>4. CycleCoversBehind' /\ FailuresStayRequested'
  BY <1>1, <1>2 DEF CycleCoversBehind, FailuresStayRequested
<1> QED  BY <1>3, <1>4

\* A run that cannot start keeps what it was asked for (server.rs 312-321).
LEMMA RefusalKeepsInvariant == ASSUME LoopInv, RunRefused PROVE LoopInv'
<1> USE DEF LoopInv, RunRefused, outside
<1>1. consecutive' \in 1..MaxFailures
  BY SaturatedCounts DEF LoopTypes
<1>2. LoopTypes'
  BY <1>1 DEF LoopTypes
<1>3. CycleCoversBehind' /\ FailuresStayRequested'
  BY <1>1 DEF CycleCoversBehind, FailuresStayRequested
<1> QED  BY <1>2, <1>3

\* No step of the loop, its surroundings or a restart breaks LoopInv (server.rs 277-325).
LEMMA LoopNextInvariant == LoopInv /\ [LoopNext]_loopVars => LoopInv'
<1> SUFFICES ASSUME LoopInv, [LoopNext]_loopVars PROVE LoopInv'
  OBVIOUS
<1> USE DEF cycle, outside
<1>1. CASE UNCHANGED <<phase, cycle, behind>>
  BY <1>1 DEF LoopInv, LoopTypes, CycleCoversBehind, FailuresStayRequested
<1>2. CASE StartCycle
  BY <1>2, StartKeepsInvariant
<1>3. ASSUME NEW e \in Ecosystems, SyncEcosystem(e) PROVE LoopInv'
  BY <1>3, SyncKeepsInvariant
<1>4. CASE FullSuccess
  BY <1>4, SuccessKeepsInvariant
<1>5. CASE PartialFailure
  BY <1>5, FailureKeepsInvariant
<1>6. CASE RunRefused
  BY <1>6, RefusalKeepsInvariant
<1>7. CASE Sleep \/ Wake
  BY <1>7 DEF Sleep, Wake, LoopInv, LoopTypes, CycleCoversBehind, FailuresStayRequested
<1>8. CASE Restart
  BY <1>8, LoopConstants
  DEF Restart, LoopInv, LoopTypes, CycleCoversBehind, FailuresStayRequested
<1> QED
  BY <1>1, <1>2, <1>3, <1>4, <1>5, <1>6, <1>7, <1>8
  DEF LoopNext, Loop, FeedsChange, OthersInterfere, loopVars

\* In every state the loop reaches, the cycle at work or to come covers all failures
\* (server.rs 277-325).
THEOREM LoopInvariant == LoopSpec => []LoopInv
BY LoopInitInvariant, LoopNextInvariant, PTL DEF LoopSpec

\* An ecosystem whose last attempt failed is asked for again, whatever comes between, and
\* the long sleep comes only when none is left (server.rs 288-321).
THEOREM NoFailureIsForgotten == LoopSpec => []FailuresStayRequested
<1>1. LoopInv => FailuresStayRequested
  BY DEF LoopInv
<1> QED  BY <1>1, LoopInvariant, PTL

-----------------------------------------------------------------------------
(* How long the loop sleeps. *)

\* 1 << exponent is the function its recursive definition says (server.rs 332-333).
LEMMA MultiplierDefinition ==
  multiplier = [n \in Nat |-> IF n = 0 THEN 1 ELSE 2 * multiplier[n - 1]]
<1> DEFINE double == [k \in Nat |-> 2 * k]
           Doubling(f) == f = [n \in Nat |-> IF n = 0 THEN 1 ELSE 2 * f[n - 1]]
<1>1. 1 \in Nat /\ double \in [Nat -> Nat]
  OBVIOUS
<1>2. PICK f \in [Nat -> Nat] : Iterates(f, 1, double)
  <2> HIDE DEF double
  <2> QED BY <1>1, PrimitiveRecursion
<1>3. ASSUME NEW n \in Nat PROVE f[n] = IF n = 0 THEN 1 ELSE 2 * f[n - 1]
  <2>1. CASE n = 0
    BY <1>2, <2>1 DEF Iterates
  <2>2. CASE n # 0
    <3>1. n - 1 \in Nat /\ (n - 1) + 1 = n
      BY <2>2
    <3> QED BY <1>2, <2>2, <3>1 DEF Iterates
  <2> QED BY <2>1, <2>2
<1>4. Doubling(f)
  BY <1>3
<1>5. multiplier = CHOOSE g : Doubling(g)
  BY DEF multiplier
<1> HIDE DEF Doubling
<1>6. Doubling(multiplier)
  BY <1>4, <1>5
<1> QED BY <1>6 DEF Doubling

\* And it is a number for every exponent.
LEMMA MultiplierIsNatural == \A n \in Nat : multiplier[n] \in Nat
<1> DEFINE S == {n \in Nat : multiplier[n] \in Nat}
<1>1. 0 \in S /\ \A n \in Nat : n \in S => n + 1 \in S
  BY MultiplierDefinition
<1>2. Nat \subseteq S
  <2> HIDE DEF S
  <2> QED BY <1>1, SetInduction
<1> QED BY <1>2

\* background_retry_delay is never above the maximum, nor as long as a regular interval
\* that has a half (server.rs 327-342).
LEMMA RetryDelayIsShort ==
  ASSUME NEW failures \in 1..MaxFailures
  PROVE  /\ RetryDelay(failures) \in Nat /\ RetryDelay(failures) <= MaxDelay
         /\ SyncInterval > 1 => RetryDelay(failures) < SyncInterval
<1>1. failures - 1 \in Nat /\ multiplier[failures - 1] \in Nat
  BY LoopConstants, MultiplierIsNatural
<1>2. Uncapped(failures) \in Nat /\ Uncapped(failures) <= MaxDelay
  BY <1>1, LoopConstants DEF Uncapped, Least
<1>3. /\ Most(SyncInterval \div 2, 1) \in Nat
      /\ SyncInterval > 1 => Most(SyncInterval \div 2, 1) < SyncInterval
  BY LoopConstants DEF Most
<1> QED BY <1>2, <1>3, LoopConstants DEF RetryDelay, Least

\* While failures are counted, what is left of a sleep is left of a retry delay.
SleepIsShort ==
  /\ delay \in Nat
  /\ phase = "sleeping" /\ consecutive > 0 =>
       /\ delay <= MaxDelay
       /\ SyncInterval > 1 => delay < SyncInterval

\* Every step keeps the sleeps of a loop with failures short (server.rs 286-325).
LEMMA SleepStep == LoopInv /\ SleepIsShort /\ [LoopNext]_loopVars => SleepIsShort'
<1> SUFFICES ASSUME LoopInv, SleepIsShort, [LoopNext]_loopVars PROVE SleepIsShort'
  OBVIOUS
<1> USE DEF SleepIsShort, cycle, outside
<1>1. consecutive \in 0..MaxFailures /\ MaxDelay \in Nat /\ SyncInterval \in Nat
  BY LoopConstants DEF LoopInv, LoopTypes
<1>2. CASE UNCHANGED <<phase, cycle>>
  BY <1>2
<1>3. CASE StartCycle \/ Wake
  BY <1>3 DEF StartCycle, Wake
<1>4. ASSUME NEW e \in Ecosystems, SyncEcosystem(e) PROVE SleepIsShort'
  BY <1>4 DEF SyncEcosystem
<1>5. CASE FullSuccess
  BY <1>1, <1>5 DEF FullSuccess
<1>6. CASE PartialFailure \/ RunRefused
  BY <1>1, <1>6, SaturatedCounts, RetryDelayIsShort DEF PartialFailure, RunRefused
<1>7. CASE Sleep
  BY <1>1, <1>7 DEF Sleep
<1>8. CASE Restart
  BY <1>8 DEF Restart
<1> QED
  BY <1>2, <1>3, <1>4, <1>5, <1>6, <1>7, <1>8
  DEF LoopNext, Loop, FeedsChange, OthersInterfere, loopVars

\* background_retry_delay and the loop: while an ecosystem is behind, the loop never
\* sleeps longer than the maximum delay nor as long as a regular interval.
THEOREM RetriesAreSoon == LoopSpec => []RetriesComeSoon
<1>1. LoopInit => SleepIsShort
  BY DEF LoopInit, SleepIsShort
<1>2. LoopInv /\ SleepIsShort => RetriesComeSoon
  BY DEF LoopInv, LoopTypes, FailuresStayRequested, SleepIsShort, RetriesComeSoon
<1> QED BY <1>1, <1>2, SleepStep, LoopInvariant, PTL DEF LoopSpec
=============================================================================
