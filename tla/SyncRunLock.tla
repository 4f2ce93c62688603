---------------------------- MODULE SyncRunLock -----------------------------
(***************************************************************************)
(* The sync-run lock (SyncRunGuard of malicious.rs): two locks in a row, a *)
(* set of paths in each process and an advisory lock on a file beside the  *)
(* store.  Each is taken and given back in a step of its own, with other   *)
(* tasks and processes between, and a process may die at any point, which  *)
(* empties its set and closes its files.                                   *)
(***************************************************************************)
EXTENDS FiniteSets

CONSTANTS
  Tasks,           \* the tasks that may sync, in every process
  Processes,
  ProcessOf,       \* the process of a task
  Paths,           \* how a configuration may spell the path of a store
  StoreFiles,      \* the stores
  Normalized,      \* the store that a path leads to, past links and "."
  Nobody           \* not a task

\* A task belongs to a process, a path leads to a store, and Nobody is not a task.
ASSUME LockConstants ==
  /\ ProcessOf \in [Tasks -> Processes]
  /\ Normalized \in [Paths -> StoreFiles]
  /\ Nobody \notin Tasks

VARIABLES
  active,          \* ACTIVE_SYNC_PATHS of each process
  locked,          \* the task whose open file holds the lock beside a store
  stage,           \* where a task is in acquire or drop
  file             \* the store that it normalised its path to
lockVars == <<active, locked, stage, file>>

Stages == {"idle", "open", "lock", "undo", "running", "unlocked"}

LockInit ==
  /\ active = [p \in Processes |-> {}]
  /\ locked = [f \in StoreFiles |-> Nobody]
  /\ stage = [t \in Tasks |-> "idle"]
  /\ file \in [Tasks -> StoreFiles]

Goes(t, to) == stage' = [stage EXCEPT ![t] = to]

\* normalized_sync_path, so that no two spellings of a store are two locks.
StoreOf(path) == Normalized[path]

\* acquire: a path that is already in the set is refused, and left there.
Enter(t, path) ==
  LET f == StoreOf(path)
      p == ProcessOf[t]
  IN /\ stage[t] = "idle" /\ f \notin active[p]
     /\ active' = [active EXCEPT ![p] = @ \cup {f}]
     /\ file' = [file EXCEPT ![t] = f]
     /\ Goes(t, "open")
     /\ UNCHANGED locked

\* Opening the file, or locking it, may fail for reasons of the file system.
Open(t) == stage[t] = "open" /\ Goes(t, "lock") /\ UNCHANGED <<active, locked, file>>
Fail(t) == stage[t] \in {"open", "lock"} /\ Goes(t, "undo") /\ UNCHANGED <<active, locked, file>>

NoFileLock(t) == TRUE
FileLockFree(t) == locked[file[t]] = Nobody

TryLock(t) ==
  /\ stage[t] = "lock" /\ FileLockFree(t)
  /\ locked' = [locked EXCEPT ![file[t]] = t]
  /\ Goes(t, "running")
  /\ UNCHANGED <<active, file>>

WouldBlock(t) ==
  /\ stage[t] = "lock" /\ ~FileLockFree(t)
  /\ Goes(t, "undo")
  /\ UNCHANGED <<active, locked, file>>

\* drop: the file first, then the set.  A refusal gives back the set alone.
Unlock(t) ==
  /\ stage[t] = "running"
  /\ locked' = [locked EXCEPT ![file[t]] = Nobody]
  /\ Goes(t, "unlocked")
  /\ UNCHANGED <<active, file>>

KeepsPath(t) == active
WithoutPath(t) == [active EXCEPT ![ProcessOf[t]] = @ \ {file[t]}]

Leave(t) ==
  /\ stage[t] \in {"undo", "unlocked"}
  /\ active' = WithoutPath(t)
  /\ Goes(t, "idle")
  /\ UNCHANGED <<locked, file>>

Crash(p) ==
  LET dead == {t \in Tasks : ProcessOf[t] = p}
  IN /\ \E t \in dead : stage[t] # "idle"
     /\ active' = [active EXCEPT ![p] = {}]
     /\ locked' = [f \in StoreFiles |-> IF locked[f] \in dead THEN Nobody ELSE locked[f]]
     /\ stage' = [t \in Tasks |-> IF t \in dead THEN "idle" ELSE stage[t]]
     /\ UNCHANGED file

LockNext ==
  \/ \E t \in Tasks :
       \/ \E path \in Paths : Enter(t, path)
       \/ Open(t) \/ Fail(t) \/ TryLock(t) \/ WouldBlock(t) \/ Unlock(t) \/ Leave(t)
  \/ \E p \in Processes : Crash(p)

LockSpec == LockInit /\ [][LockNext]_lockVars

-----------------------------------------------------------------------------
\* The store that a task is syncing.
Holder == [f \in StoreFiles |->
             IF \E t \in Tasks : stage[t] = "running" /\ file[t] = f
             THEN CHOOSE t \in Tasks : stage[t] = "running" /\ file[t] = f ELSE Nobody]

Mutex == INSTANCE RunMutex WITH holder <- Holder

\* The two locks are one mutual exclusion over all tasks of all processes, whatever is
\* refused, fails or dies in between (malicious.rs 589-657); OsvSync takes it as such.
LockImplementsMutex == Mutex!Spec

\* No path stays in the set of a process, and no file stays locked, for nobody: each is
\* there for one task that is still to give it back, so that no store becomes one that can
\* never be synced again.
LockLeavesNothingBehind ==
  /\ \A p \in Processes : \A f \in active[p] :
       \E t \in Tasks : ProcessOf[t] = p /\ file[t] = f /\ stage[t] # "idle"
  /\ \A f \in StoreFiles : locked[f] # Nobody =>
       stage[locked[f]] = "running" /\ file[locked[f]] = f
=============================================================================
