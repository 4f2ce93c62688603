------------------------------ MODULE RunMutex ------------------------------
(***************************************************************************)
(* What the sync-run lock promises: at any time at most one task runs a    *)
(* sync of a store, over all processes.  A task that ends lets its store   *)
(* go, and a process that dies does so for all of its tasks.               *)
(***************************************************************************)
CONSTANTS Tasks, StoreFiles, Nobody

VARIABLE holder      \* StoreFiles -> Tasks \cup {Nobody}

Init == holder = [f \in StoreFiles |-> Nobody]

Acquire(t, f) == holder[f] = Nobody /\ holder' = [holder EXCEPT ![f] = t]

Release(ts) ==
  holder' = [f \in StoreFiles |-> IF holder[f] \in ts THEN Nobody ELSE holder[f]]

Next == (\E t \in Tasks, f \in StoreFiles : Acquire(t, f)) \/ \E ts \in SUBSET Tasks : Release(ts)

Spec == Init /\ [][Next]_holder
=============================================================================
