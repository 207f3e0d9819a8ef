------------------------------ MODULE SingleFlight ------------------------------
(***************************************************************************)
(* What `CatalogState::fetch_row` promises its callers: "one refresh per   *)
(* key runs; the rest wait".  The promise says nothing of gates, handle    *)
(* counts or a map of them; InflightGates implements it with those.        *)
(* CatalogRows is written over the promise.                                *)
(***************************************************************************)
CONSTANTS Task,     \* requests and the background refresher
          Key,      \* row cache keys
          NoTask    \* not a task

VARIABLE refresher  \* refresher[k]: the one task refreshing k, or NoTask

Init == refresher = [k \in Key |-> NoTask]

(* A task holds one key's refresh at a time. *)
Start(t, k) == /\ refresher[k] = NoTask
               /\ \A j \in Key : refresher[j] # t
               /\ refresher' = [refresher EXCEPT ![k] = t]

Finish(k) == /\ refresher[k] # NoTask
             /\ refresher' = [refresher EXCEPT ![k] = NoTask]

Next == \E k \in Key : Finish(k) \/ \E t \in Task : Start(t, k)

Spec == Init /\ [][Next]_refresher
=============================================================================
