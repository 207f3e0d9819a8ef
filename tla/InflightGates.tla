----------------------------- MODULE InflightGates -----------------------------
(***************************************************************************)
(* The per-key refresh gates of src/src/catalog.rs.                        *)
(*                                                                         *)
(* `CatalogState::inflight` maps a row key to a reference-counted async    *)
(* mutex, the key's gate.  A task in `fetch_row` clones the key's gate     *)
(* under the map's lock (making one where there is none), locks it,        *)
(* refreshes the row, and drops, in reverse order of declaration, the      *)
(* lock, the `InflightSweep` and its own handle on the gate.  The sweep    *)
(* takes the map's lock again and removes the key's gate when at most two  *)
(* handles on it are left.  A task can be dropped at either await: the     *)
(* same three drops follow.                                                *)
(*                                                                         *)
(* A reference count is not a variable here: it is the number of places    *)
(* that name the gate, the map and every task's `gate`.                    *)
(***************************************************************************)
EXTENDS FiniteSets, Naturals

CONSTANTS Task,    \* requests and the background refresher
          Key,     \* row cache keys
          Gate,    \* the gates an allocation can return
          NoTask, NoKey, NoGate

ASSUME TaskAssumption == IsFiniteSet(Task) /\ NoTask \notin Task
ASSUME KeyAssumption  == NoKey \notin Key
ASSUME GatesAssumption == NoGate \notin Gate

VARIABLES
    inflight,  \* the map: a key's gate, or NoGate
    owner,     \* owner[g]: the task that locked gate g, or NoTask
    at,        \* where each task is in fetch_row
    key,       \* the row each task is fetching
    gate       \* each task's own handle, or NoGate

gateVars == <<inflight, owner, at, key, gate>>

GatesTypeOK ==
    /\ inflight \in [Key -> Gate \cup {NoGate}]
    /\ owner \in [Gate -> Task \cup {NoTask}]
    /\ at \in [Task -> {"out", "waiting", "holding", "sweeping", "dropping"}]
    /\ key \in [Task -> Key \cup {NoKey}]
    /\ gate \in [Task -> Gate \cup {NoGate}]

GatesInit ==
    /\ inflight = [k \in Key |-> NoGate]
    /\ owner = [g \in Gate |-> NoTask]
    /\ at = [t \in Task |-> "out"]
    /\ key = [t \in Task |-> NoKey]
    /\ gate = [t \in Task |-> NoGate]

(* The tasks with a handle on gate g. *)
Handles(g) == {t \in Task : gate[t] = g}

-----------------------------------------------------------------------------
(* Bugs the gates could have had: each property below fails of one.        *)

(* The sweep's count forgets that the map holds a handle too. *)
CountWithoutMap(g) == Cardinality(Handles(g))

(* `insert` where the code has `entry(..).or_insert_with(..)`. *)
JoinInserting(t, k) ==
    /\ at[t] = "out"
    /\ \E g \in Gate :
         /\ Handles(g) = {} /\ \A j \in Key : inflight[j] # g
         /\ inflight' = [inflight EXCEPT ![k] = g]
         /\ gate' = [gate EXCEPT ![t] = g]
    /\ at' = [at EXCEPT ![t] = "waiting"]
    /\ key' = [key EXCEPT ![t] = k]
    /\ UNCHANGED owner

(* A lock is handed over only to a task that has the gate to itself. *)
AcquireAlone(t) ==
    /\ at[t] = "waiting"
    /\ owner[gate[t]] = NoTask /\ Cardinality(Handles(gate[t])) = 1
    /\ owner' = [owner EXCEPT ![gate[t]] = t]
    /\ at' = [at EXCEPT ![t] = "holding"]
    /\ UNCHANGED <<inflight, key, gate>>

-----------------------------------------------------------------------------
(* The steps of a task.                                                    *)

(* Arc::strong_count: the tasks' handles and the map's. *)
StrongCount(g) == 1 + Cardinality(Handles(g))

(* A gate nobody names: what Arc::new can return. *)
Unused(g) == Handles(g) = {} /\ \A k \in Key : inflight[k] # g

(* Under the map's lock: clone the key's gate, or insert a new one. *)
Join(t, k) ==
    /\ at[t] = "out"
    /\ \E g \in Gate :
         /\ IF inflight[k] = NoGate THEN Unused(g) ELSE g = inflight[k]
         /\ inflight' = [inflight EXCEPT ![k] = g]
         /\ gate' = [gate EXCEPT ![t] = g]
    /\ at' = [at EXCEPT ![t] = "waiting"]
    /\ key' = [key EXCEPT ![t] = k]
    /\ UNCHANGED owner

(* `gate.lock().await` returns. *)
Acquire(t) ==
    /\ at[t] = "waiting"
    /\ owner[gate[t]] = NoTask
    /\ owner' = [owner EXCEPT ![gate[t]] = t]
    /\ at' = [at EXCEPT ![t] = "holding"]
    /\ UNCHANGED <<inflight, key, gate>>

(* The caller goes away while its task waits for the lock. *)
CancelWait(t) ==
    /\ at[t] = "waiting"
    /\ at' = [at EXCEPT ![t] = "sweeping"]
    /\ UNCHANGED <<inflight, owner, key, gate>>

(* `_hold` drops: the row is answered, or the caller went away. *)
Unlock(t) ==
    /\ at[t] = "holding"
    /\ owner' = [owner EXCEPT ![gate[t]] = NoTask]
    /\ at' = [at EXCEPT ![t] = "sweeping"]
    /\ UNCHANGED <<inflight, key, gate>>

(* `_sweep` drops, under the map's lock. *)
Sweep(t) ==
    /\ at[t] = "sweeping"
    /\ IF inflight[key[t]] # NoGate /\ StrongCount(inflight[key[t]]) <= 2
         THEN inflight' = [inflight EXCEPT ![key[t]] = NoGate]
         ELSE UNCHANGED inflight
    /\ at' = [at EXCEPT ![t] = "dropping"]
    /\ UNCHANGED <<owner, key, gate>>

(* The task's own handle drops, after the sweep and outside the map's lock. *)
DropHandle(t) ==
    /\ at[t] = "dropping"
    /\ gate' = [gate EXCEPT ![t] = NoGate]
    /\ key' = [key EXCEPT ![t] = NoKey]
    /\ at' = [at EXCEPT ![t] = "out"]
    /\ UNCHANGED <<inflight, owner>>

Step(t) == Acquire(t) \/ Unlock(t) \/ Sweep(t) \/ DropHandle(t)

GatesNext == \E t \in Task : (\E k \in Key : Join(t, k)) \/ CancelWait(t) \/ Step(t)

GatesSpec == GatesInit /\ [][GatesNext]_gateVars

(* The runtime polls every ready task; tokio's mutex hands itself to its   *)
(* waiters in turn, so one that keeps coming free is obtained.             *)
GatesFairness == \A t \in Task :
    /\ WF_gateVars(Unlock(t)) /\ WF_gateVars(Sweep(t)) /\ WF_gateVars(DropHandle(t))
    /\ SF_gateVars(Acquire(t))

FairGatesSpec == GatesSpec /\ GatesFairness

-----------------------------------------------------------------------------
(* The inductive invariant.                                                *)

Joined(t) == at[t] \in {"waiting", "holding", "sweeping"}

(* While a task waits, holds or has yet to sweep, the map still has the    *)
(* gate it joined, so whoever joins the key now joins the same gate.       *)
GateStaysMapped == \A t \in Task : Joined(t) =>
    /\ key[t] \in Key
    /\ gate[t] \in Gate
    /\ inflight[key[t]] = gate[t]

(* Two keys never share a gate. *)
GatesDistinct == \A j, k \in Key :
    inflight[j] # NoGate /\ inflight[j] = inflight[k] => j = k

(* A lock is held by the task that thinks it holds it. *)
OwnersHold == /\ \A t \in Task : at[t] = "holding" => owner[gate[t]] = t
              /\ \A g \in Gate : owner[g] # NoTask =>
                   at[owner[g]] = "holding" /\ gate[owner[g]] = g

GatesInv == GatesTypeOK /\ GateStaysMapped /\ GatesDistinct /\ OwnersHold

-----------------------------------------------------------------------------
(* Properties.                                                             *)

(* "One refresh per key runs": two tasks never refresh one row at a time,  *)
(* however joins, cancellations, sweeps and handle drops interleave.       *)
OneRefreshPerKey == \A t, u \in Task :
    at[t] = "holding" /\ at[u] = "holding" /\ key[t] = key[u] => t = u

(* A step never takes from the map a gate that a task other than the one   *)
(* leaving still waits for or holds (`InflightSweep`: "a key that anyone   *)
(* else still wants counts higher and stays").                             *)
WantedGateStays ==
    [][\A k \in Key : inflight[k] # NoGate /\ inflight'[k] # inflight[k]
         => \A t \in Task : at'[t] \in {"waiting", "holding"} => key'[t] # k]_gateVars

(* Every task that waits on a gate stops waiting: the gates never deadlock *)
(* or strand a waiter on a gate that left the map.                         *)
WaitersMove == \A t \in Task : at[t] = "waiting" ~> at[t] # "waiting"

(* The promise, with the task holding a key's gate as its refresher. *)
RefresherOf(k) == IF \E t \in Task : at[t] = "holding" /\ key[t] = k
                    THEN CHOOSE t \in Task : at[t] = "holding" /\ key[t] = k
                    ELSE NoTask

Promise == INSTANCE SingleFlight WITH refresher <- [k \in Key |-> RefresherOf(k)]

KeepsPromise == Promise!Spec
=============================================================================
