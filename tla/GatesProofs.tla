------------------------------- MODULE GatesProofs -------------------------------
(***************************************************************************)
(* The two kinds of gate a request meets.  For every set of tasks, keys and *)
(* gates: one task at a time refreshes a row, a sweep leaves wanted gates  *)
(* alone, and the gates keep the promise of SingleFlight.  For every number *)
(* of requests, permits and places: the work of a class is bounded, the    *)
(* counters tell the truth, and no permit idles while a request waits for  *)
(* one.                                                                    *)
(***************************************************************************)
EXTENDS InflightGates, AdmissionGate, CommonTheorems, FiniteSetTheorems

-----------------------------------------------------------------------------
(* The gates of the rows (InflightGates).                                  *)

(* Two tasks with a handle on a gate are counted as two. *)
LEMMA TwoHandles ==
    ASSUME NEW g \in Gate, NEW t \in Task, NEW u \in Task, t # u,
           gate[t] = g, gate[u] = g
    PROVE  ~ (StrongCount(g) <= 2)
<1> DEFINE H == Handles(g)
<1>1. IsFiniteSet(H) /\ Cardinality(H) \in Nat
  BY TaskAssumption, FS_Subset, FS_CardinalityType DEF Handles
<1>2. {t, u} \subseteq H
  BY DEF Handles
<1>3. Cardinality({t, u}) = 2
  <2>1. IsFiniteSet({t}) /\ Cardinality({t}) = 1
    BY FS_Singleton
  <2>2. Cardinality({t} \cup {u}) = Cardinality({t}) + 1
    BY <2>1, FS_AddElement
  <2>3. {t} \cup {u} = {t, u}
    OBVIOUS
  <2> QED BY <2>1, <2>2, <2>3
<1>4. Cardinality({t, u}) <= Cardinality(H)
  BY <1>1, <1>2, FS_Subset
<1> QED BY <1>1, <1>3, <1>4 DEF StrongCount

LEMMA InitGatesInv == GatesInit => GatesInv
BY TaskAssumption, GatesAssumption
   DEF GatesInit, GatesInv, GatesTypeOK, GateStaysMapped, Joined, GatesDistinct, OwnersHold

(* The invariant is inductive.  Only Sweep can disturb GateStaysMapped: it *)
(* removes a gate nobody but the sweeping task has a handle on.            *)
LEMMA NextGatesInv == GatesInv /\ [GatesNext]_gateVars => GatesInv'
<1> SUFFICES ASSUME GatesInv, [GatesNext]_gateVars
             PROVE  GatesInv'
  OBVIOUS
<1> USE TaskAssumption, KeyAssumption, GatesAssumption
<1>1. ASSUME NEW t \in Task, NEW k \in Key, Join(t, k)
      PROVE  GatesInv'
  <2>1. PICK g \in Gate :
          /\ IF inflight[k] = NoGate THEN Unused(g) ELSE g = inflight[k]
          /\ inflight' = [inflight EXCEPT ![k] = g]
          /\ gate' = [gate EXCEPT ![t] = g]
    BY <1>1 DEF Join
  <2>2. GatesTypeOK'
    BY <1>1, <2>1 DEF Join, GatesInv, GatesTypeOK
  <2>3. \A j \in Key : inflight[j] # NoGate => inflight'[j] = inflight[j]
    BY <2>1 DEF GatesInv, GatesTypeOK
  <2>4. GateStaysMapped'
    BY <1>1, <2>1, <2>3 DEF Join, GatesInv, GatesTypeOK, GateStaysMapped, Joined
  <2>5. GatesDistinct'
    BY <2>1 DEF GatesInv, GatesTypeOK, GatesDistinct, Unused
  <2>6. OwnersHold'
    BY <1>1, <2>1 DEF Join, GatesInv, GatesTypeOK, OwnersHold
  <2> QED BY <2>2, <2>4, <2>5, <2>6 DEF GatesInv
<1>2. ASSUME NEW t \in Task, CancelWait(t)
      PROVE  GatesInv'
  BY <1>2 DEF CancelWait, GatesInv, GatesTypeOK, GateStaysMapped, Joined, GatesDistinct, OwnersHold
<1>3. ASSUME NEW t \in Task, Acquire(t)
      PROVE  GatesInv'
  <2>1. gate[t] \in Gate
    BY <1>3 DEF Acquire, GatesInv, GateStaysMapped, Joined
  <2>2. GatesTypeOK'
    BY <1>3, <2>1 DEF Acquire, GatesInv, GatesTypeOK
  <2>3. GateStaysMapped' /\ GatesDistinct'
    BY <1>3 DEF Acquire, GatesInv, GatesTypeOK, GateStaysMapped, Joined, GatesDistinct
  <2>4. OwnersHold'
    BY <1>3, <2>1 DEF Acquire, GatesInv, GatesTypeOK, OwnersHold
  <2> QED BY <2>2, <2>3, <2>4 DEF GatesInv
<1>4. ASSUME NEW t \in Task, Unlock(t)
      PROVE  GatesInv'
  <2>1. gate[t] \in Gate /\ owner[gate[t]] = t
    BY <1>4 DEF Unlock, GatesInv, GateStaysMapped, Joined, OwnersHold
  <2>2. GatesTypeOK'
    BY <1>4, <2>1 DEF Unlock, GatesInv, GatesTypeOK
  <2>3. GateStaysMapped' /\ GatesDistinct'
    BY <1>4 DEF Unlock, GatesInv, GatesTypeOK, GateStaysMapped, Joined, GatesDistinct
  <2>4. OwnersHold'
    BY <1>4, <2>1 DEF Unlock, GatesInv, GatesTypeOK, OwnersHold
  <2> QED BY <2>2, <2>3, <2>4 DEF GatesInv
<1>5. ASSUME NEW t \in Task, Sweep(t)
      PROVE  GatesInv'
  <2>1. key[t] \in Key /\ gate[t] \in Gate /\ inflight[key[t]] = gate[t]
    BY <1>5 DEF Sweep, GatesInv, GateStaysMapped, Joined
  <2>2. GatesTypeOK'
    BY <1>5 DEF Sweep, GatesInv, GatesTypeOK
  <2>3. GateStaysMapped'
    <3> SUFFICES ASSUME NEW u \in Task, Joined(u)'
                 PROVE  key[u] \in Key /\ gate[u] \in Gate /\ inflight'[key[u]] = gate[u]
      BY <1>5 DEF Sweep, GateStaysMapped
    <3>1. u # t /\ Joined(u)
      BY <1>5 DEF Sweep, GatesInv, GatesTypeOK, Joined
    <3>2. key[u] \in Key /\ gate[u] \in Gate /\ inflight[key[u]] = gate[u]
      BY <3>1 DEF GatesInv, GateStaysMapped
    <3>3. CASE inflight' = inflight
      BY <3>2, <3>3
    <3>4. CASE StrongCount(inflight[key[t]]) <= 2 /\ inflight' = [inflight EXCEPT ![key[t]] = NoGate]
      <4>1. gate[u] # gate[t]
        BY <2>1, <3>1, <3>4, TwoHandles
      <4>2. key[u] # key[t]
        BY <2>1, <3>2, <4>1
      <4> QED BY <3>2, <3>4, <4>2 DEF GatesInv, GatesTypeOK
    <3> QED BY <1>5, <3>3, <3>4 DEF Sweep
  <2>4. GatesDistinct'
    BY <1>5 DEF Sweep, GatesInv, GatesTypeOK, GatesDistinct
  <2>5. OwnersHold'
    BY <1>5 DEF Sweep, GatesInv, GatesTypeOK, OwnersHold
  <2> QED BY <2>2, <2>3, <2>4, <2>5 DEF GatesInv
<1>6. ASSUME NEW t \in Task, DropHandle(t)
      PROVE  GatesInv'
  <2>1. GatesTypeOK'
    BY <1>6 DEF DropHandle, GatesInv, GatesTypeOK
  <2>2. GateStaysMapped' /\ GatesDistinct'
    BY <1>6 DEF DropHandle, GatesInv, GatesTypeOK, GateStaysMapped, Joined, GatesDistinct
  <2>3. OwnersHold'
    BY <1>6 DEF DropHandle, GatesInv, GatesTypeOK, OwnersHold
  <2> QED BY <2>1, <2>2, <2>3 DEF GatesInv
<1>7. CASE UNCHANGED gateVars
  BY <1>7 DEF gateVars, GatesInv, GatesTypeOK, GateStaysMapped, Joined, GatesDistinct, OwnersHold
<1> QED BY <1>1, <1>2, <1>3, <1>4, <1>5, <1>6, <1>7 DEF GatesNext, Step

(* The inductive invariant holds of every behaviour. *)
THEOREM GatesInvariance == GatesSpec => []GatesInv
<1> QED BY InitGatesInv, NextGatesInv, PTL DEF GatesSpec

(* `fetch_row`: "one refresh per key runs".  Two tasks holding the lock for *)
(* one key joined the gate the map has for it, which has one owner.         *)
LEMMA IInvOneRefresh == GatesInv => OneRefreshPerKey
BY DEF GatesInv, GateStaysMapped, Joined, OwnersHold, OneRefreshPerKey

THEOREM SingleRefresh == GatesSpec => []OneRefreshPerKey
<1> QED BY GatesInvariance, IInvOneRefresh, PTL

(* `InflightSweep`: "a key that anyone else still wants counts higher and  *)
(* stays".  In the step that takes a gate away, nobody waits for it.       *)
THEOREM SweepLeavesWanted == GatesSpec => WantedGateStays
<1> DEFINE Stays == \A k \in Key : inflight[k] # NoGate /\ inflight'[k] # inflight[k]
                      => \A t \in Task : at'[t] \in {"waiting", "holding"} => key'[t] # k
<1>1. ASSUME GatesInv, GatesInv', [GatesNext]_gateVars
      PROVE  [Stays]_gateVars
  <2> SUFFICES ASSUME NEW k \in Key, inflight[k] # NoGate, inflight'[k] # inflight[k],
                      NEW t \in Task, at'[t] \in {"waiting", "holding"}, key'[t] = k
               PROVE  FALSE
    OBVIOUS
  <2>1. gate'[t] \in Gate /\ inflight'[k] = gate'[t]
    BY <1>1 DEF GatesInv, GateStaysMapped, Joined
  <2>2. ASSUME NEW u \in Task, NEW j \in Key, Join(u, j)
        PROVE  FALSE
    BY <1>1, <2>2 DEF Join, GatesInv, GatesTypeOK
  <2>3. ASSUME NEW u \in Task, Sweep(u)
        PROVE  FALSE
    <3>1. inflight'[k] = NoGate
      BY <1>1, <2>3 DEF Sweep, GatesInv, GatesTypeOK
    <3> QED BY <2>1, <3>1, GatesAssumption
  <2>4. CASE UNCHANGED inflight
    BY <2>4
  <2> QED BY <1>1, <2>2, <2>3, <2>4
          DEF GatesNext, Step, gateVars, CancelWait, Acquire, Unlock, DropHandle
<1> QED BY <1>1, GatesInvariance, PTL DEF GatesSpec, WantedGateStays

-----------------------------------------------------------------------------
(* Refinement of SingleFlight.                                             *)

(* The holder of a key's gate is the refresher the promise sees. *)
LEMMA RefresherIsHolder ==
    ASSUME GatesInv, NEW k \in Key, NEW t \in Task
    PROVE  RefresherOf(k) = t <=> at[t] = "holding" /\ key[t] = k
<1>1. OneRefreshPerKey
  BY IInvOneRefresh
<1>2. CASE \E u \in Task : at[u] = "holding" /\ key[u] = k
  <2>1. RefresherOf(k) \in Task /\ at[RefresherOf(k)] = "holding" /\ key[RefresherOf(k)] = k
    BY <1>2 DEF RefresherOf
  <2> QED BY <1>1, <2>1 DEF OneRefreshPerKey
<1>3. CASE ~ \E u \in Task : at[u] = "holding" /\ key[u] = k
  BY <1>3, TaskAssumption DEF RefresherOf
<1> QED BY <1>2, <1>3

(* A step that moves no task into or out of "holding" is a stutter. *)
LEMMA SameHolders ==
    ASSUME \A t \in Task : at'[t] = "holding" <=> at[t] = "holding",
           \A t \in Task : at[t] = "holding" => key'[t] = key[t]
    PROVE  [k \in Key |-> RefresherOf(k)]' = [k \in Key |-> RefresherOf(k)]
<1> SUFFICES ASSUME NEW k \in Key
             PROVE  RefresherOf(k)' = RefresherOf(k)
  OBVIOUS
<1>1. \A t \in Task : (at'[t] = "holding" /\ key'[t] = k) <=> (at[t] = "holding" /\ key[t] = k)
  OBVIOUS
<1> QED BY <1>1, Zenon DEF RefresherOf

LEMMA StepKeepsPromise == GatesInv /\ GatesInv' /\ [GatesNext]_gateVars =>
    [Promise!Next]_([k \in Key |-> RefresherOf(k)])
<1> SUFFICES ASSUME GatesInv, GatesInv', [GatesNext]_gateVars
             PROVE  Promise!Next \/ [k \in Key |-> RefresherOf(k)]' = [k \in Key |-> RefresherOf(k)]
  OBVIOUS
<1> DEFINE R == [k \in Key |-> RefresherOf(k)]
<1> USE TaskAssumption
<1>1. ASSUME NEW t \in Task, NEW k \in Key, Join(t, k)
      PROVE  R' = R
  BY <1>1, SameHolders DEF Join, GatesInv, GatesTypeOK
<1>2. ASSUME NEW t \in Task, CancelWait(t)
      PROVE  R' = R
  BY <1>2, SameHolders DEF CancelWait, GatesInv, GatesTypeOK
<1>3. ASSUME NEW t \in Task, Acquire(t)
      PROVE  Promise!Next
  <2>1. key[t] \in Key /\ at[t] = "waiting" /\ at' = [at EXCEPT ![t] = "holding"] /\ key' = key
    BY <1>3 DEF Acquire, GatesInv, GateStaysMapped, Joined
  <2>2. R[key[t]] = NoTask
    <3>1. \A u \in Task : ~ (at[u] = "holding" /\ key[u] = key[t])
      BY <1>3, <2>1 DEF Acquire, GatesInv, GateStaysMapped, Joined, OwnersHold
    <3> QED BY <2>1, <3>1 DEF RefresherOf
  <2>3. \A j \in Key : R[j] # t
    BY <2>1, RefresherIsHolder
  <2>4. R' = [R EXCEPT ![key[t]] = t]
    <3>1. ASSUME NEW j \in Key
          PROVE  RefresherOf(j)' = IF j = key[t] THEN t ELSE RefresherOf(j)
      <4>1. CASE j = key[t]
        <5>1. \A u \in Task : (at'[u] = "holding" /\ key'[u] = j) <=> u = t
          BY <2>1, <2>2, <4>1, RefresherIsHolder DEF GatesInv, GatesTypeOK
        <5> QED BY <4>1, <5>1 DEF RefresherOf
      <4>2. CASE j # key[t]
        <5>1. \A u \in Task : (at'[u] = "holding" /\ key'[u] = j) <=> (at[u] = "holding" /\ key[u] = j)
          BY <2>1, <4>2 DEF GatesInv, GatesTypeOK
        <5> QED BY <4>2, <5>1, Zenon DEF RefresherOf
      <4> QED BY <4>1, <4>2
    <3> QED BY <3>1
  <2> QED BY <2>1, <2>2, <2>3, <2>4 DEF Promise!Next, Promise!Start
<1>4. ASSUME NEW t \in Task, Unlock(t)
      PROVE  Promise!Next
  <2>1. key[t] \in Key /\ at[t] = "holding" /\ at' = [at EXCEPT ![t] = "sweeping"] /\ key' = key
    BY <1>4 DEF Unlock, GatesInv, GateStaysMapped, Joined
  <2>2. R[key[t]] = t
    BY <2>1, RefresherIsHolder
  <2>3. R' = [R EXCEPT ![key[t]] = NoTask]
    <3>1. ASSUME NEW j \in Key
          PROVE  RefresherOf(j)' = IF j = key[t] THEN NoTask ELSE RefresherOf(j)
      <4>1. CASE j = key[t]
        <5>1. \A u \in Task : ~ (at'[u] = "holding" /\ key'[u] = j)
          BY <2>1, <4>1, IInvOneRefresh DEF GatesInv, GatesTypeOK, OneRefreshPerKey
        <5> QED BY <4>1, <5>1 DEF RefresherOf
      <4>2. CASE j # key[t]
        <5>1. \A u \in Task : (at'[u] = "holding" /\ key'[u] = j) <=> (at[u] = "holding" /\ key[u] = j)
          BY <2>1, <4>2 DEF GatesInv, GatesTypeOK
        <5> QED BY <4>2, <5>1, Zenon DEF RefresherOf
      <4> QED BY <4>1, <4>2
    <3> QED BY <3>1
  <2> QED BY <2>1, <2>2, <2>3 DEF Promise!Next, Promise!Finish
<1>5. ASSUME NEW t \in Task, Sweep(t) \/ DropHandle(t)
      PROVE  R' = R
  BY <1>5, SameHolders DEF Sweep, DropHandle, GatesInv, GatesTypeOK
<1>6. CASE UNCHANGED gateVars
  BY <1>6, SameHolders DEF gateVars
<1> QED BY <1>1, <1>2, <1>3, <1>4, <1>5, <1>6 DEF GatesNext, Step

(* The gates implement "one refresh per key runs; the rest wait": every    *)
(* step of theirs is a start or a finish of one key's refresh, or is none  *)
(* of the caller's business.                                               *)
THEOREM GatesKeepPromise == GatesSpec => KeepsPromise
<1>1. GatesInit => Promise!Init
  BY DEF GatesInit, Promise!Init, RefresherOf
<1> QED BY <1>1, StepKeepsPromise, GatesInvariance, PTL DEF GatesSpec, KeepsPromise, Promise!Spec

-----------------------------------------------------------------------------
(* The admission gate of a class (AdmissionGate).                          *)

Working == {"holding", "running"}

(* How many requests f puts at one of the places. *)
Number(f, places) == Cardinality({r \in Request : f[r] \in places})

In(place, places) == IF place \in places THEN 1 ELSE 0

LEMMA NumberAt == \A places : /\ Cardinality(At(places)) = Number(pc, places)
                              /\ Cardinality(At(places))' = Number(pc', places)
BY DEF At, Number

LEMMA NumberType == ASSUME NEW f, NEW places PROVE Number(f, places) \in Nat
<1>1. IsFiniteSet({r \in Request : f[r] \in places})
  BY GateAssumption, FS_Subset
<1> QED BY <1>1, FS_CardinalityType DEF Number

(* A request that goes from one place to another. *)
LEMMA Move ==
    ASSUME NEW f \in [Request -> Places], NEW r \in Request, NEW place \in Places, NEW places
    PROVE  Number([f EXCEPT ![r] = place], places)
             = Number(f, places) + In(place, places) - In(f[r], places)
<1> DEFINE S == {q \in Request : f[q] \in places}
           T == {q \in Request : [f EXCEPT ![r] = place][q] \in places}
<1>1. IsFiniteSet(S) /\ Cardinality(S) \in Nat
  BY GateAssumption, FS_Subset, FS_CardinalityType
<1>2. CASE place \in places /\ f[r] \notin places
  <2>1. T = S \cup {r} /\ r \notin S
    BY <1>2
  <2>2. Cardinality(S \cup {r}) = Cardinality(S) + 1
    BY <1>1, <2>1, FS_AddElement
  <2> QED BY <1>1, <1>2, <2>1, <2>2 DEF Number, In
<1>3. CASE place \notin places /\ f[r] \in places
  <2>1. T = S \ {r} /\ r \in S
    BY <1>3
  <2>2. Cardinality(S \ {r}) = Cardinality(S) - 1
    BY <1>1, <2>1, FS_RemoveElement
  <2> QED BY <1>1, <1>3, <2>1, <2>2 DEF Number, In
<1>4. CASE (place \in places) <=> (f[r] \in places)
  <2>1. T = S
    BY <1>4
  <2>2. In(place, places) = In(f[r], places) /\ In(f[r], places) \in {0, 1}
    BY <1>4 DEF In
  <2>3. Number([f EXCEPT ![r] = place], places) = Number(f, places) /\ Number(f, places) \in Nat
    BY <1>1, <2>1 DEF Number
  <2> HIDE DEF S, T
  <2> QED BY <2>2, <2>3
<1> QED BY <1>2, <1>3, <1>4

LEMMA PlaceTypes ==
    /\ Capacity \in Nat \ {0} /\ QueueMax \in Nat
    /\ {"out", "entering", "granted", "holding", "running", "releasing", "queued", "waiting",
        "served", "leaving", "quitting"} = Places
BY GateAssumption DEF Places, InQueue

(* What the invariant says, in numbers. *)
LEMMA InNumbers ==
    ASSUME TypeOK
    PROVE  /\ permits \in Nat /\ abandoned \in Nat /\ returning \in Nat
           /\ queued \in Int /\ active \in Int
           /\ waiters \in Seq(Request) /\ pc \in [Request -> Places]
           /\ PermitsBalance <=> permits + Number(pc, WithPermit) + abandoned + returning = Capacity
           /\ CountersTell <=> /\ queued = Number(pc, InQueue)
                             /\ active = Number(pc, Working) + abandoned
           /\ \A places : Number(pc, places) \in Nat
BY NumberAt, NumberType DEF TypeOK, PermitsBalance, CountersTell, Working

(* A step that moves r alone, neither from nor to waiting. *)
LEMMA MoveKeeps ==
    ASSUME IInv, NEW r \in Request, NEW place \in Places, Goto(r, place), waiters' = waiters,
           pc[r] # "waiting", place # "waiting"
    PROVE  /\ pc' \in [Request -> Places] /\ WaitersQueue'
           /\ \A places : Number(pc', places)
                 = Number(pc, places) + In(place, places) - In(pc[r], places)
<1>1. pc \in [Request -> Places] /\ pc' = [pc EXCEPT ![r] = place]
  BY DEF IInv, TypeOK, Goto
<1>2. At({"waiting"})' = At({"waiting"})
  BY <1>1 DEF At
<1>3. WaitersQueue'
  BY <1>2 DEF IInv, WaitersQueue
<1>4. \A places : Number(pc', places) = Number(pc, places) + In(place, places) - In(pc[r], places)
  BY <1>1, Move
<1> QED BY <1>1, <1>3, <1>4

(* The first who waits is handed a permit; f is where the others are by    *)
(* then.                                                                   *)
LEMMA HandOver ==
    ASSUME TypeOK, WaitersQueue, waiters # <<>>, NEW f \in [Request -> Places],
           \A q \in Request : (f[q] = "waiting") <=> (pc[q] = "waiting"),
           pc' = [f EXCEPT ![Head(waiters)] = "served"], waiters' = Tail(waiters)
    PROVE  /\ pc' \in [Request -> Places] /\ waiters' \in Seq(Request) /\ WaitersQueue'
           /\ \A places : Number(pc', places)
                 = Number(f, places) + In("served", places) - In("waiting", places)
<1> DEFINE h == Head(waiters)
<1>1. /\ h \in Request /\ Tail(waiters) \in Seq(Request) /\ IsInjective(Tail(waiters))
      /\ ToSet(Tail(waiters)) = ToSet(waiters) \ {h}
  BY TailOfQueue DEF TypeOK, WaitersQueue
<1>2. h \in ToSet(waiters)
  BY DEF ToSet, TypeOK
<1>3. f[h] = "waiting"
  BY <1>1, <1>2 DEF WaitersQueue, At
<1>4. "served" \in Places
  BY PlaceTypes
<1>5. At({"waiting"})' = At({"waiting"}) \ {h}
  BY <1>1, <1>3 DEF At
<1>6. WaitersQueue'
  BY <1>1, <1>5 DEF WaitersQueue
<1>7. pc' \in [Request -> Places]
  BY <1>4
<1> HIDE DEF h
<1>8. pc' = [f EXCEPT ![h] = "served"]
  BY DEF h
<1>9. \A places : Number(pc', places)
                    = Number(f, places) + In("served", places) - In("waiting", places)
  <2>1. h \in Request
    BY <1>1
  <2>2. \A places : Number([f EXCEPT ![h] = "served"], places)
                      = Number(f, places) + In("served", places) - In(f[h], places)
    BY <1>4, <2>1, Move
  <2> QED BY <1>3, <1>8, <2>2
<1> QED BY <1>1, <1>6, <1>7, <1>9

(* A permit comes back: to the first who waits, or to the semaphore.       *)
LEMMA ReturnKeeps ==
    ASSUME IInv, NEW r \in Request, NEW place \in {"out", "quitting"}, Return(r, place),
           pc[r] \in {"served", "releasing"}
    PROVE  /\ permits' \in Nat /\ waiters' \in Seq(Request) /\ pc' \in [Request -> Places]
           /\ WaitersQueue' /\ NoIdlePermit'
           /\ permits' + Number(pc', WithPermit) = permits + Number(pc, WithPermit)
           /\ Number(pc', InQueue)
                = Number(pc, InQueue) + In(place, InQueue) - In(pc[r], InQueue)
           /\ Number(pc', Working) = Number(pc, Working)
<1>1. /\ TypeOK /\ WaitersQueue /\ NoIdlePermit
      /\ pc \in [Request -> Places] /\ place \in Places /\ permits \in Nat
      /\ place # "waiting" /\ pc[r] # "waiting"
  BY PlaceTypes DEF IInv, TypeOK
<1>2. \A places : Number(pc, places) \in Nat
  BY NumberType
<1>3. CASE /\ waiters # <<>>
           /\ pc' = [pc EXCEPT ![r] = place, ![Head(waiters)] = "served"]
           /\ waiters' = Tail(waiters)
           /\ permits' = permits
  <2> DEFINE left == [pc EXCEPT ![r] = place]
  <2>1. /\ left \in [Request -> Places]
        /\ \A q \in Request : (left[q] = "waiting") <=> (pc[q] = "waiting")
    BY <1>1
  <2>2. \A places : Number(left, places) = Number(pc, places)
                      + In(place, places) - In(pc[r], places)
    BY <1>1, Move
  <2> HIDE DEF left
  <2>3. pc' = [left EXCEPT ![Head(waiters)] = "served"]
    BY <1>3 DEF left
  <2>4. /\ pc' \in [Request -> Places] /\ waiters' \in Seq(Request) /\ WaitersQueue'
        /\ \A places : Number(pc', places)
              = Number(left, places) + In("served", places) - In("waiting", places)
    BY <1>1, <1>3, <2>1, <2>3, HandOver
  <2>5. Number(pc', WithPermit) = Number(pc, WithPermit)
    BY <1>2, <2>2, <2>4 DEF WithPermit, In
  <2>6. In("served", InQueue) = 1 /\ In("waiting", InQueue) = 1
    BY DEF InQueue, In
  <2>7. In(place, InQueue) \in {0, 1} /\ In(pc[r], InQueue) \in {0, 1}
    BY DEF In
  <2>8. Number(pc', InQueue) = Number(pc, InQueue) + In(place, InQueue) - In(pc[r], InQueue)
    BY <1>2, <2>2, <2>4, <2>6, <2>7
  <2>9. Number(pc', Working) = Number(pc, Working)
    BY <1>2, <2>2, <2>4 DEF Working, In
  <2>10. NoIdlePermit'
    BY <1>1, <1>3 DEF NoIdlePermit
  <2> QED BY <1>1, <1>3, <2>4, <2>5, <2>8, <2>9, <2>10
<1>4. CASE waiters = <<>> /\ Goto(r, place) /\ permits' = permits + 1 /\ waiters' = waiters
  <2>1. /\ pc' \in [Request -> Places] /\ WaitersQueue'
        /\ \A places : Number(pc', places) = Number(pc, places)
                          + In(place, places) - In(pc[r], places)
    BY <1>1, <1>4, MoveKeeps
  <2>2. Number(pc', WithPermit) = Number(pc, WithPermit) - 1
    BY <1>2, <2>1 DEF WithPermit, In
  <2>3. Number(pc', Working) = Number(pc, Working)
    BY <1>2, <2>1 DEF Working, In
  <2>4. NoIdlePermit' /\ waiters' \in Seq(Request) /\ permits' \in Nat
    BY <1>1, <1>4 DEF NoIdlePermit, TypeOK
  <2>5. permits' + Number(pc', WithPermit) = permits + Number(pc, WithPermit)
    BY <1>1, <1>2, <1>4, <2>2
  <2> QED BY <2>1, <2>3, <2>4, <2>5
<1> QED BY <1>3, <1>4 DEF Return

-----------------------------------------------------------------------------
LEMMA InitIInv == Init => IInv
<1> SUFFICES ASSUME Init PROVE IInv
  OBVIOUS
<1>1. TypeOK
  BY GateAssumption, PlaceTypes DEF Init, TypeOK
<1>2. At({"waiting"}) = {} /\ At(WithPermit) = {} /\ At(InQueue) = {} /\ At(Working) = {}
  BY DEF Init, At, WithPermit, InQueue, Working
<1>3. PermitsBalance
  BY <1>2, GateAssumption, FS_EmptySet DEF Init, PermitsBalance
<1>4. WaitersQueue
  BY <1>2 DEF Init, WaitersQueue, IsInjective, ToSet
<1>5. CountersTell
  BY <1>2, FS_EmptySet DEF Init, CountersTell, Working
<1> QED BY <1>1, <1>3, <1>4, <1>5, GateAssumption DEF IInv, Init, NoIdlePermit

LEMMA PermitSums ==
    ASSUME NEW p \in Int, NEW a \in Int, NEW t \in Int, NEW n \in Int, NEW i \in Int, NEW j \in Int,
           NEW p1 \in Int, NEW a1 \in Int, NEW t1 \in Int, NEW n1 \in Int,
           p1 + a1 + t1 + i = p + a + t + j, n1 = n + i - j
    PROVE  p1 + n1 + a1 + t1 = p + n + a + t
OBVIOUS

LEMMA JobSums ==
    ASSUME NEW k \in Int, NEW a \in Int, NEW n \in Int, NEW i \in Int, NEW j \in Int,
           NEW k1 \in Int, NEW a1 \in Int, NEW n1 \in Int,
           k1 - a1 = k - a + i - j, n1 = n + i - j, k = n + a
    PROVE  k1 = n1 + a1
OBVIOUS

(* Where r may stand before and after each step that moves it alone and    *)
(* leaves who waits as it was, by what changes with it.                    *)
LEMMA MoveStep ==
    ASSUME IInv, NEW r \in Request, NEW place \in Places, Goto(r, place), waiters' = waiters,
           pc[r] # "waiting", place # "waiting",
           permits' \in Nat, abandoned' \in Nat, returning' \in Nat,
           queued' \in Int, active' \in Int,
           permits' + abandoned' + returning' + In(place, WithPermit)
              = permits + abandoned + returning + In(pc[r], WithPermit),
           queued' = queued + In(place, InQueue) - In(pc[r], InQueue),
           active' - abandoned'
              = active - abandoned + In(place, Working) - In(pc[r], Working),
           permits' > 0 => permits > 0,
           queued' <= QueueMax
    PROVE  IInv'
<1>1. /\ TypeOK /\ PermitsBalance /\ CountersTell /\ NoIdlePermit
  BY DEF IInv
<1>2. /\ permits \in Nat /\ abandoned \in Nat /\ returning \in Nat
      /\ queued \in Int /\ active \in Int /\ waiters \in Seq(Request)
      /\ permits + Number(pc, WithPermit) + abandoned + returning = Capacity
      /\ queued = Number(pc, InQueue)
      /\ active = Number(pc, Working) + abandoned
      /\ \A places : Number(pc, places) \in Nat
  BY <1>1, InNumbers
<1>3. /\ pc' \in [Request -> Places] /\ WaitersQueue'
      /\ \A places : Number(pc', places)
            = Number(pc, places) + In(place, places) - In(pc[r], places)
  BY MoveKeeps
<1>4. \A places : In(place, places) \in {0, 1} /\ In(pc[r], places) \in {0, 1}
  BY DEF In
<1>5. TypeOK'
  BY <1>2, <1>3 DEF TypeOK
<1>6. PermitsBalance'
  <2>1. permits \in Int /\ abandoned \in Int /\ returning \in Int
    BY <1>2
  <2>2. permits' \in Int /\ abandoned' \in Int /\ returning' \in Int
    OBVIOUS
  <2>3. Number(pc, WithPermit) \in Int /\ Number(pc', WithPermit) \in Int
    BY NumberType
  <2>4. In(place, WithPermit) \in Int /\ In(pc[r], WithPermit) \in Int
    BY DEF In
  <2>5. Number(pc', WithPermit)
          = Number(pc, WithPermit) + In(place, WithPermit) - In(pc[r], WithPermit)
    BY <1>3
  <2>6. permits' + Number(pc', WithPermit) + abandoned' + returning'
          = permits + Number(pc, WithPermit) + abandoned + returning
    BY <2>1, <2>2, <2>3, <2>4, <2>5, PermitSums
  <2> QED BY <1>2, <2>6, NumberAt DEF PermitsBalance
<1>7. CountersTell'
  <2>1. queued' = Number(pc', InQueue)
    BY <1>2, <1>3
  <2>2. abandoned \in Int /\ active \in Int /\ abandoned' \in Int /\ active' \in Int
    BY <1>2
  <2>3. Number(pc, Working) \in Int /\ Number(pc', Working) \in Int
    BY NumberType
  <2>4. In(place, Working) \in Int /\ In(pc[r], Working) \in Int
    BY DEF In
  <2>5. Number(pc', Working) = Number(pc, Working) + In(place, Working) - In(pc[r], Working)
    BY <1>3
  <2>6. active = Number(pc, Working) + abandoned
    BY <1>2
  <2>7. active' = Number(pc', Working) + abandoned'
    BY <2>2, <2>3, <2>4, <2>5, <2>6, JobSums
  <2> QED BY <2>1, <2>7, NumberAt DEF CountersTell, Working
<1>8. NoIdlePermit'
  BY <1>1 DEF NoIdlePermit
<1> QED BY <1>3, <1>5, <1>6, <1>7, <1>8 DEF IInv

LEMMA Typed ==
    ASSUME IInv
    PROVE  /\ TypeOK /\ PermitsBalance /\ WaitersQueue /\ CountersTell /\ NoIdlePermit
           /\ permits \in Nat /\ abandoned \in Nat /\ returning \in Nat
           /\ queued \in Int /\ active \in Int /\ queued <= QueueMax
           /\ waiters \in Seq(Request) /\ pc \in [Request -> Places]
           /\ QueueMax \in Nat
BY GateAssumption DEF IInv, TypeOK

LEMMA TryAcquireKeeps == ASSUME IInv, NEW r \in Request, TryAcquire(r) PROVE IInv'
<1>1. /\ pc[r] = "out" /\ waiters' = waiters /\ queued' = queued
      /\ active' = active /\ abandoned' = abandoned /\ returning' = returning
  BY DEF TryAcquire
<1>2. CASE permits > 0 /\ permits' = permits - 1 /\ Goto(r, "granted")
  <2>1. /\ In(pc[r], WithPermit) = 0 /\ In("granted", WithPermit) = 1
        /\ In(pc[r], InQueue) = 0 /\ In("granted", InQueue) = 0
        /\ In(pc[r], Working) = 0 /\ In("granted", Working) = 0
    BY <1>1, <1>2 DEF In, WithPermit, InQueue, Working
  <2>2. /\ permits' + abandoned' + returning' + In("granted", WithPermit)
              = permits + abandoned + returning + In(pc[r], WithPermit)
        /\ queued' = queued + In("granted", InQueue) - In(pc[r], InQueue)
        /\ active' - abandoned'
              = active - abandoned + In("granted", Working) - In(pc[r], Working)
    BY <1>1, <1>2, <2>1, Typed
  <2>3. /\ permits' \in Nat /\ abandoned' \in Nat /\ returning' \in Nat
        /\ queued' \in Int /\ active' \in Int
        /\ permits' > 0 => permits > 0
        /\ queued' <= QueueMax
    BY <1>1, <1>2, Typed
  <2> QED BY <1>1, <1>2, <2>2, <2>3, PlaceTypes, MoveStep
<1>3. CASE permits' = permits /\ Goto(r, "entering")
  <2>1. /\ In(pc[r], WithPermit) = 0 /\ In("entering", WithPermit) = 0
        /\ In(pc[r], InQueue) = 0 /\ In("entering", InQueue) = 0
        /\ In(pc[r], Working) = 0 /\ In("entering", Working) = 0
    BY <1>1, <1>3 DEF In, WithPermit, InQueue, Working
  <2>2. /\ permits' + abandoned' + returning' + In("entering", WithPermit)
              = permits + abandoned + returning + In(pc[r], WithPermit)
        /\ queued' = queued + In("entering", InQueue) - In(pc[r], InQueue)
        /\ active' - abandoned'
              = active - abandoned + In("entering", Working) - In(pc[r], Working)
    BY <1>1, <1>3, <2>1, Typed
  <2>3. /\ permits' \in Nat /\ abandoned' \in Nat /\ returning' \in Nat
        /\ queued' \in Int /\ active' \in Int
        /\ permits' > 0 => permits > 0
        /\ queued' <= QueueMax
    BY <1>1, <1>3, Typed
  <2> QED BY <1>1, <1>3, <2>2, <2>3, PlaceTypes, MoveStep
<1> QED BY <1>2, <1>3, <1>1 DEF TryAcquire, Take

LEMMA EnterKeeps == ASSUME IInv, NEW r \in Request, Enter(r) PROVE IInv'
<1>1. /\ pc[r] = "entering" /\ waiters' = waiters /\ permits' = permits
      /\ active' = active /\ abandoned' = abandoned /\ returning' = returning
  BY DEF Enter
<1>2. CASE queued < QueueMax /\ queued' = queued + 1 /\ Goto(r, "queued")
  <2>1. /\ In(pc[r], WithPermit) = 0 /\ In("queued", WithPermit) = 0
        /\ In(pc[r], InQueue) = 0 /\ In("queued", InQueue) = 1
        /\ In(pc[r], Working) = 0 /\ In("queued", Working) = 0
    BY <1>1, <1>2 DEF In, WithPermit, InQueue, Working
  <2>2. /\ permits' + abandoned' + returning' + In("queued", WithPermit)
              = permits + abandoned + returning + In(pc[r], WithPermit)
        /\ queued' = queued + In("queued", InQueue) - In(pc[r], InQueue)
        /\ active' - abandoned'
              = active - abandoned + In("queued", Working) - In(pc[r], Working)
    BY <1>1, <1>2, <2>1, Typed
  <2>3. /\ permits' \in Nat /\ abandoned' \in Nat /\ returning' \in Nat
        /\ queued' \in Int /\ active' \in Int
        /\ permits' > 0 => permits > 0
        /\ queued' <= QueueMax
    BY <1>1, <1>2, Typed
  <2> QED BY <1>1, <1>2, <2>2, <2>3, PlaceTypes, MoveStep
<1>3. CASE queued' = queued /\ Goto(r, "out")
  <2>1. /\ In(pc[r], WithPermit) = 0 /\ In("out", WithPermit) = 0
        /\ In(pc[r], InQueue) = 0 /\ In("out", InQueue) = 0
        /\ In(pc[r], Working) = 0 /\ In("out", Working) = 0
    BY <1>1, <1>3 DEF In, WithPermit, InQueue, Working
  <2>2. /\ permits' + abandoned' + returning' + In("out", WithPermit)
              = permits + abandoned + returning + In(pc[r], WithPermit)
        /\ queued' = queued + In("out", InQueue) - In(pc[r], InQueue)
        /\ active' - abandoned'
              = active - abandoned + In("out", Working) - In(pc[r], Working)
    BY <1>1, <1>3, <2>1, Typed
  <2>3. /\ permits' \in Nat /\ abandoned' \in Nat /\ returning' \in Nat
        /\ queued' \in Int /\ active' \in Int
        /\ permits' > 0 => permits > 0
        /\ queued' <= QueueMax
    BY <1>1, <1>3, Typed
  <2> QED BY <1>1, <1>3, <2>2, <2>3, PlaceTypes, MoveStep
<1> QED BY <1>2, <1>3, <1>1 DEF Enter

LEMMA ServedKeeps == ASSUME IInv, NEW r \in Request, Served(r) PROVE IInv'
<1>0. /\ pc[r] = "served" /\ waiters' = waiters /\ permits' = permits
      /\ queued' = queued /\ active' = active /\ abandoned' = abandoned
      /\ returning' = returning /\ Goto(r, "leaving")
  BY DEF Served
<1>1. /\ In(pc[r], WithPermit) = 1 /\ In("leaving", WithPermit) = 1
      /\ In(pc[r], InQueue) = 1 /\ In("leaving", InQueue) = 1
      /\ In(pc[r], Working) = 0 /\ In("leaving", Working) = 0
  BY <1>0 DEF In, WithPermit, InQueue, Working
<1>2. /\ permits' + abandoned' + returning' + In("leaving", WithPermit)
            = permits + abandoned + returning + In(pc[r], WithPermit)
      /\ queued' = queued + In("leaving", InQueue) - In(pc[r], InQueue)
      /\ active' - abandoned'
            = active - abandoned + In("leaving", Working) - In(pc[r], Working)
  BY <1>0, <1>1, Typed
<1>3. /\ permits' \in Nat /\ abandoned' \in Nat /\ returning' \in Nat
      /\ queued' \in Int /\ active' \in Int
      /\ permits' > 0 => permits > 0
      /\ queued' <= QueueMax
  BY <1>0, Typed
<1> QED BY <1>0, <1>2, <1>3, PlaceTypes, MoveStep

LEMMA LeaveQueueKeeps == ASSUME IInv, NEW r \in Request, LeaveQueue(r) PROVE IInv'
<1>1. /\ waiters' = waiters /\ permits' = permits /\ queued' = queued - 1
      /\ active' = active /\ abandoned' = abandoned /\ returning' = returning
  BY DEF LeaveQueue
<1>2. CASE pc[r] = "leaving" /\ Goto(r, "granted")
  <2>1. /\ In(pc[r], WithPermit) = 1 /\ In("granted", WithPermit) = 1
        /\ In(pc[r], InQueue) = 1 /\ In("granted", InQueue) = 0
        /\ In(pc[r], Working) = 0 /\ In("granted", Working) = 0
    BY <1>1, <1>2 DEF In, WithPermit, InQueue, Working
  <2>2. /\ permits' + abandoned' + returning' + In("granted", WithPermit)
              = permits + abandoned + returning + In(pc[r], WithPermit)
        /\ queued' = queued + In("granted", InQueue) - In(pc[r], InQueue)
        /\ active' - abandoned'
              = active - abandoned + In("granted", Working) - In(pc[r], Working)
    BY <1>1, <1>2, <2>1, Typed
  <2>3. /\ permits' \in Nat /\ abandoned' \in Nat /\ returning' \in Nat
        /\ queued' \in Int /\ active' \in Int
        /\ permits' > 0 => permits > 0
        /\ queued' <= QueueMax
    BY <1>1, <1>2, Typed
  <2> QED BY <1>1, <1>2, <2>2, <2>3, PlaceTypes, MoveStep
<1>3. CASE pc[r] = "quitting" /\ Goto(r, "out")
  <2>1. /\ In(pc[r], WithPermit) = 0 /\ In("out", WithPermit) = 0
        /\ In(pc[r], InQueue) = 1 /\ In("out", InQueue) = 0
        /\ In(pc[r], Working) = 0 /\ In("out", Working) = 0
    BY <1>1, <1>3 DEF In, WithPermit, InQueue, Working
  <2>2. /\ permits' + abandoned' + returning' + In("out", WithPermit)
              = permits + abandoned + returning + In(pc[r], WithPermit)
        /\ queued' = queued + In("out", InQueue) - In(pc[r], InQueue)
        /\ active' - abandoned'
              = active - abandoned + In("out", Working) - In(pc[r], Working)
    BY <1>1, <1>3, <2>1, Typed
  <2>3. /\ permits' \in Nat /\ abandoned' \in Nat /\ returning' \in Nat
        /\ queued' \in Int /\ active' \in Int
        /\ permits' > 0 => permits > 0
        /\ queued' <= QueueMax
    BY <1>1, <1>3, Typed
  <2> QED BY <1>1, <1>3, <2>2, <2>3, PlaceTypes, MoveStep
<1> QED BY <1>2, <1>3 DEF LeaveQueue

LEMMA CountKeeps == ASSUME IInv, NEW r \in Request, Count(r) PROVE IInv'
<1>0. /\ pc[r] = "granted" /\ waiters' = waiters /\ permits' = permits
      /\ queued' = queued /\ active' = active + 1 /\ abandoned' = abandoned
      /\ returning' = returning /\ Goto(r, "holding")
  BY DEF Count
<1>1. /\ In(pc[r], WithPermit) = 1 /\ In("holding", WithPermit) = 1
      /\ In(pc[r], InQueue) = 0 /\ In("holding", InQueue) = 0
      /\ In(pc[r], Working) = 0 /\ In("holding", Working) = 1
  BY <1>0 DEF In, WithPermit, InQueue, Working
<1>2. /\ permits' + abandoned' + returning' + In("holding", WithPermit)
            = permits + abandoned + returning + In(pc[r], WithPermit)
      /\ queued' = queued + In("holding", InQueue) - In(pc[r], InQueue)
      /\ active' - abandoned'
            = active - abandoned + In("holding", Working) - In(pc[r], Working)
  BY <1>0, <1>1, Typed
<1>3. /\ permits' \in Nat /\ abandoned' \in Nat /\ returning' \in Nat
      /\ queued' \in Int /\ active' \in Int
      /\ permits' > 0 => permits > 0
      /\ queued' <= QueueMax
  BY <1>0, Typed
<1> QED BY <1>0, <1>2, <1>3, PlaceTypes, MoveStep

LEMMA SpawnKeeps == ASSUME IInv, NEW r \in Request, Spawn(r) PROVE IInv'
<1>0. /\ pc[r] = "holding" /\ waiters' = waiters /\ permits' = permits
      /\ queued' = queued /\ active' = active /\ abandoned' = abandoned
      /\ returning' = returning /\ Goto(r, "running")
  BY DEF Spawn
<1>1. /\ In(pc[r], WithPermit) = 1 /\ In("running", WithPermit) = 1
      /\ In(pc[r], InQueue) = 0 /\ In("running", InQueue) = 0
      /\ In(pc[r], Working) = 1 /\ In("running", Working) = 1
  BY <1>0 DEF In, WithPermit, InQueue, Working
<1>2. /\ permits' + abandoned' + returning' + In("running", WithPermit)
            = permits + abandoned + returning + In(pc[r], WithPermit)
      /\ queued' = queued + In("running", InQueue) - In(pc[r], InQueue)
      /\ active' - abandoned'
            = active - abandoned + In("running", Working) - In(pc[r], Working)
  BY <1>0, <1>1, Typed
<1>3. /\ permits' \in Nat /\ abandoned' \in Nat /\ returning' \in Nat
      /\ queued' \in Int /\ active' \in Int
      /\ permits' > 0 => permits > 0
      /\ queued' <= QueueMax
  BY <1>0, Typed
<1> QED BY <1>0, <1>2, <1>3, PlaceTypes, MoveStep

LEMMA UncountKeeps == ASSUME IInv, NEW r \in Request, Uncount(r) PROVE IInv'
<1>1. /\ waiters' = waiters /\ permits' = permits /\ queued' = queued
      /\ active' = active - 1 /\ abandoned' = abandoned /\ returning' = returning
  BY DEF Uncount
<1>2. CASE pc[r] = "holding" /\ Goto(r, "releasing")
  <2>1. /\ In(pc[r], WithPermit) = 1 /\ In("releasing", WithPermit) = 1
        /\ In(pc[r], InQueue) = 0 /\ In("releasing", InQueue) = 0
        /\ In(pc[r], Working) = 1 /\ In("releasing", Working) = 0
    BY <1>1, <1>2 DEF In, WithPermit, InQueue, Working
  <2>2. /\ permits' + abandoned' + returning' + In("releasing", WithPermit)
              = permits + abandoned + returning + In(pc[r], WithPermit)
        /\ queued' = queued + In("releasing", InQueue) - In(pc[r], InQueue)
        /\ active' - abandoned'
              = active - abandoned + In("releasing", Working) - In(pc[r], Working)
    BY <1>1, <1>2, <2>1, Typed
  <2>3. /\ permits' \in Nat /\ abandoned' \in Nat /\ returning' \in Nat
        /\ queued' \in Int /\ active' \in Int
        /\ permits' > 0 => permits > 0
        /\ queued' <= QueueMax
    BY <1>1, <1>2, Typed
  <2> QED BY <1>1, <1>2, <2>2, <2>3, PlaceTypes, MoveStep
<1>3. CASE pc[r] = "running" /\ Goto(r, "releasing")
  <2>1. /\ In(pc[r], WithPermit) = 1 /\ In("releasing", WithPermit) = 1
        /\ In(pc[r], InQueue) = 0 /\ In("releasing", InQueue) = 0
        /\ In(pc[r], Working) = 1 /\ In("releasing", Working) = 0
    BY <1>1, <1>3 DEF In, WithPermit, InQueue, Working
  <2>2. /\ permits' + abandoned' + returning' + In("releasing", WithPermit)
              = permits + abandoned + returning + In(pc[r], WithPermit)
        /\ queued' = queued + In("releasing", InQueue) - In(pc[r], InQueue)
        /\ active' - abandoned'
              = active - abandoned + In("releasing", Working) - In(pc[r], Working)
    BY <1>1, <1>3, <2>1, Typed
  <2>3. /\ permits' \in Nat /\ abandoned' \in Nat /\ returning' \in Nat
        /\ queued' \in Int /\ active' \in Int
        /\ permits' > 0 => permits > 0
        /\ queued' <= QueueMax
    BY <1>1, <1>3, Typed
  <2> QED BY <1>1, <1>3, <2>2, <2>3, PlaceTypes, MoveStep
<1> QED BY <1>2, <1>3 DEF Uncount

LEMMA CancelRunningKeeps == ASSUME IInv, NEW r \in Request, CancelRunning(r) PROVE IInv'
<1>0. /\ pc[r] = "running" /\ waiters' = waiters /\ permits' = permits
      /\ queued' = queued /\ active' = active /\ abandoned' = abandoned + 1
      /\ returning' = returning /\ Goto(r, "out")
  BY DEF CancelRunning
<1>1. /\ In(pc[r], WithPermit) = 1 /\ In("out", WithPermit) = 0
      /\ In(pc[r], InQueue) = 0 /\ In("out", InQueue) = 0
      /\ In(pc[r], Working) = 1 /\ In("out", Working) = 0
  BY <1>0 DEF In, WithPermit, InQueue, Working
<1>2. /\ permits' + abandoned' + returning' + In("out", WithPermit)
            = permits + abandoned + returning + In(pc[r], WithPermit)
      /\ queued' = queued + In("out", InQueue) - In(pc[r], InQueue)
      /\ active' - abandoned'
            = active - abandoned + In("out", Working) - In(pc[r], Working)
  <2>1. queued' = queued + In("out", InQueue) - In(pc[r], InQueue)
    BY <1>0, <1>1, Typed
  <2>2. active - (abandoned + 1) = active - abandoned + 0 - 1
    BY Typed
  <2>3. permits + (abandoned + 1) + returning + 0 = permits + abandoned + returning + 1
    BY Typed
  <2> QED BY <1>0, <1>1, <2>1, <2>2, <2>3
<1>3. /\ permits' \in Nat /\ abandoned' \in Nat /\ returning' \in Nat
      /\ queued' \in Int /\ active' \in Int
      /\ permits' > 0 => permits > 0
      /\ queued' <= QueueMax
  BY <1>0, Typed
<1> QED BY <1>0, <1>2, <1>3, PlaceTypes, MoveStep

-----------------------------------------------------------------------------
(* The steps that move the semaphore's queue.                              *)

LEMMA FromNumbers ==
    ASSUME permits' \in Nat, abandoned' \in Nat, returning' \in Nat,
           queued' \in Int, active' \in Int,
           waiters' \in Seq(Request), pc' \in [Request -> Places],
           WaitersQueue', NoIdlePermit',
           permits' + Number(pc', WithPermit) + abandoned' + returning' = Capacity,
           queued' = Number(pc', InQueue),
           active' = Number(pc', Working) + abandoned',
           queued' <= QueueMax
    PROVE  IInv'
BY NumberAt DEF IInv, TypeOK, PermitsBalance, CountersTell, Working

LEMMA WaitKeeps == ASSUME IInv, NEW r \in Request, Wait(r) PROVE IInv'
<1>1. /\ pc[r] = "queued" /\ queued' = queued /\ active' = active
      /\ abandoned' = abandoned /\ returning' = returning
  BY DEF Wait
<1>2. CASE permits > 0 /\ permits' = permits - 1 /\ Goto(r, "served") /\ waiters' = waiters
  <2>1. /\ In(pc[r], WithPermit) = 0 /\ In("served", WithPermit) = 1
        /\ In(pc[r], InQueue) = 1 /\ In("served", InQueue) = 1
        /\ In(pc[r], Working) = 0 /\ In("served", Working) = 0
    BY <1>1 DEF In, WithPermit, InQueue, Working
  <2>2. /\ permits' + abandoned' + returning' + In("served", WithPermit)
              = permits + abandoned + returning + In(pc[r], WithPermit)
        /\ queued' = queued + In("served", InQueue) - In(pc[r], InQueue)
        /\ active' - abandoned'
              = active - abandoned + In("served", Working) - In(pc[r], Working)
    BY <1>1, <1>2, <2>1, Typed
  <2>3. /\ permits' \in Nat /\ abandoned' \in Nat /\ returning' \in Nat
        /\ queued' \in Int /\ active' \in Int
        /\ permits' > 0 => permits > 0
        /\ queued' <= QueueMax
    BY <1>1, <1>2, Typed
  <2> QED BY <1>1, <1>2, <2>2, <2>3, PlaceTypes, MoveStep
<1>3. CASE permits = 0 /\ permits' = permits /\ Goto(r, "waiting") /\ waiters' = Append(waiters, r)
  <2>1. pc' = [pc EXCEPT ![r] = "waiting"] /\ "waiting" \in Places
    BY <1>3, PlaceTypes DEF Goto
  <2>2. r \notin ToSet(waiters)
    BY <1>1, Typed DEF WaitersQueue, At
  <2>3. /\ waiters' \in Seq(Request) /\ IsInjective(waiters')
        /\ ToSet(waiters') = ToSet(waiters) \cup {r}
    <3>1. waiters \in Seq(Request) /\ IsInjective(waiters)
      BY Typed DEF WaitersQueue
    <3> QED BY <1>3, <2>2, <3>1, AppendToQueue
  <2>4. At({"waiting"})' = At({"waiting"}) \cup {r}
    BY <2>1, Typed DEF At
  <2>5. WaitersQueue'
    BY <2>3, <2>4, Typed DEF WaitersQueue
  <2>6. NoIdlePermit'
    BY <1>3 DEF NoIdlePermit
  <2>7. \A places : Number(pc', places)
                      = Number(pc, places) + In("waiting", places) - In("queued", places)
    <3>1. pc \in [Request -> Places]
      BY Typed
    <3>2. \A places : Number([pc EXCEPT ![r] = "waiting"], places)
                        = Number(pc, places) + In("waiting", places) - In(pc[r], places)
      BY <2>1, <3>1, Move
    <3> QED BY <1>1, <2>1, <3>2
  <2>8. /\ Number(pc', WithPermit) = Number(pc, WithPermit)
        /\ Number(pc', InQueue) = Number(pc, InQueue)
        /\ Number(pc', Working) = Number(pc, Working)
    BY <2>7, NumberType DEF In, WithPermit, InQueue, Working
  <2>9. /\ permits + Number(pc, WithPermit) + abandoned + returning = Capacity
        /\ queued = Number(pc, InQueue) /\ active = Number(pc, Working) + abandoned
    BY Typed, InNumbers
  <2>10. pc' \in [Request -> Places]
    BY <2>1, Typed
  <2> QED BY <1>1, <1>3, <2>3, <2>5, <2>6, <2>8, <2>9, <2>10, Typed, FromNumbers
<1> QED BY <1>1, <1>2, <1>3 DEF Wait, Take

LEMMA GiveUpKeeps == ASSUME IInv, NEW r \in Request, GiveUp(r) PROVE IInv'
<1>1. /\ pc[r] = "waiting" /\ permits' = permits /\ queued' = queued /\ active' = active
      /\ abandoned' = abandoned /\ returning' = returning
      /\ pc' = [pc EXCEPT ![r] = "quitting"] /\ "quitting" \in Places
  BY PlaceTypes DEF GiveUp, Goto
<1>2. PICK i \in DOMAIN waiters : waiters[i] = r /\ waiters' = RemoveAt(waiters, i)
  BY DEF GiveUp
<1>3. /\ waiters' \in Seq(Request) /\ IsInjective(waiters')
      /\ ToSet(waiters') = ToSet(waiters) \ {r}
  <2>1. waiters \in Seq(Request) /\ IsInjective(waiters)
    BY Typed DEF WaitersQueue
  <2> QED BY <1>2, <2>1, RemoveFromQueue
<1>4. At({"waiting"})' = At({"waiting"}) \ {r}
  BY <1>1, Typed DEF At
<1>5. WaitersQueue'
  BY <1>3, <1>4, Typed DEF WaitersQueue
<1>6. NoIdlePermit'
  <2>1. waiters # <<>>
    BY <1>2
  <2> QED BY <1>1, <2>1, Typed DEF NoIdlePermit
<1>7. \A places : Number(pc', places)
                    = Number(pc, places) + In("quitting", places) - In("waiting", places)
  <2>1. pc \in [Request -> Places]
    BY Typed
  <2>2. \A places : Number([pc EXCEPT ![r] = "quitting"], places)
                      = Number(pc, places) + In("quitting", places) - In(pc[r], places)
    BY <1>1, <2>1, Move
  <2> QED BY <1>1, <2>2
<1>8. /\ Number(pc', WithPermit) = Number(pc, WithPermit)
      /\ Number(pc', InQueue) = Number(pc, InQueue)
      /\ Number(pc', Working) = Number(pc, Working)
  BY <1>7, NumberType DEF In, WithPermit, InQueue, Working
<1>9. /\ permits + Number(pc, WithPermit) + abandoned + returning = Capacity
      /\ queued = Number(pc, InQueue) /\ active = Number(pc, Working) + abandoned
  BY Typed, InNumbers
<1>10. pc' \in [Request -> Places]
  BY <1>1, Typed
<1> QED BY <1>1, <1>3, <1>5, <1>6, <1>8, <1>9, <1>10, Typed, FromNumbers

LEMMA ReturnStep ==
    ASSUME IInv, NEW r \in Request, NEW place \in {"out", "quitting"}, Return(r, place),
           pc[r] \in {"served", "releasing"}, In(place, InQueue) = In(pc[r], InQueue),
           queued' = queued, active' = active, abandoned' = abandoned, returning' = returning
    PROVE  IInv'
<1>1. /\ permits' \in Nat /\ waiters' \in Seq(Request) /\ pc' \in [Request -> Places]
      /\ WaitersQueue' /\ NoIdlePermit'
      /\ permits' + Number(pc', WithPermit) = permits + Number(pc, WithPermit)
      /\ Number(pc', InQueue) = Number(pc, InQueue) + In(place, InQueue) - In(pc[r], InQueue)
      /\ Number(pc', Working) = Number(pc, Working)
  BY ReturnKeeps
<1>2. /\ permits + Number(pc, WithPermit) + abandoned + returning = Capacity
      /\ queued = Number(pc, InQueue) /\ active = Number(pc, Working) + abandoned
  BY Typed, InNumbers
<1>3. Number(pc', InQueue) = Number(pc, InQueue)
  <2>1. Number(pc, InQueue) \in Int /\ In(place, InQueue) \in Int
    BY NumberType DEF In
  <2> QED BY <1>1, <2>1
<1>4. permits' + Number(pc', WithPermit) + abandoned' + returning' = Capacity
  BY <1>1, <1>2
<1> QED BY <1>1, <1>2, <1>3, <1>4, Typed, FromNumbers

LEMMA CancelServedKeeps == ASSUME IInv, NEW r \in Request, CancelServed(r) PROVE IInv'
<1>1. In("quitting", InQueue) = In(pc[r], InQueue)
  BY DEF CancelServed, In, InQueue
<1> QED BY <1>1, ReturnStep DEF CancelServed

LEMMA ReleaseKeeps == ASSUME IInv, NEW r \in Request, Release(r) PROVE IInv'
<1>1. In("out", InQueue) = In(pc[r], InQueue)
  BY DEF Release, In, InQueue
<1> QED BY <1>1, ReturnStep DEF Release

LEMMA UncountAbandonedKeeps == ASSUME IInv, UncountAbandoned PROVE IInv'
<1>1. /\ permits' = permits /\ waiters' = waiters /\ queued' = queued /\ pc' = pc
      /\ abandoned > 0 /\ abandoned' = abandoned - 1 /\ active' = active - 1
      /\ returning' = returning + 1
  BY DEF UncountAbandoned
<1>2. /\ permits + Number(pc, WithPermit) + abandoned + returning = Capacity
      /\ queued = Number(pc, InQueue) /\ active = Number(pc, Working) + abandoned
      /\ Number(pc, WithPermit) \in Nat /\ Number(pc, Working) \in Nat
  BY Typed, InNumbers
<1>3. WaitersQueue' /\ NoIdlePermit'
  BY <1>1, Typed DEF WaitersQueue, NoIdlePermit, At
<1>4. permits + Number(pc, WithPermit) + (abandoned - 1) + (returning + 1) = Capacity
  BY <1>2, Typed
<1>5. active - 1 = Number(pc, Working) + (abandoned - 1)
  BY <1>2, Typed
<1>6. abandoned' \in Nat /\ returning' \in Nat /\ active' \in Int
  BY <1>1, Typed
<1> QED BY <1>1, <1>2, <1>3, <1>4, <1>5, <1>6, Typed, FromNumbers

LEMMA ReleaseAbandonedKeeps == ASSUME IInv, ReleaseAbandoned PROVE IInv'
<1>1. /\ queued' = queued /\ active' = active /\ abandoned' = abandoned
      /\ returning > 0 /\ returning' = returning - 1
  BY DEF ReleaseAbandoned
<1>2. /\ permits + Number(pc, WithPermit) + abandoned + returning = Capacity
      /\ queued = Number(pc, InQueue) /\ active = Number(pc, Working) + abandoned
      /\ \A places : Number(pc, places) \in Nat
  BY Typed, InNumbers
<1>3. CASE /\ waiters # <<>> /\ Goto(Head(waiters), "served")
           /\ waiters' = Tail(waiters) /\ permits' = permits
  <2>1. /\ pc' \in [Request -> Places] /\ waiters' \in Seq(Request) /\ WaitersQueue'
        /\ \A places : Number(pc', places)
              = Number(pc, places) + In("served", places) - In("waiting", places)
    BY <1>3, Typed, HandOver DEF Goto
  <2>2. Number(pc', WithPermit) = Number(pc, WithPermit) + 1
    BY <1>2, <2>1 DEF In, WithPermit
  <2>3. Number(pc', InQueue) = Number(pc, InQueue) /\ Number(pc', Working) = Number(pc, Working)
    BY <1>2, <2>1 DEF In, InQueue, Working
  <2>4. NoIdlePermit'
    BY <1>3, Typed DEF NoIdlePermit
  <2>5. permits' + Number(pc', WithPermit) + abandoned' + returning' = Capacity
    <3>1. permits + (Number(pc, WithPermit) + 1) + abandoned + (returning - 1) = Capacity
      BY <1>2, Typed
    <3> QED BY <1>1, <1>3, <2>2, <3>1
  <2> QED BY <1>1, <1>2, <1>3, <2>1, <2>3, <2>4, <2>5, Typed, FromNumbers
<1>4. CASE waiters = <<>> /\ permits' = permits + 1 /\ pc' = pc /\ waiters' = waiters
  <2>1. WaitersQueue' /\ NoIdlePermit'
    BY <1>4, Typed DEF WaitersQueue, NoIdlePermit, At
  <2>2. permits' + Number(pc', WithPermit) + abandoned' + returning' = Capacity
    <3>1. (permits + 1) + Number(pc, WithPermit) + abandoned + (returning - 1) = Capacity
      BY <1>2, Typed
    <3> QED BY <1>1, <1>4, <3>1
  <2>3. permits' \in Nat /\ returning' \in Nat
    BY <1>1, <1>4, Typed
  <2> QED BY <1>1, <1>2, <1>4, <2>1, <2>2, <2>3, Typed, FromNumbers
<1> QED BY <1>3, <1>4 DEF ReleaseAbandoned

-----------------------------------------------------------------------------
LEMMA NextIInv == IInv /\ [Next]_vars => IInv'
<1> SUFFICES ASSUME IInv, [Next]_vars PROVE IInv'
  OBVIOUS
<1>1. CASE UncountAbandoned
  BY <1>1, UncountAbandonedKeeps
<1>2. CASE ReleaseAbandoned
  BY <1>2, ReleaseAbandonedKeeps
<1>3. ASSUME NEW r \in Request,
             \/ TryAcquire(r) \/ Progress(r) \/ GiveUp(r) \/ Spawn(r)
             \/ CancelServed(r) \/ CancelRunning(r)
      PROVE  IInv'
  BY <1>3, TryAcquireKeeps, EnterKeeps, WaitKeeps, ServedKeeps, LeaveQueueKeeps, CountKeeps,
     UncountKeeps, ReleaseKeeps, GiveUpKeeps, SpawnKeeps, CancelServedKeeps, CancelRunningKeeps
  DEF Progress
<1>4. CASE UNCHANGED vars
  BY <1>4, Typed
  DEF vars, IInv, TypeOK, PermitsBalance, WaitersQueue, CountersTell, NoIdlePermit, At
<1> QED BY <1>1, <1>2, <1>3, <1>4 DEF Next

(* The permits of a class are always all accounted for, who waits is in    *)
(* the semaphore's queue once, and the counters are those of the requests. *)
THEOREM Invariance == Spec => []IInv
<1> QED BY InitIInv, NextIInv, PTL DEF Spec

(* No permit of a class idles while a request waits in its semaphore.      *)
THEOREM PermitsDoNotIdle == Spec => []NoIdlePermit
<1>1. IInv => NoIdlePermit
  BY DEF IInv
<1> QED BY <1>1, Invariance, PTL

LEMMA WorkersHavePermits == IInv => WorkBounded /\ active >= 0 /\ active <= Capacity /\ queued >= 0
<1> SUFFICES ASSUME IInv PROVE WorkBounded /\ active >= 0 /\ active <= Capacity /\ queued >= 0
  OBVIOUS
<1>1. /\ permits + Number(pc, WithPermit) + abandoned + returning = Capacity
      /\ queued = Number(pc, InQueue) /\ active = Number(pc, Working) + abandoned
      /\ Number(pc, WithPermit) \in Nat /\ Number(pc, Working) \in Nat /\ Number(pc, InQueue) \in Nat
  BY Typed, InNumbers
<1>2. Number(pc, Working) <= Number(pc, WithPermit)
  <2>1. IsFiniteSet(At(WithPermit)) /\ At(Working) \subseteq At(WithPermit)
    <3>1. IsFiniteSet(At(WithPermit))
      BY GateAssumption, FS_Subset DEF At
    <3> QED BY <3>1 DEF At, Working, WithPermit
  <2>2. Cardinality(At(Working)) <= Cardinality(At(WithPermit))
    BY <2>1, FS_Subset
  <2> QED BY <2>2, NumberAt
<1>3. Number(pc, Working) + abandoned <= Capacity
  BY <1>1, <1>2, Typed, GateAssumption
<1>4. Cardinality(At({"holding", "running"})) = Number(pc, Working)
  BY NumberAt DEF Working
<1> QED BY <1>1, <1>3, <1>4, Typed, GateAssumption DEF WorkBounded

(* Jobs that run, with or without a request that waits for them, are never *)
(* more than the permits of the class.                                     *)
THEOREM WorkIsBounded == Spec => []WorkBounded
<1>1. IInv => WorkBounded
  BY WorkersHavePermits
<1> QED BY <1>1, Invariance, PTL

(* A snapshot never reads a number the class cannot have.                  *)
THEOREM SnapshotsAreSane == Spec => []SnapshotSane
<1>1. ASSUME IInv PROVE SnapshotSane
  BY <1>1, WorkersHavePermits, Typed, GateAssumption DEF SnapshotSane
<1>2. IInv => SnapshotSane
  BY <1>1
<1> QED BY <1>2, Invariance, PTL

(* The semaphore and the counters beside it tell the truth between steps.  *)
THEOREM GateAlwaysTells == Spec => []GateTells
<1>1. NoIdlePermit /\ SnapshotSane => GateTells
  BY DEF GateTells
<1> QED BY <1>1, PermitsDoNotIdle, SnapshotsAreSane, PTL

=============================================================================
