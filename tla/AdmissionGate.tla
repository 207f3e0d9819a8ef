----------------------------- MODULE AdmissionGate -----------------------------
(***************************************************************************)
(* One class's gate of src/src/admission.rs: `Gate::acquire`, `Queued`,    *)
(* `Permit` and `Admission::run_cpu`.                                      *)
(*                                                                         *)
(* A request takes a permit if one is free, else a place in a bounded      *)
(* queue, where it waits a short while for tokio's semaphore to hand it    *)
(* one.  The counters a snapshot shows are separate atomics, so every      *)
(* change of one is a step of its own.  A job on the blocking pool owns    *)
(* the permit: it goes on, and keeps the permit, when its request goes.    *)
(***************************************************************************)
EXTENDS FiniteSets, Integers, SequencesExt

CONSTANTS Request,
          Capacity,  \* active jobs of the class
          QueueMax   \* places in its queue

ASSUME GateAssumption == /\ IsFiniteSet(Request)
                         /\ Capacity \in Nat \ {0}
                         /\ QueueMax \in Nat

VARIABLES
    permits,    \* what the semaphore has left
    waiters,    \* who waits in the semaphore, first come first served
    queued,     \* Gate::queued
    active,     \* Gate::active
    pc,         \* where each request is
    abandoned,  \* jobs that run without their request
    returning   \* permits of such jobs, uncounted but not yet released

vars == <<permits, waiters, queued, active, pc, abandoned, returning>>

(* A request out of the gate; one that found no permit and is to enter the *)
(* queue; one in the queue that is about to wait, waits, has been handed a *)
(* permit, leaves with it or leaves without; one with a permit, not yet    *)
(* counted; one that holds it, has a job run, or releases it.              *)
InQueue == {"queued", "waiting", "served", "leaving", "quitting"}
Places  == {"out", "entering", "granted", "holding", "running", "releasing"} \cup InQueue

At(places) == {r \in Request : pc[r] \in places}

TypeOK ==
    /\ permits \in Nat
    /\ waiters \in Seq(Request)
    /\ queued \in Int
    /\ active \in Int
    /\ pc \in [Request -> Places]
    /\ abandoned \in Nat
    /\ returning \in Nat

Init ==
    /\ permits = Capacity
    /\ waiters = <<>>
    /\ queued = 0
    /\ active = 0
    /\ pc = [r \in Request |-> "out"]
    /\ abandoned = 0
    /\ returning = 0

Goto(r, place) == pc' = [pc EXCEPT ![r] = place]

-----------------------------------------------------------------------------
(* The semaphore.                                                          *)

Take == permits > 0 /\ permits' = permits - 1

(* A bug: the permit is put back, and nobody who waits is told. *)
ReturnSilently(r, place) ==
    /\ Goto(r, place)
    /\ permits' = permits + 1
    /\ UNCHANGED waiters

(* A permit comes back while r moves to place: whoever waits longest is    *)
(* handed it.                                                              *)
Return(r, place) ==
    \/ /\ waiters # <<>>
       /\ pc' = [pc EXCEPT ![r] = place, ![Head(waiters)] = "served"]
       /\ waiters' = Tail(waiters)
       /\ UNCHANGED permits
    \/ /\ waiters = <<>>
       /\ Goto(r, place)
       /\ permits' = permits + 1
       /\ UNCHANGED waiters

-----------------------------------------------------------------------------
(* Gate::acquire.                                                          *)

TryAcquire(r) ==
    /\ pc[r] = "out"
    /\ \/ Take /\ Goto(r, "granted")
       \/ permits = 0 /\ Goto(r, "entering") /\ UNCHANGED permits
    /\ UNCHANGED <<waiters, queued, active, abandoned, returning>>

(* Queued::enter, or Busy. *)
Enter(r) ==
    /\ pc[r] = "entering"
    /\ \/ queued < QueueMax /\ queued' = queued + 1 /\ Goto(r, "queued")
       \/ queued >= QueueMax /\ UNCHANGED queued /\ Goto(r, "out")
    /\ UNCHANGED <<permits, waiters, active, abandoned, returning>>

(* The first poll of `acquire_owned`: a permit may have come free. *)
Wait(r) ==
    /\ pc[r] = "queued"
    /\ \/ Take /\ Goto(r, "served") /\ UNCHANGED waiters
       \/ permits = 0 /\ Goto(r, "waiting") /\ waiters' = Append(waiters, r) /\ UNCHANGED permits
    /\ UNCHANGED <<queued, active, abandoned, returning>>

Served(r) ==
    /\ pc[r] = "served"
    /\ Goto(r, "leaving")
    /\ UNCHANGED <<permits, waiters, queued, active, abandoned, returning>>

(* The wait is over, or the request's connection closes. *)
GiveUp(r) ==
    /\ pc[r] = "waiting"
    /\ Goto(r, "quitting")
    /\ \E i \in DOMAIN waiters : waiters[i] = r /\ waiters' = RemoveAt(waiters, i)
    /\ UNCHANGED <<permits, queued, active, abandoned, returning>>

(* The connection closes as the permit is handed over: it goes back. *)
CancelServed(r) ==
    /\ pc[r] = "served"
    /\ Return(r, "quitting")
    /\ UNCHANGED <<queued, active, abandoned, returning>>

(* `drop(queued)` *)
LeaveQueue(r) ==
    /\ \/ pc[r] = "leaving" /\ Goto(r, "granted")
       \/ pc[r] = "quitting" /\ Goto(r, "out")
    /\ queued' = queued - 1
    /\ UNCHANGED <<permits, waiters, active, abandoned, returning>>

-----------------------------------------------------------------------------
(* Permit and the job.                                                     *)

(* Permit::new *)
Count(r) ==
    /\ pc[r] = "granted"
    /\ active' = active + 1
    /\ Goto(r, "holding")
    /\ UNCHANGED <<permits, waiters, queued, abandoned, returning>>

(* run_cpu moves the permit into the job. *)
Spawn(r) ==
    /\ pc[r] = "holding"
    /\ Goto(r, "running")
    /\ UNCHANGED <<permits, waiters, queued, active, abandoned, returning>>

(* A bug: the count is put right at the end of the job, which a panic skips. *)
ReleaseUncounted(r) ==
    /\ pc[r] \in {"holding", "running"}
    /\ Return(r, "out")
    /\ UNCHANGED <<queued, active, abandoned, returning>>

(* The job returns or panics, or the request drops a permit it holds:      *)
(* Permit::drop counts it off before its field releases the semaphore.     *)
Uncount(r) ==
    /\ pc[r] \in {"holding", "running"}
    /\ active' = active - 1
    /\ Goto(r, "releasing")
    /\ UNCHANGED <<permits, waiters, queued, abandoned, returning>>

Release(r) ==
    /\ pc[r] = "releasing"
    /\ Return(r, "out")
    /\ UNCHANGED <<queued, active, abandoned, returning>>

(* A bug: the request keeps the permit, and drops it when it goes. *)
CancelWithPermit(r) ==
    /\ pc[r] = "running"
    /\ abandoned' = abandoned + 1
    /\ active' = active - 1
    /\ Goto(r, "releasing")
    /\ UNCHANGED <<permits, waiters, queued, returning>>

(* The request goes while its job runs. *)
CancelRunning(r) ==
    /\ pc[r] = "running"
    /\ Goto(r, "out")
    /\ abandoned' = abandoned + 1
    /\ UNCHANGED <<permits, waiters, queued, active, returning>>

UncountAbandoned ==
    /\ abandoned > 0
    /\ abandoned' = abandoned - 1
    /\ active' = active - 1
    /\ returning' = returning + 1
    /\ UNCHANGED <<permits, waiters, queued, pc>>

ReleaseAbandoned ==
    /\ returning > 0
    /\ returning' = returning - 1
    /\ \/ /\ waiters # <<>>
          /\ Goto(Head(waiters), "served")
          /\ waiters' = Tail(waiters)
          /\ UNCHANGED permits
       \/ /\ waiters = <<>>
          /\ permits' = permits + 1
          /\ UNCHANGED <<pc, waiters>>
    /\ UNCHANGED <<queued, active, abandoned>>

-----------------------------------------------------------------------------
Progress(r) == \/ Enter(r) \/ Wait(r) \/ Served(r) \/ LeaveQueue(r)
               \/ Count(r) \/ Uncount(r) \/ Release(r)

Next == \/ UncountAbandoned \/ ReleaseAbandoned
        \/ \E r \in Request : \/ TryAcquire(r) \/ Progress(r) \/ GiveUp(r) \/ Spawn(r)
                              \/ CancelServed(r) \/ CancelRunning(r)

Spec == Init /\ [][Next]_vars

(* The runtime polls its tasks and every job ends.  That the wait is       *)
(* bounded is not assumed: the queue moves without it.                     *)
Fairness == /\ WF_vars(UncountAbandoned) /\ WF_vars(ReleaseAbandoned)
            /\ \A r \in Request : WF_vars(Progress(r))

FairSpec == Spec /\ Fairness

-----------------------------------------------------------------------------
(* The inductive invariant.                                                *)

WithPermit == {"served", "leaving", "granted", "holding", "running", "releasing"}

PermitsBalance ==
    permits + Cardinality(At(WithPermit)) + abandoned + returning = Capacity

WaitersQueue == /\ IsInjective(waiters)
                /\ ToSet(waiters) = At({"waiting"})

CountersTell == /\ queued = Cardinality(At(InQueue))
                /\ active = Cardinality(At({"holding", "running"})) + abandoned

(* Nobody waits in the semaphore while it has a permit to give. *)
NoIdlePermit == permits > 0 => waiters = <<>>

IInv == /\ TypeOK /\ PermitsBalance /\ WaitersQueue /\ CountersTell /\ NoIdlePermit
        /\ queued <= QueueMax

-----------------------------------------------------------------------------
(* Properties.                                                             *)

(* `cpu`: a permit kept in the closure "is what continues to bound the     *)
(* abandoned work until it really returns": jobs that run, with or without *)
(* their request, are never more than the class's.                         *)
WorkBounded == Cardinality(At({"holding", "running"})) + abandoned <= Capacity

(* The counters a snapshot reads, at any point between the atomics' steps, *)
(* never show more active than there are permits, nor a negative number.   *)
SnapshotSane == active \in 0..Capacity /\ queued \in 0..QueueMax

(* Both hold between any two steps of the semaphore and of the atomics      *)
(* beside it.                                                              *)
GateTells == NoIdlePermit /\ SnapshotSane

(* A request that comes to the gate leaves it, served or refused, even     *)
(* where no wait is cut short: permits always reach who waits for them.    *)
RequestsLeave == \A r \in Request : pc[r] # "out" ~> pc[r] = "out"
=============================================================================
