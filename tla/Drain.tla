---------------------------------- MODULE Drain ----------------------------------
(* How a process stops (main.rs; embed/src/lib.rs likewise): a signal ends   *)
(* accepting and starts the clock of the drain, which ends with the last      *)
(* connection or with the grace; a second signal ends it at once.  den-atlas  *)
(* then returns from main, which waits for the blocking threads; den-embed    *)
(* calls _exit.                                                              *)
EXTENDS Naturals

CONSTANTS
    Client,
    Grace, MaxClock     \* the drain's bound, and the clock's in the model

ASSUME GraceAssumption == Grace \in Nat

VARIABLES
    returns,   \* whether main returns (den-atlas) or calls _exit (den-embed)
    signals,   \* how many have arrived: "none", "first", "second"
    armed,     \* a signal finds somebody waiting for it
    clock,     \* the drain's
    waited,    \* history: since the first signal
    request,   \* per client: "none", "open", "done", or cut by the end
    thread,    \* the blocking threads of requests, which outlive them
    process,   \* "up", "returning", "gone"
    code

drainVars == <<returns, signals, armed, clock, waited, request, thread, process, code>>
watch     == <<signals, armed>>
time      == <<clock, waited>>

DrainTypeOK ==
    /\ returns \in BOOLEAN /\ armed \in BOOLEAN /\ signals \in {"none", "first", "second"}
    /\ clock \in Nat /\ waited \in Nat
    /\ request \in [Client -> {"none", "open", "done", "cut"}] /\ thread \in [Client -> BOOLEAN]
    /\ process \in {"up", "returning", "gone"} /\ code \in {0, 1}

DrainInit ==
    /\ returns \in BOOLEAN /\ signals = "none" /\ armed = TRUE /\ clock = 0 /\ waited = 0
    /\ request = [c \in Client |-> "none"] /\ thread = [c \in Client |-> FALSE]
    /\ process = "up" /\ code = 0

-----------------------------------------------------------------------------
(* The listener accepts until the signal; a thread may be started for it.   *)
Accept(c) ==
    /\ process = "up" /\ signals = "none" /\ request[c] = "none" /\ ~ thread[c]
    /\ request' = [request EXCEPT ![c] = "open"]
    /\ \E works \in BOOLEAN : thread' = [thread EXCEPT ![c] = works]
    /\ UNCHANGED <<returns, watch, time, process, code>>

(* The answer is out, or the client is gone and leaves its thread behind.   *)
Close(c) ==
    /\ process = "up" /\ request[c] = "open"
    /\ request' = [request EXCEPT ![c] = "done"]
    /\ UNCHANGED <<returns, watch, time, thread, process, code>>

Reuse(c) ==
    /\ process = "up" /\ signals = "none" /\ request[c] = "done"
    /\ request' = [request EXCEPT ![c] = "none"]
    /\ UNCHANGED <<returns, watch, time, thread, process, code>>

ThreadEnds(c) ==
    /\ process # "gone" /\ thread[c] /\ thread' = [thread EXCEPT ![c] = FALSE]
    /\ UNCHANGED <<returns, watch, time, request, process, code>>

(* Nothing waits for a moment between the first signal and the wait for the *)
(* second, and one that arrives then is lost.                              *)
First ==
    /\ process = "up" /\ armed /\ signals = "none"
    /\ signals' = "first" /\ armed' = FALSE
    /\ UNCHANGED <<returns, time, request, thread, process, code>>

Rearm ==
    /\ process = "up" /\ signals = "first" /\ ~ armed /\ armed' = TRUE
    /\ UNCHANGED <<returns, signals, time, request, thread, process, code>>

Cut == request' = [c \in Client |-> IF request[c] = "open" THEN "cut" ELSE request[c]]

Gone(exit) == process' = "gone" /\ code' = exit /\ thread' = [c \in Client |-> FALSE] /\ Cut

Second ==
    /\ process = "up" /\ armed /\ signals = "first"
    /\ signals' = "second" /\ armed' = FALSE
    /\ Gone(0) /\ UNCHANGED <<returns, time>>

(* serve_until() is over: leave main, whose tasks end at their next await,   *)
(* or exit.                                                                *)
LeaveMain ==
    \/ returns /\ process' = "returning" /\ Cut /\ UNCHANGED <<thread, code>>
    \/ ~ returns /\ Gone(0)

Drained ==
    /\ process = "up" /\ signals = "first"
    /\ \A c \in Client : request[c] # "open"
    /\ LeaveMain /\ UNCHANGED <<returns, watch, time>>

(* A bug: the grace is waited for before its requests are looked at.        *)
NoDeadline ==
    /\ process = "up" /\ signals = "first" /\ clock = Grace
    /\ \A c \in Client : request[c] # "open"
    /\ LeaveMain /\ UNCHANGED <<returns, watch, time>>

Deadline ==
    /\ process = "up" /\ signals = "first" /\ clock = Grace
    /\ LeaveMain /\ UNCHANGED <<returns, watch, time>>

(* A listener that fails ends either process at once.                      *)
ServeFails ==
    /\ process = "up" /\ Gone(1) /\ UNCHANGED <<returns, watch, time>>

(* The runtime is dropped once its blocking threads end.  The task that      *)
(* waited for a second signal is gone by then.                             *)
Returned ==
    /\ process = "returning" /\ \A c \in Client : ~ thread[c]
    /\ Gone(0) /\ UNCHANGED <<returns, watch, time>>

(* Timers fire when they are due, and nothing else holds the end up.        *)
TimePasses ==
    /\ clock < MaxClock /\ process # "gone"
    /\ process = "up" => clock < Grace
    /\ process = "returning" => \E c \in Client : thread[c]
    /\ waited' = IF signals = "none" THEN waited ELSE waited + 1
    /\ UNCHANGED <<returns, watch, request, thread, process, code>>

(* A bug: the clock of the drain starts with the process.                  *)
TickFromStart == TimePasses /\ clock' = clock + 1

ClockTicks == TimePasses /\ clock' = IF signals = "none" THEN clock ELSE clock + 1

DrainNext ==
    \/ \E c \in Client : Accept(c) \/ Close(c) \/ Reuse(c) \/ ThreadEnds(c)
    \/ First \/ Rearm \/ Second \/ Drained \/ Deadline \/ ServeFails \/ Returned \/ ClockTicks

(* Threads end, timers fire; a client never has to.                        *)
DrainFairness ==
    /\ \A c \in Client : WF_drainVars(ThreadEnds(c))
    /\ WF_drainVars(ClockTicks) /\ WF_drainVars(Drained) /\ WF_drainVars(Deadline) /\ WF_drainVars(Returned)

DrainSpec == DrainInit /\ [][DrainNext]_drainVars /\ DrainFairness

-----------------------------------------------------------------------------
(* "The clock starts when the signal ARRIVES": no request is cut before the  *)
(* grace is over, unless a second signal or a failure says so.              *)
CutOnlyLate == (\E c \in Client : request[c] = "cut") =>
    (signals = "first" /\ waited >= Grace) \/ signals = "second" \/ code = 1

(* A stop ends, whatever the clients do.                                   *)
StopEnds == signals = "first" ~> process = "gone"

(* "it must finish before an external stop timeout kills us": the process   *)
(* is gone once the grace is over.                                         *)
GoneInGrace == waited > Grace => process = "gone"

(* It is where nothing is waited for after the drain.                      *)
ExitsInGrace == ~ returns => GoneInGrace

(* The grace is granted, and no more where nothing may outlive it.          *)
GraceKept == CutOnlyLate /\ ExitsInGrace

(* The inductive invariant behind it: the clock is what the drain has       *)
(* lasted, no more than the grace while requests are served, and nothing is *)
(* open by the time main returns.                                          *)
DrainIInv ==
    /\ DrainTypeOK /\ GraceKept
    /\ clock = waited
    /\ process = "up" => clock <= Grace /\ code = 0 /\ \A c \in Client : request[c] # "cut"
    /\ process = "returning" => returns /\ code = 0 /\ \A c \in Client : request[c] # "open"
=============================================================================
