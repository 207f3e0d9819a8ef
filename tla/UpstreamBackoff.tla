----------------------------- MODULE UpstreamBackoff -----------------------------
(* The pause on one upstream (util.rs, Backoff), shared by the calls that    *)
(* ask it at once (justwatch.rs, post_graphql; the other clients likewise).  *)
(* A call looks for a pause before it asks; what it learns it writes to two  *)
(* atomics, one after the other, with other calls' writes in between.        *)
EXTENDS Naturals

CONSTANTS
    Call,
    Base, MaxPause,      \* the pause of a first refusal, and the most without a Retry-After
    RetryAfters, Day,    \* the waits an upstream asks for, and the most it is granted
    MaxNow, MaxRefusals  \* bounds of the model

ASSUME BackoffAssumption ==
    /\ Base \in Nat \ {0} /\ MaxPause \in Nat \ {0} /\ Day \in Nat \ {0}
    /\ RetryAfters \subseteq Nat /\ MaxNow \in Nat /\ MaxRefusals \in Nat

VARIABLES
    until, refusals,     \* the atomics
    call,                \* per call: where it is, and the pause it is about to start
    now,
    promised             \* history: the furthest end of a pause since the last answer

backoffVars == <<until, refusals, call, now, promised>>

Larger(a, b)  == IF a > b THEN a ELSE b
Smaller(a, b) == IF a < b THEN a ELSE b

Off == [at |-> "off", pause |-> 0]

BackoffTypeOK ==
    /\ until \in Nat /\ promised \in Nat /\ now \in 0..MaxNow /\ refusals \in 0..MaxRefusals
    /\ call \in [Call -> [at : {"off", "asked", "pausing", "clearing"}, pause : Nat]]

BackoffInit ==
    /\ until = 0 /\ refusals = 0 /\ now = 0 /\ promised = 0
    /\ call = [c \in Call |-> Off]

-----------------------------------------------------------------------------
(* paused(): a call made while a pause runs is turned away.                *)
Ask(c) ==
    /\ call[c] = Off /\ until <= now
    /\ call' = [call EXCEPT ![c].at = "asked"]
    /\ UNCHANGED <<until, refusals, now, promised>>

(* An answer that says nothing of the upstream: a refusal of this request. *)
Neither(c) ==
    /\ call[c].at = "asked" /\ call' = [call EXCEPT ![c] = Off]
    /\ UNCHANGED <<until, refusals, now, promised>>

Doubled(n) == Smaller(Base * 2 ^ Smaller(n, 16), MaxPause)

(* refused(): as long as asked, up to a day, or else doubled with up to a   *)
(* quarter more.                                                           *)
Pauses(n) ==
    {Smaller(asked, Day) : asked \in RetryAfters}
        \cup {Doubled(n) + jitter : jitter \in 0..(Larger(Doubled(n) \div 4, 1) - 1)}

(* A 429, a 5xx, no connection, or an answer that spent the allowance: the  *)
(* count first ...                                                         *)
Refuse(c) ==
    /\ call[c].at = "asked" /\ refusals < MaxRefusals /\ refusals' = refusals + 1
    /\ \E pause \in Pauses(refusals) : call' = [call EXCEPT ![c] = [at |-> "pausing", pause |-> pause]]
    /\ UNCHANGED <<until, now, promised>>

(* A bug: a later, shorter pause replaces a longer one.                    *)
PauseShortens(c) ==
    /\ call[c].at = "pausing"
    /\ until' = Larger(now + call[c].pause, 1) /\ promised' = Larger(promised, now + call[c].pause)
    /\ call' = [call EXCEPT ![c] = Off]
    /\ UNCHANGED <<refusals, now>>

(* ... then the end of the pause, which only moves away.                   *)
Pause(c) ==
    /\ call[c].at = "pausing"
    /\ until' = Larger(until, Larger(now + call[c].pause, 1))
    /\ promised' = Larger(promised, now + call[c].pause)
    /\ call' = [call EXCEPT ![c] = Off]
    /\ UNCHANGED <<refusals, now>>

(* answered(): the count starts over ...                                   *)
Answer(c) ==
    /\ call[c].at = "asked" /\ refusals' = 0
    /\ call' = [call EXCEPT ![c].at = "clearing"]
    /\ UNCHANGED <<until, now, promised>>

(* ... and then the pause ends, also one started since, by a call made       *)
(* before this one's answer or between its two stores.                     *)
Clear(c) ==
    /\ call[c].at = "clearing" /\ until' = 0 /\ promised' = 0
    /\ call' = [call EXCEPT ![c] = Off]
    /\ UNCHANGED <<refusals, now>>

ClockTicks == now < MaxNow /\ now' = now + 1 /\ UNCHANGED <<until, refusals, call, promised>>

BackoffNext ==
    \/ ClockTicks
    \/ \E c \in Call : Ask(c) \/ Neither(c) \/ Refuse(c) \/ Pause(c) \/ Answer(c) \/ Clear(c)

BackoffSpec == BackoffInit /\ [][BackoffNext]_backoffVars

-----------------------------------------------------------------------------
(* "Retry-After is honoured as sent, up to a day", "doubles per refusal in  *)
(* a row up to max, with a quarter of jitter": however many calls are        *)
(* refused at once, no pause lasts longer.                                 *)
Longest == Larger(Day, MaxPause + MaxPause \div 4)

PauseBounded == until <= now + Longest

(* "a rate-limited upstream is waited out once instead of being asked again *)
(* by each request": no call asks before the furthest pause a refusal       *)
(* started since the last answer is over, whichever refusal came last.      *)
WaitedOut == [][PauseBounded' /\ \A c \in Call :
    call[c].at = "off" /\ call'[c].at = "asked" => promised <= now]_backoffVars

-----------------------------------------------------------------------------
(* The inductive invariant behind WaitedOut: nothing is promised that the   *)
(* atomic does not hold, nor a longer pause about to start.                 *)
BackoffIInv ==
    /\ BackoffTypeOK /\ PauseBounded /\ promised <= until
    /\ \A c \in Call : call[c].pause <= Longest
=============================================================================
