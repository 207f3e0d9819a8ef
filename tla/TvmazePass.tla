------------------------------ MODULE TvmazePass -------------------------------
(***************************************************************************)
(* The air dates of src/src/tvmaze.rs: what is kept of TVmaze, the queue   *)
(* of first answers, the background pass, and the requests that wait for   *)
(* it.                                                                     *)
(*                                                                         *)
(* A series is looked up once (`Lookup`) and resolves to a show, which is  *)
(* fetched (`Fetch`).  One pass asks TVmaze, one request at a time, for    *)
(* what is wanted and not answered yet, then for what is due.  Episodes    *)
(* are left out: a show is known by the day it was fetched.  A step is     *)
(* what one lock covers.                                                   *)
(***************************************************************************)
EXTENDS Integers, FiniteSets, Sequences, SequencesExt, Functions

CONSTANTS
    Series,      \* IMDb ids
    Title,       \* the series whose titles are opened
    Show,        \* TVmaze ids
    NoShow,      \* TVmaze has no show for a series
    Changed,     \* a kept show the updates feed named: fetched is 0
    Nothing,     \* no job
    Caller,      \* requests in flight: GET /airing/tv and POST /airing
    Group,       \* the followings POST /airing may name, sequences of series
    Refused,     \* the jobs TVmaze refuses whenever it is asked
    BeforeMaintenance, \* FOREGROUND_BEFORE_MAINTENANCE
    UpdatesEvery, MissFor, LookupFor, SafetyRefresh, WantedFor, \* in days
    MaxDay,      \* bound: the days that pass
    MaxCalls,    \* bound: the requests made
    MaxMishaps   \* bound: failed calls and saves, and restarts

Day == 0..MaxDay

Lookup == [show : Show \cup {NoShow}, at : Day]

Job == [kind : {"lookup"}, id : Series] \cup [kind : {"fetch"}, id : Show]

ASSUME TvmazeAssumption ==
    /\ NoShow \notin Show /\ Changed \notin Nat /\ Nothing \notin Job
    /\ Title \subseteq Series /\ Group \subseteq Seq(Series)
    /\ BeforeMaintenance \in Nat \ {0}
    /\ {UpdatesEvery, MissFor, LookupFor, SafetyRefresh, WantedFor} \subseteq Nat \ {0}
    /\ {MaxDay, MaxCalls, MaxMishaps} \subseteq Nat

VARIABLES
    kept,     \* Kept, under its lock
    file,     \* what a restart reads
    singles, batches, queued, \* Foreground, under its lock
    wake,     \* the permit stored in `wake`
    paused,   \* a refusal's pause is running
    day,      \* the wall clock
    phase,    \* where the pass is
    pass,     \* its locals
    call,     \* where each request is
    told,     \* the requests `progress` has told since they listened
    calls, mishaps

foregroundVars == <<singles, batches, queued>>
keptVars == <<kept, file>>
callVars == <<call, told, calls>>
vars == <<kept, file, singles, batches, queued, wake, paused, day, phase, pass,
          call, told, calls, mishaps>>

Empty == [x \in {} |-> x]

NewKept == [ids |-> Empty, shows |-> Empty, wanted |-> Empty, updates |-> 0]

Put(f, x, v) == [y \in DOMAIN f \cup {x} |-> IF y = x THEN v ELSE f[y]]

-----------------------------------------------------------------------------
(* Kept                                                                    *)

Resolved(k, s) == s \in DOMAIN k.ids /\ k.ids[s].show # NoShow

(* Kept::unanswered *)
Unanswered(k, s) ==
    \/ s \notin DOMAIN k.ids
    \/ Resolved(k, s) /\ k.ids[s].show \notin DOMAIN k.shows

LookupJob(s) == [kind |-> "lookup", id |-> s]
FetchJob(w) == [kind |-> "fetch", id |-> w]

(* first_job: the first-answer work for one series. *)
FirstJob(k, s) ==
    IF s \notin DOMAIN k.wanted \/ ~Unanswered(k, s) THEN Nothing
    ELSE IF Resolved(k, s) THEN FetchJob(k.ids[s].show) ELSE LookupJob(s)

ShowsOf(k) == {k.ids[s].show : s \in {x \in DOMAIN k.wanted : Resolved(k, x)}}

(* cold_job: whatever is wanted and unanswered, shows before lookups. *)
ColdJobs(k, tried) ==
    LET fetches == {FetchJob(w) : w \in ShowsOf(k) \ DOMAIN k.shows} \ tried
        lookups == {LookupJob(s) : s \in DOMAIN k.wanted \ DOMAIN k.ids} \ tried
    IN  IF fetches # {} THEN fetches ELSE lookups

(* due *)
IsDue(fetched, now) == fetched = Changed \/ now - fetched >= SafetyRefresh

EarlierFetched(a, b) == a = Changed \/ (b # Changed /\ a <= b)

(* maintenance_job: the due show fetched longest ago, else a stale lookup. *)
MaintenanceJobs(k, now, tried) ==
    LET due == {w \in ShowsOf(k) \cap DOMAIN k.shows :
                  IsDue(k.shows[w], now) /\ FetchJob(w) \notin tried}
        stale == {s \in DOMAIN k.wanted \cap DOMAIN k.ids :
                    now - k.ids[s].at >= IF Resolved(k, s) THEN LookupFor ELSE MissFor}
    IN  IF due # {}
        THEN {FetchJob(w) : w \in {v \in due : \A u \in due : EarlierFetched(k.shows[v], k.shows[u])}}
        ELSE {LookupJob(s) : s \in stale} \ tried

(* A bug: the show of a series nobody wants goes, whoever shares it. *)
PrunedAlone(k, now) ==
    LET gone == {s \in DOMAIN k.wanted : now - k.wanted[s] >= WantedFor}
    IN  [k EXCEPT !.wanted = Restrict(@, DOMAIN @ \ gone),
                  !.shows = Restrict(@, DOMAIN @ \ {k.ids[s].show : s \in gone \cap DOMAIN k.ids})]

(* prune *)
Pruned(k, now) ==
    LET wanted == Restrict(k.wanted, {s \in DOMAIN k.wanted : now - k.wanted[s] < WantedFor})
        ids    == Restrict(k.ids, {s \in DOMAIN k.ids : s \in DOMAIN wanted \/ now - k.ids[s].at < LookupFor})
        left   == [ids |-> ids, shows |-> k.shows, wanted |-> wanted, updates |-> k.updates]
    IN  [left EXCEPT !.shows = Restrict(k.shows, ShowsOf(left) \cap DOMAIN k.shows)]

(* A series asked about is wanted from today, to the day. *)
Wanting(k, some) ==
    [k EXCEPT !.wanted =
        [s \in DOMAIN k.wanted \cup some |->
            IF s \in some /\ (s \notin DOMAIN k.wanted \/ day - k.wanted[s] >= 1)
            THEN day ELSE k.wanted[s]]]

-----------------------------------------------------------------------------
(* Foreground                                                              *)

Batched == UNION {Range(batches[i]) : i \in DOMAIN batches}

(* What q has at these places, in order; and q without some of its members.  *)
PickedFrom(q, places) ==
    [n \in 1..Cardinality(places) |->
        q[CHOOSE i \in places : Cardinality({j \in places : j < i}) = n - 1]]

Without(q, gone) == PickedFrom(q, {i \in DOMAIN q : q[i] \notin gone})

(* A bug: the series stays in its batch as well. *)
EnqueueSingleOnly(s) ==
    IF s \in Range(singles) THEN UNCHANGED foregroundVars
    ELSE /\ singles' = Append(singles, s)
         /\ queued' = queued \cup {s}
         /\ UNCHANGED batches

(* Foreground::single: a title opened takes its series out of the batches. *)
EnqueueSingle(s) ==
    IF s \in Range(singles) THEN UNCHANGED foregroundVars
    ELSE /\ singles' = Append(singles, s)
         /\ batches' = Without([i \in DOMAIN batches |-> Without(batches[i], {s})], {<<>>})
         /\ queued' = queued \cup {s}

(* Foreground::batch: what is pending and not queued yet, each once. *)
EnqueueBatch(sweep) ==
    LET asks == sweep.asks
        once == PickedFrom(asks, {i \in DOMAIN asks : /\ asks[i] \in sweep.pending \ queued
                                                   /\ \A j \in 1..(i - 1) : asks[j] # asks[i]})
    IN  /\ batches' = IF once = <<>> THEN batches ELSE Append(batches, once)
        /\ queued' = queued \cup Range(once)
        /\ UNCHANGED singles

Done(s) == FirstJob(kept, s) = Nothing

(* Where a lane's first job not tried yet is, past its end if nowhere. *)
ReadyAt(heads) ==
    LET ready == {i \in 1..Len(heads) : FirstJob(kept, heads[i]) \notin {Nothing} \cup pass.tried}
    IN  IF ready = {} THEN Len(heads) + 1 ELSE CHOOSE i \in ready : \A j \in ready : i <= j

Heads(lane) ==
    IF lane = "single" THEN singles ELSE [i \in DOMAIN batches |-> Head(batches[i])]

HasJob(lane) == ReadyAt(Heads(lane)) <= Len(Heads(lane))

LaneJob(lane) == FirstJob(kept, Heads(lane)[ReadyAt(Heads(lane))])

(* Foreground::job: what precedes the job goes behind the rest of its lane, *)
(* and what is answered leaves it; a batch loses one series a turn.         *)
SinglesTurned ==
    LET i == ReadyAt(singles)
    IN  SubSeq(singles, i, Len(singles))
          \o Without(SubSeq(singles, 1, i - 1), {s \in Series : Done(s)})

BatchesTurned ==
    LET i == ReadyAt(Heads("batch"))
        turned(b) == IF Done(Head(b)) THEN Tail(b) ELSE b
        passed == [j \in 1..(i - 1) |-> turned(batches[j])]
    IN  SubSeq(batches, i, Len(batches)) \o Without(passed, {<<>>})

Answered(lane) ==
    LET heads == Heads(lane) IN {s \in Range(SubSeq(heads, 1, ReadyAt(heads) - 1)) : Done(s)}

TurnLanes(lanes) ==
    /\ singles' = IF "single" \in lanes THEN SinglesTurned ELSE singles
    /\ batches' = IF "batch" \in lanes THEN BatchesTurned ELSE batches
    /\ queued' = queued \ UNION {Answered(lane) : lane \in lanes}

-----------------------------------------------------------------------------
(* Requests                                                                *)

Out == [at |-> "out", asks |-> <<>>, pending |-> {}, alone |-> FALSE]

(* want and want_batch note the series under the lock of what is kept. *)
Note(c, asks, alone) ==
    /\ call[c].at = "out" /\ calls < MaxCalls
    /\ kept' = Wanting(kept, Range(asks))
    /\ LET pending == {s \in Range(asks) : Unanswered(kept, s)}
       IN  call' = [call EXCEPT ![c] =
                      IF pending = {} THEN Out
                      ELSE [at |-> "noted", asks |-> asks, pending |-> pending, alone |-> alone]]
    /\ calls' = calls + 1
    /\ UNCHANGED <<file, foregroundVars, wake, paused, day, phase, pass, told, mishaps>>

Open(c) == \E s \in Title : Note(c, <<s>>, TRUE)

Sweep(c) == \E group \in Group : Note(c, group, FALSE)

(* A bug: the wake reaches a loop that waits already and no other. *)
EnqueueAwake(c) ==
    /\ call[c].at = "noted"
    /\ IF call[c].alone THEN EnqueueSingle(Head(call[c].asks)) ELSE EnqueueBatch(call[c])
    /\ wake' = (wake \/ phase = "asleep")
    /\ call' = [call EXCEPT ![c].at = "queued"]
    /\ UNCHANGED <<keptVars, paused, day, phase, pass, told, calls, mishaps>>

(* ... and queue what is unanswered under the lock of the queue, then wake  *)
(* the pass.                                                               *)
Enqueue(c) ==
    /\ call[c].at = "noted"
    /\ IF call[c].alone THEN EnqueueSingle(Head(call[c].asks)) ELSE EnqueueBatch(call[c])
    /\ wake' = TRUE
    /\ call' = [call EXCEPT ![c].at = "queued"]
    /\ UNCHANGED <<keptVars, paused, day, phase, pass, told, calls, mishaps>>

(* settle listens before it looks, anew when it was told. *)
Listen(c) ==
    /\ call[c].at = "queued" \/ (call[c].at = "waiting" /\ c \in told)
    /\ call' = [call EXCEPT ![c].at = "listening"]
    /\ told' = told \ {c}
    /\ UNCHANGED <<keptVars, foregroundVars, wake, paused, day, phase, pass, calls, mishaps>>

(* settle looks, and waits if there is no answer; a sweep settles its next series. *)
Look(c) ==
    /\ call[c].at = "listening"
    /\ LET asks == call[c].asks
           settled == Head(asks) \notin call[c].pending \/ ~Unanswered(kept, Head(asks)) \/ paused
       IN  /\ call' = [call EXCEPT ![c] =
                          IF ~settled THEN [call[c] EXCEPT !.at = "looked"]
                          ELSE IF Len(asks) = 1 THEN Out
                          ELSE [call[c] EXCEPT !.at = "queued", !.asks = Tail(asks)]]
           /\ told' = IF settled THEN told \ {c} ELSE told
    /\ UNCHANGED <<keptVars, foregroundVars, wake, paused, day, phase, pass, calls, mishaps>>

Wait(c) ==
    /\ call[c].at = "looked"
    /\ call' = [call EXCEPT ![c].at = "waiting"]
    /\ UNCHANGED <<keptVars, foregroundVars, wake, paused, day, phase, pass, told, calls, mishaps>>

(* FIRST_WAIT is over, or the client goes. *)
GiveUp(c) ==
    /\ call[c].at = "waiting"
    /\ call' = [call EXCEPT ![c] = Out]
    /\ told' = told \ {c}
    /\ UNCHANGED <<keptVars, foregroundVars, wake, paused, day, phase, pass, calls, mishaps>>

(* A bug: only a request that waits already is told (Notified not enabled). *)
TellWaiting == told' = {c \in Caller : call[c].at = "waiting"}

(* notify_waiters tells every request that listens, those yet to look as well. *)
TellAll == told' = {c \in Caller : call[c].at \in {"listening", "looked", "waiting"}}

-----------------------------------------------------------------------------
(* The pass                                                                *)

NewPass == [now |-> 0, tried |-> {}, prefer |-> "single", since |-> 0, held |-> 0,
            next |-> Nothing, job |-> Nothing, cut |-> FALSE]

Mishap == mishaps < MaxMishaps /\ mishaps' = mishaps + 1

(* A bug: what an earlier pass tried is not tried again. *)
PassBeginsTried ==
    /\ phase \in {"starting", "asleep"}
    /\ wake' \in {FALSE, wake}
    /\ kept' = Pruned(kept, day)
    /\ phase' = "choose"
    /\ pass' = [NewPass EXCEPT !.now = day, !.tried = pass.tried]
    /\ UNCHANGED <<file, foregroundVars, paused, day, callVars, mishaps>>

(* refresh_forever: five minutes, or the wake. *)
PassBegins ==
    /\ phase \in {"starting", "asleep"}
    /\ wake' \in {FALSE, wake}
    /\ LET left == Pruned(kept, day)
           seen == IF DOMAIN left.shows = {} THEN day ELSE left.updates
       IN  /\ kept' = [left EXCEPT !.updates = seen]
           /\ phase' = IF day - seen >= UpdatesEvery THEN "feed" ELSE "choose"
    /\ pass' = [NewPass EXCEPT !.now = day]
    /\ UNCHANGED <<file, foregroundVars, paused, day, callVars, mishaps>>

(* The updates feed marks the shows TVmaze changed. *)
FeedRead ==
    /\ phase = "feed" /\ ~paused
    /\ LET read == [kept EXCEPT !.updates = pass.now]
       IN  \E named \in SUBSET DOMAIN kept.shows :
             kept' = [read EXCEPT !.shows = [w \in DOMAIN @ |-> IF w \in named THEN Changed ELSE @[w]]]
    /\ phase' = "choose"
    /\ UNCHANGED <<file, foregroundVars, wake, paused, day, pass, callVars, mishaps>>

FeedFails ==
    /\ phase = "feed"
    /\ \/ paused /\ UNCHANGED <<paused, mishaps>>
       \/ ~paused /\ Mishap /\ paused' \in BOOLEAN
    /\ phase' = "choose"
    /\ UNCHANGED <<keptVars, foregroundVars, wake, day, pass, callVars>>

Other(lane) == IF lane = "single" THEN "batch" ELSE "single"

Lanes == {"single", "batch"}

Waiting == MaintenanceJobs(kept, pass.now, pass.tried)

(* The pass goes on with job, unless TVmaze is left alone. *)
Take(job, turned) ==
    /\ phase' = IF paused THEN "end" ELSE "ask"
    /\ pass' = [turned EXCEPT !.job = job, !.next = Nothing, !.cut = paused,
                              !.tried = IF paused THEN @ ELSE @ \cup {job}]

(* A foreground turn, and how many maintenance has waited through. *)
Turn == [pass EXCEPT !.since = @ + 1, !.held = IF Waiting = {} THEN 0 ELSE @ + 1]

LaneTurn(lane) == Take(LaneJob(lane), [Turn EXCEPT !.prefer = Other(lane)])

Maintain(job) == Take(job, [pass EXCEPT !.since = 0, !.held = 0])

(* A bug: a show fetched right after its lookup counts as maintenance. *)
ContinueResets ==
    /\ pass.next \notin {Nothing} \cup pass.tried
    /\ Take(pass.next, [pass EXCEPT !.since = 0])
    /\ UNCHANGED foregroundVars

Continue ==
    /\ pass.next \notin {Nothing} \cup pass.tried
    /\ Take(pass.next, pass)
    /\ UNCHANGED foregroundVars

DueNow == IF pass.since >= BeforeMaintenance THEN Waiting ELSE {}

(* One lane after the other, then what no lane holds, then maintenance. *)
ChooseJob ==
    LET first == pass.prefer
        cold == ColdJobs(kept, pass.tried)
    IN  \/ /\ HasJob(first)
           /\ LaneTurn(first)
           /\ TurnLanes({first})
        \/ /\ ~HasJob(first) /\ HasJob(Other(first))
           /\ LaneTurn(Other(first))
           /\ TurnLanes(Lanes)
        \/ /\ \A lane \in Lanes : ~HasJob(lane)
           /\ TurnLanes(Lanes)
           /\ \/ \E job \in cold : Take(job, Turn)
              \/ cold = {} /\ \E job \in Waiting : Maintain(job)
              \/ /\ cold \cup Waiting = {}
                 /\ phase' = "end"
                 /\ pass' = [pass EXCEPT !.job = Nothing, !.next = Nothing]

Choose ==
    /\ phase = "choose"
    /\ \/ Continue
       \/ /\ pass.next \in {Nothing} \cup pass.tried
          /\ \/ \E job \in DueNow : Maintain(job) /\ UNCHANGED foregroundVars
             \/ DueNow = {} /\ ChooseJob
    /\ UNCHANGED <<keptVars, wake, paused, day, callVars, mishaps>>

(* A lookup's answer is kept, and the show it found is fetched next. *)
LookupAnswered(s) ==
    /\ phase = "ask" /\ pass.job = LookupJob(s) /\ pass.job \notin Refused
    /\ \E found \in Show \cup {NoShow} :
         /\ kept' = [kept EXCEPT !.ids = Put(@, s, [show |-> found, at |-> pass.now])]
         /\ pass' = [pass EXCEPT !.next = IF found \in Show \ DOMAIN kept.shows
                                          THEN FetchJob(found) ELSE Nothing]
    /\ phase' = "tell"
    /\ UNCHANGED <<file, foregroundVars, wake, paused, day, callVars, mishaps>>

(* A show is kept; a show gone from TVmaze is a miss for all that resolved to it. *)
FetchAnswered(w) ==
    /\ phase = "ask" /\ pass.job = FetchJob(w) /\ pass.job \notin Refused
    /\ \/ kept' = [kept EXCEPT !.shows = Put(@, w, pass.now)]
       \/ LET left == [kept EXCEPT !.shows = Restrict(@, DOMAIN @ \ {w})]
              miss == [show |-> NoShow, at |-> pass.now]
          IN  kept' = [left EXCEPT !.ids = [s \in DOMAIN @ |-> IF @[s].show = w THEN miss ELSE @[s]]]
    /\ phase' = "tell"
    /\ UNCHANGED <<file, foregroundVars, wake, paused, day, pass, callVars, mishaps>>

(* A show without an id is not kept. *)
FetchUnreadable ==
    /\ phase = "ask" /\ pass.job.kind = "fetch"
    /\ Mishap
    /\ phase' = "tell"
    /\ UNCHANGED <<keptVars, foregroundVars, wake, paused, day, pass, callVars>>

(* No answer, with a pause or without. *)
AskFails ==
    /\ phase = "ask"
    /\ pass.job \in Refused \/ mishaps < MaxMishaps
    /\ mishaps' = IF pass.job \in Refused THEN mishaps ELSE mishaps + 1
    /\ paused' \in IF pass.job \in Refused THEN {TRUE} ELSE BOOLEAN
    /\ phase' = "choose"
    /\ UNCHANGED <<keptVars, foregroundVars, wake, day, pass, callVars>>

Tell ==
    /\ phase = "tell"
    /\ TellAll
    /\ phase' = "choose"
    /\ UNCHANGED <<keptVars, foregroundVars, wake, paused, day, pass, call, calls, mishaps>>

(* The end of the pass tells once more, and saves. *)
PassEnds ==
    /\ phase = "end"
    /\ TellAll
    /\ \/ file' = kept /\ UNCHANGED mishaps
       \/ Mishap /\ UNCHANGED file
    /\ phase' = "asleep"
    /\ pass' = [NewPass EXCEPT !.tried = pass.tried, !.cut = pass.cut]
    /\ UNCHANGED <<kept, foregroundVars, wake, paused, day, call, calls>>

-----------------------------------------------------------------------------
PauseEnds ==
    /\ paused
    /\ paused' = FALSE
    /\ UNCHANGED <<keptVars, foregroundVars, wake, day, phase, pass, callVars, mishaps>>

(* A pass is taken to be shorter than a day. *)
DayPasses ==
    /\ day < MaxDay /\ phase \in {"starting", "asleep"}
    /\ day' = day + 1
    /\ UNCHANGED <<keptVars, foregroundVars, wake, paused, phase, pass, callVars, mishaps>>

(* with_base: what was wanted and unanswered is queued as one batch. *)
LeftOver(k) == SetToSeq({s \in DOMAIN k.wanted : Unanswered(k, s)})

(* The process ends and starts again.  A pass dropped at an await saves. *)
Restart ==
    /\ Mishap
    /\ \E k \in {file} \cup (IF phase \in {"feed", "ask"} THEN {kept} ELSE {}) :
         /\ kept' = k /\ file' = k
         /\ batches' = IF LeftOver(k) = <<>> THEN <<>> ELSE <<LeftOver(k)>>
         /\ queued' = Range(LeftOver(k))
    /\ singles' = <<>>
    /\ wake' = FALSE /\ paused' = FALSE
    /\ phase' = "starting" /\ pass' = NewPass
    /\ call' = [c \in Caller |-> Out] /\ told' = {}
    /\ UNCHANGED <<day, calls>>

Init ==
    /\ kept = NewKept /\ file = NewKept
    /\ singles = <<>> /\ batches = <<>> /\ queued = {}
    /\ wake = FALSE /\ paused = FALSE /\ day = 0
    /\ phase = "starting" /\ pass = NewPass
    /\ call = [c \in Caller |-> Out] /\ told = {}
    /\ calls = 0 /\ mishaps = 0

CallStep(c) == Enqueue(c) \/ Listen(c) \/ Look(c) \/ Wait(c)

PassStep == PassBegins \/ FeedRead \/ FeedFails \/ Choose \/ Tell \/ PassEnds

JobAnswered(job) ==
    IF job.kind = "lookup" THEN LookupAnswered(job.id) ELSE FetchAnswered(job.id)

AskStep == AskFails \/ FetchUnreadable \/ \E job \in Job : JobAnswered(job)

Next ==
    \/ PassStep \/ AskStep
    \/ \E c \in Caller : Open(c) \/ Sweep(c) \/ CallStep(c) \/ GiveUp(c)
    \/ PauseEnds \/ DayPasses \/ Restart

Spec == Init /\ [][Next]_vars

(* The runtime polls what is ready, a request to TVmaze ends within the    *)
(* client's timeout, and a pause ends.                                     *)
Fairness ==
    /\ WF_vars(PassStep) /\ WF_vars(AskStep) /\ WF_vars(PauseEnds)
    /\ \A c \in Caller : WF_vars(CallStep(c)) /\ WF_vars(GiveUp(c))

FairSpec == Spec /\ Fairness

-----------------------------------------------------------------------------
KeptOK(k) ==
    /\ k = [ids |-> k.ids, shows |-> k.shows, wanted |-> k.wanted, updates |-> k.updates]
    /\ DOMAIN k.ids \subseteq Series /\ \A s \in DOMAIN k.ids : k.ids[s] \in Lookup
    /\ DOMAIN k.shows \subseteq Show /\ \A w \in DOMAIN k.shows : k.shows[w] \in Day \cup {Changed}
    /\ DOMAIN k.wanted \subseteq Series /\ \A s \in DOMAIN k.wanted : k.wanted[s] \in Day
    /\ k.updates \in Day

CallType == [at : {"out", "noted", "queued", "listening", "looked", "waiting"}, asks : Seq(Series),
             pending : SUBSET Series, alone : BOOLEAN]

PassType == [now : Day, tried : SUBSET Job, prefer : Lanes, since : Nat, held : Nat,
             next : Job \cup {Nothing}, job : Job \cup {Nothing}, cut : BOOLEAN]

(* The lanes are QueueMatches'. *)
TypeOK ==
    /\ KeptOK(kept) /\ KeptOK(file)
    /\ wake \in BOOLEAN /\ paused \in BOOLEAN /\ day \in Day
    /\ call \in [Caller -> CallType] /\ pass \in PassType
    /\ \A c \in Caller : call[c].at # "out" => call[c].asks # <<>>
    /\ phase \in {"starting", "asleep", "feed", "choose", "ask", "tell", "end"}
    /\ told \subseteq Caller /\ calls \in 0..MaxCalls /\ mishaps \in 0..MaxMishaps

(* Every queued series has one place, in one lane; a batch is never empty. *)
QueueMatches ==
    /\ singles \in Seq(Series) /\ batches \in Seq(Seq(Series)) /\ queued \subseteq Series
    /\ queued = Range(singles) \cup Batched
    /\ Range(singles) \cap Batched = {}
    /\ \A i, j \in DOMAIN singles : singles[i] = singles[j] => i = j
    /\ \A i \in DOMAIN batches : batches[i] # <<>>
    /\ \A i, j \in DOMAIN batches : \A m \in DOMAIN batches[i], n \in DOMAIN batches[j] :
         batches[i][m] = batches[j][n] => i = j /\ m = n

(* A request that waits for an answer that is there is about to be told. *)
WaitersTold == \A c \in Caller :
    call[c].at \in {"looked", "waiting"} /\ c \notin told /\ ~Unanswered(kept, Head(call[c].asks))
        => phase \in {"tell", "end"}

(* The last pass tried the first answer of s, or the next is on its way. *)
Tried(s) ==
    \/ FirstJob(kept, s) \in pass.tried \cup {Nothing}
    \/ wake
    \/ \E c \in Caller : call[c].at = "noted" /\ s \in call[c].pending

(* A series wanted while no pass runs was tried by the last, unless that   *)
(* was cut off by a pause, or wakes the next.                              *)
NothingLeftBehind ==
    phase = "asleep" /\ ~pass.cut => \A s \in DOMAIN kept.wanted : Tried(s)

(* Maintenance that is due waits for no more than BeforeMaintenance series. *)
MaintenanceTurns == pass.held <= BeforeMaintenance

(* What a pass ends with is what it leaves behind. *)
AllTried == phase \in {"end", "asleep"} /\ ~pass.cut => \A s \in DOMAIN kept.wanted : Tried(s)

(* The inductive invariant. *)
IInv ==
    /\ TypeOK
    /\ WaitersTold
    /\ AllTried
    /\ pass.held <= pass.since /\ MaintenanceTurns
    /\ phase = "ask" => pass.job \in Job

(* A wanted series that has an answer loses it only to its own lookup. *)
AnswerStays == [][\A s \in DOMAIN kept.wanted \cap DOMAIN kept'.wanted :
    ~Unanswered(kept, s) /\ mishaps' = mishaps /\ Unanswered(kept', s) => pass.job = LookupJob(s)]_vars

WantedIsAnswered == \A s \in Series :
    LookupJob(s) \notin Refused =>
        (s \in DOMAIN kept.wanted /\ Unanswered(kept, s)
            ~> s \notin DOMAIN kept.wanted \/ ~Unanswered(kept, s))
=============================================================================
