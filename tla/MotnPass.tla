------------------------------- MODULE MotnPass -------------------------------
(***************************************************************************)
(* The background pass of src/src/motn.rs for one country: what it asks    *)
(* Movie of the Night for, the day's budget it reserves before each        *)
(* request, and the paged reads of changes it resumes.                     *)
(*                                                                         *)
(* `held` is the state in memory, `disk` what the file (there is one)      *)
(* holds: a restart goes back to it.  A list is the days it has; a read is *)
(* how far it got.  The clock counts days and does not go back; a request  *)
(* is of the day it is counted on.                                         *)
(***************************************************************************)
EXTENDS FiniteSets, Integers

CONSTANTS Service,       \* the services the country has
          Charted,       \* those with a Top 10
          Upcoming,      \* those the API knows what is coming to
          Wants,         \* the lists a pass may find wanted, as sets of <<kind, service>>
          Daily,         \* DAILY_REQUESTS
          RefreshAfter, ServicesAfter, SoonAfter, LookBack, KeepAdded, ServeFor,
          AddedPages, SoonPages,  \* pages one pass reads
          MaxPages,      \* bound on the pages of a read
          MaxDate,       \* bound on the clock
          MaxFaults,     \* bound on what goes wrong
          All            \* the service of what is read for the country

Kind  == {"top", "added", "soon"}
Date  == 0..MaxDate
Never == -1
Time  == Date \cup {Never}

ASSUME MotnAssumption ==
    /\ Charted \subseteq Service /\ Upcoming \subseteq Service
    /\ Wants \subseteq SUBSET (Kind \X Service)
    /\ All \notin Service
    /\ Daily \in Nat /\ LookBack \in Nat /\ KeepAdded \in Nat /\ ServeFor \in Nat
    /\ RefreshAfter \in Nat /\ ServicesAfter \in Nat /\ SoonAfter \in Nat
    /\ AddedPages \in Nat \ {0} /\ SoonPages \in Nat \ {0} /\ MaxPages \in Nat \ {0}
    /\ MaxDate \in Nat /\ MaxFaults \in Nat

(* The paged reads and the single requests of a pass, in its order.        *)
Reads == ({"market"} \X Service) \cup {<<"country", All>>, <<"leaving", All>>, <<"coming", All>>}
Jobs  == {<<"services", All>>} \cup ({"top"} \X Service) \cup Reads \cup {<<"publish", All>>}
Rank  == [k \in {"services", "top", "market", "country", "leaving", "coming", "publish"} |->
            CASE k = "services" -> 1 [] k = "top" -> 2 [] k = "market" -> 3 [] k = "country" -> 4
              [] k = "leaving" -> 5 [] k = "coming" -> 6 [] k = "publish" -> 7]
NoJob == <<"none", All>>

(* ChangeProgress; one that is not there is not "begun". *)
Progress == [from : Int, to : Date, catalogs : SUBSET Service, pages : 0..MaxPages,
             state : {"none", "open", "complete", "quarantined"}]
NoRead   == [from |-> 0, to |-> 0, catalogs |-> {}, pages |-> 0, state |-> "none"]

(* soon: of the leaving and coming lists that are served, when the pass    *)
(* says they were read, when each was, and for which services.             *)
Kept == [spentDay : Date, spent : 0..Daily,
         servicesAt : Time, top : [Service -> Time],
         until : Time, covered : [Service -> Time], added : [Service -> SUBSET Date],
         changes : [Reads -> Progress],
         soonAt : Time, soonMarkets : SUBSET Service, leavingFrom : Int]

VARIABLES
    clock,
    held,      \* Motn::kept
    disk,      \* what the file holds
    plan,      \* what is left of the pass
    job,       \* what the pass asks for now
    sent,      \* whether a request of it is on the wire
    left,      \* pages it may still read in this pass
    now,       \* the pass's time; Never between passes
    wants,     \* the lists wanted as the pass began
    got,       \* which of leaving and coming the pass has whole
    faults,    \* refusals, bad answers, failed saves and restarts so far
    wire,      \* today's requests put on the wire
    skipped    \* days a country's read began too late for

motnVars == <<clock, held, disk, plan, job, sent, left, now, wants, got, faults, wire, skipped>>
work == <<plan, job, sent, left, now, wants, got>>

MotnTypeOK ==
    /\ clock \in Date
    /\ held \in Kept
    /\ disk \in Kept
    /\ plan \subseteq Jobs
    /\ job \in Jobs \cup {NoJob}
    /\ sent \in BOOLEAN
    /\ left \in Nat
    /\ now \in Time
    /\ wants \in Wants \cup {{}}
    /\ got \subseteq {"leaving", "coming"}
    /\ faults \in 0..MaxFaults
    /\ wire \in Nat
    /\ skipped \subseteq Date

Blank == [spentDay |-> 0, spent |-> 0,
          servicesAt |-> Never, top |-> [s \in Service |-> Never],
          until |-> Never, covered |-> [s \in Service |-> Never], added |-> [s \in Service |-> {}],
          changes |-> [r \in Reads |-> NoRead],
          soonAt |-> Never, soonMarkets |-> {}, leavingFrom |-> Never]

Fault == faults < MaxFaults /\ faults' = faults + 1

NoPass == /\ plan' = {} /\ job' = NoJob /\ sent' = FALSE /\ left' = 0
          /\ now' = Never /\ wants' = {} /\ got' = {}

MotnInit ==
    /\ clock = 0
    /\ held = Blank /\ disk = Blank
    /\ plan = {} /\ job = NoJob /\ sent = FALSE /\ left = 0 /\ now = Never /\ wants = {} /\ got = {}
    /\ faults = 0
    /\ wire = 0
    /\ skipped = {}

-----------------------------------------------------------------------------
(* The file: a save may fail before the rename, or after it.               *)

Saves(k)      == held' = k /\ disk' = k
SaveFails(k)  == held' = k /\ disk' \in {disk, k}
Unsaved(k)    == held' = k /\ UNCHANGED disk

(* The save a pass ends with. *)
EndSave == (Saves(held) /\ UNCHANGED faults) \/ (SaveFails(held) /\ Fault)

-----------------------------------------------------------------------------
(* The lists in question.                                                  *)

Due(at, after) == at = Never \/ now - at >= after
Offered        == IF held.servicesAt = Never THEN {} ELSE Service
Wanted(kind)   == {s \in Offered : <<kind, s>> \in wants}

(* A bug: a service read once is taken along, however long it was unread. *)
ReadOnce(s) == held.until = Never \/ held.covered[s] # Never

(* A service whose additions are read as far as the country's. *)
UpToDate(s) == held.until = Never \/ held.covered[s] >= held.until

LatestOf(a, b)   == IF a > b THEN a ELSE b
EarliestOf(a, b) == IF a < b THEN a ELSE b

(* Since when the country's additions are read; the days this leaves out.  *)
Since   == IF held.until = Never THEN now - LookBack ELSE LatestOf(held.until, now - LookBack)
Passed  == IF held.until = Never THEN {} ELSE {d \in Date : held.until < d /\ d <= Since}

New(from, to, catalogs) ==
    [from |-> from, to |-> to, catalogs |-> catalogs, pages |-> 0, state |-> "open"]

(* The read the pass would begin.  How far ahead leaving and coming look   *)
(* is left out: theirs end where they begin.                               *)
Asked(j) ==
    CASE j[1] = "market"  -> New(IF held.covered[j[2]] = Never
                                   THEN EarliestOf(now - LookBack, held.until) ELSE held.covered[j[2]],
                                 held.until, {j[2]})
      [] j[1] = "country" -> New(Since, now, {s \in Wanted("added") : UpToDate(s)})
      [] j[1] = "leaving" -> New(now, now, Wanted("soon"))
      [] j[1] = "coming"  -> New(now, now, Wanted("soon") \cap Upcoming)

SoonFresh == ~Due(held.soonAt, SoonAfter) /\ Wanted("soon") \subseteq held.soonMarkets

(* Whether the pass reads it at all. *)
Needed(j) ==
    CASE j[1] = "services" -> Due(held.servicesAt, ServicesAfter)
      [] j[1] = "top"      -> j[2] \in Wanted("top") \cap Charted /\ Due(held.top[j[2]], RefreshAfter)
      [] j[1] = "market"   -> j[2] \in Wanted("added") /\ ~UpToDate(j[2])
      [] j[1] = "country"  -> Asked(j).catalogs # {} /\ now - Since >= RefreshAfter
      [] j[1] \in {"leaving", "coming"} -> Wanted("soon") # {} /\ ~SoonFresh
      [] j[1] = "publish"  -> got = {"leaving", "coming"}

Before(i, j) == Rank[i[1]] < Rank[j[1]]

(* j is what the pass does next; what comes before it is not needed. *)
UpNext(j) == /\ job = NoJob /\ j \in plan /\ Needed(j)
             /\ \A i \in plan : Before(i, j) => ~Needed(i)
             /\ plan' = {i \in plan \ {j} : ~Before(i, j)}

-----------------------------------------------------------------------------
(* The pass.                                                               *)

(* Which lists households have asked for and which of those wants have     *)
(* lapsed (WANTED_FOR) is open at each pass.                               *)
StartPass ==
    /\ now = Never
    /\ \E w \in Wants :
         \/ w = {} /\ EndSave /\ UNCHANGED work
         \/ /\ w # {}
            /\ UNCHANGED faults
            /\ now' = clock
            /\ wants' = w
            /\ plan' = Jobs
            /\ UNCHANGED <<held, disk, job, sent, left, got>>
    /\ UNCHANGED <<clock, wire, skipped>>

(* A request that is not a page. *)
AskOne(j) ==
    /\ UpNext(j)
    /\ j[1] \in {"services", "top"}
    /\ job' = j
    /\ left' = 1
    /\ UNCHANGED <<clock, held, disk, sent, now, wants, got, faults, wire, skipped>>

(* What a whole read of j leaves in k: Motn::pass after `changes`. *)
Days(read) == {d \in Date : read.from < d /\ d <= read.to}

Adding(k, markets, read) ==
    [k EXCEPT !.added = [s \in Service |->
                 {d \in @[s] \cup (IF s \in read.catalogs THEN Days(read) ELSE {}) : now - d < KeepAdded}],
              !.covered = [s \in Service |-> IF s \in markets THEN read.to ELSE @[s]]]

Folded(k, j) ==
    LET read == k.changes[j] IN
    CASE j[1] = "market"  -> [Adding(k, {j[2]}, read) EXCEPT !.changes[j] = NoRead]
      [] j[1] = "country" -> [Adding(k, read.catalogs, read) EXCEPT !.until = read.to,
                                                                   !.changes[j] = NoRead]
      [] OTHER            -> k

Whole(j) == IF j[1] \in {"leaving", "coming"} THEN got \cup {j[1]} ELSE got

(* Motn::changes up to its first request: the read in progress is resumed, *)
(* one that cannot be is replaced when other services are asked for.       *)
Resumed(j) == IF \/ held.changes[j].state = "none"
                 \/ held.changes[j].state = "quarantined" /\ held.changes[j].catalogs # Asked(j).catalogs
              THEN Asked(j) ELSE held.changes[j]

BeginRead(j) ==
    /\ UpNext(j)
    /\ j \in Reads
    /\ ~(j[1] = "coming" /\ Asked(j).catalogs = {})
    /\ LET read == Resumed(j)
           k    == [held EXCEPT !.changes[j] = read]
       IN /\ skipped' = IF j[1] = "country" /\ read # held.changes[j] THEN skipped \cup Passed ELSE skipped
          /\ \/ read.state = "complete" /\ Unsaved(Folded(k, j)) /\ got' = Whole(j) /\ UNCHANGED <<job, left>>
             \/ read.state = "quarantined" /\ UNCHANGED <<held, disk, got, job, left>>
             \/ /\ read.state = "open"
                /\ Unsaved(k)
                /\ job' = j
                /\ left' = IF j[1] \in {"leaving", "coming"} THEN SoonPages ELSE AddedPages
                /\ UNCHANGED got
    /\ UNCHANGED <<clock, sent, now, wants, faults, wire>>

(* Nobody wants what is coming to a service the API knows it for. *)
NothingComing(j) ==
    /\ UpNext(j)
    /\ j[1] = "coming" /\ Asked(j).catalogs = {}
    /\ got' = got \cup {"coming"}
    /\ UNCHANGED <<clock, held, disk, job, sent, left, now, wants, faults, wire, skipped>>

(* The job comes back with nothing. *)
GivesUp == job' = NoJob /\ sent' = FALSE /\ left' = 0

-----------------------------------------------------------------------------
(* Motn::ask_query.                                                        *)

(* Motn::reserve's count. *)
Today == IF held.spentDay = clock THEN held ELSE [held EXCEPT !.spentDay = clock, !.spent = 0]
Spent == [Today EXCEPT !.spent = @ + 1]

(* A bug: what was spent is only saved as the pass ends. *)
ReserveUnsaved ==
    /\ job # NoJob /\ ~sent
    /\ Today.spent < Daily
    /\ Unsaved(Spent)
    /\ sent' = TRUE
    /\ wire' = wire + 1
    /\ UNCHANGED <<clock, plan, job, left, now, wants, got, faults, skipped>>

(* The request is counted, the count is saved, then it is sent. *)
Reserve ==
    /\ job # NoJob /\ ~sent
    /\ Today.spent < Daily
    /\ Saves(Spent)
    /\ sent' = TRUE
    /\ wire' = wire + 1
    /\ UNCHANGED <<clock, plan, job, left, now, wants, got, faults, skipped>>

(* A pause runs (one may at any time: Backoff is not modelled here), the   *)
(* day's requests are spent, or the file cannot be kept.                   *)
NotAsked ==
    /\ job # NoJob /\ ~sent
    /\ \/ UNCHANGED <<held, disk>> /\ Fault
       \/ Today.spent >= Daily /\ Unsaved(Today) /\ UNCHANGED faults
       \/ Today.spent < Daily /\ SaveFails(Spent) /\ Fault
    /\ GivesUp
    /\ UNCHANGED <<clock, plan, now, wants, got, wire, skipped>>

(* No answer, a refusal, or one that cannot be read. *)
Fails ==
    /\ sent
    /\ GivesUp
    /\ Fault
    /\ UNCHANGED <<clock, held, disk, plan, now, wants, got, wire, skipped>>

(* An answer; it may also say that the allowance is spent. *)
OneAnswered ==
    /\ sent
    /\ \/ job[1] = "services" /\ Unsaved([held EXCEPT !.servicesAt = now])
       \/ job[1] = "top" /\ Unsaved([held EXCEPT !.top[job[2]] = now])
    /\ GivesUp
    /\ UNCHANGED <<clock, plan, now, wants, got, faults, wire, skipped>>

(* A page: there is more and a way on, there is more and none that was not *)
(* seen, or it is the last.  The page is saved before the read goes on.    *)
Page(read) ==
    {[read EXCEPT !.pages = @ + 1, !.state = "complete"],
     [read EXCEPT !.pages = @ + 1, !.state = "quarantined"],
     [read EXCEPT !.pages = @ + 1, !.state = IF read.pages + 1 < MaxPages THEN "open" ELSE "complete"]}

PageArrives ==
    /\ sent
    /\ job \in Reads
    /\ \E read \in Page(held.changes[job]) :
         LET k == [held EXCEPT !.changes[job] = read] IN
         \/ /\ SaveFails(k) /\ Fault
            /\ GivesUp /\ UNCHANGED got
         \/ /\ read.state = "complete"
            /\ held' = Folded(k, job) /\ disk' = k
            /\ got' = Whole(job) /\ GivesUp /\ UNCHANGED faults
         \/ /\ read.state = "quarantined"
            /\ Saves(k) /\ Fault
            /\ GivesUp /\ UNCHANGED got
         \/ /\ read.state = "open"
            /\ Saves(k)
            /\ left' = left - 1 /\ sent' = FALSE
            /\ job' = IF left > 1 THEN job ELSE NoJob
            /\ UNCHANGED <<got, faults>>
    /\ UNCHANGED <<clock, plan, now, wants, wire, skipped>>

-----------------------------------------------------------------------------
(* What was read of leaving and coming replaces what is served.            *)
Publish(j) ==
    /\ UpNext(j)
    /\ j[1] = "publish"
    /\ LET leaving == held.changes[<<"leaving", All>>]
           coming  == IF Wanted("soon") \cap Upcoming = {} THEN {} ELSE {<<"coming", All>>}
       IN Unsaved([held EXCEPT
            !.soonAt = now,
            !.soonMarkets = leaving.catalogs,
            !.leavingFrom = leaving.from,
            !.changes = [r \in Reads |->
                           IF r \in {<<"leaving", All>>} \cup coming THEN NoRead ELSE @[r]]])
    /\ UNCHANGED <<clock, job, sent, left, now, wants, got, faults, wire, skipped>>

EndPass ==
    /\ now # Never /\ job = NoJob
    /\ \A j \in plan : ~Needed(j)
    /\ EndSave
    /\ NoPass
    /\ UNCHANGED <<clock, wire, skipped>>

DayEnds ==
    /\ clock < MaxDate
    /\ clock' = clock + 1
    /\ wire' = 0
    /\ UNCHANGED <<held, disk, work, faults, skipped>>

(* The process ends, whatever it was at, and starts from the file. *)
StartOver ==
    /\ Fault
    /\ held' = disk
    /\ NoPass
    /\ UNCHANGED <<clock, disk, wire, skipped>>

-----------------------------------------------------------------------------
MotnNext ==
    \/ StartPass \/ EndPass
    \/ \E j \in plan : AskOne(j) \/ BeginRead(j) \/ NothingComing(j) \/ Publish(j)
    \/ Reserve \/ NotAsked \/ Fails \/ OneAnswered \/ PageArrives
    \/ DayEnds \/ StartOver

MotnSpec == MotnInit /\ [][MotnNext]_motnVars

-----------------------------------------------------------------------------
(* The inductive invariant.                                                *)

(* What goes on the wire is counted in the file before; memory is never    *)
(* behind the file.                                                        *)
RecordedFirst ==
    /\ disk.spentDay <= held.spentDay /\ held.spentDay <= clock
    /\ disk.spentDay = held.spentDay => disk.spent <= held.spent
    /\ wire <= IF disk.spentDay = clock THEN disk.spent ELSE 0

(* A read under way has a page to come. *)
OpenReads(k) == \A r \in Reads : k.changes[r].state = "open" => k.changes[r].pages < MaxPages
UnderWay     == /\ sent => job # NoJob
                /\ job # NoJob => left > 0 /\ now # Never
                /\ job \in Reads => held.changes[job].state = "open"
                /\ now = Never => plan = {}

PassInv == MotnTypeOK /\ RecordedFirst /\ OpenReads(held) /\ OpenReads(disk) /\ UnderWay

(* No service is ahead of the country, one that is read on its own is      *)
(* behind it and goes on from where it is covered; the country's read is   *)
(* of services as far as itself, and begins where they end or at a gap.    *)
Cursors(k, gap) ==
    /\ \A s \in Service :
         /\ k.covered[s] <= k.until
         /\ \A d \in k.added[s] : d <= k.covered[s]
         /\ LET read == k.changes[<<"market", s>>] IN
            read.state # "none" =>
               /\ read.catalogs = {s}
               /\ k.covered[s] < k.until /\ k.covered[s] <= read.to /\ read.to <= k.until
               /\ k.covered[s] # Never => read.from = k.covered[s]
    /\ LET read == k.changes[<<"country", All>>] IN
       read.state # "none" =>
         /\ k.until <= read.to
         /\ \A s \in read.catalogs : k.covered[s] = k.until
         /\ k.until # Never => \A d \in Date : k.until < d /\ d <= read.from => d \in gap

MotnIInv == PassInv /\ Cursors(held, skipped) /\ Cursors(disk, skipped)

-----------------------------------------------------------------------------
(* Properties.                                                             *)

(* "30 a day stays under the free plan's 1,000 a month": however often the *)
(* process dies, the requests of a day are never more than its budget.     *)
BudgetKept == wire <= Daily

(* A service's additions, as far as it is covered, have no hole: what was  *)
(* added while it was not wanted, or between two reads, is there, but for  *)
(* what a read that came more than LookBack late passed over.              *)
Unbroken(k, gap) == \A s \in Service : \A d \in k.added[s], e \in Date :
                       d < e /\ e <= k.covered[s] => e \in k.added[s] \cup gap
NoHoleInAdditions == Unbroken(held, skipped) /\ Unbroken(disk, skipped)

(* "`None` when that country's lists aren't kept or are too old": a list   *)
(* of what is leaving is served no longer than ServeFor after its read.    *)
LeavingNotTooOld ==
    held.soonAt # Never /\ clock - held.soonAt < ServeFor => clock - held.leavingFrom < ServeFor
=============================================================================
