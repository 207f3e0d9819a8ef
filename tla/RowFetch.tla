-------------------------------- MODULE RowFetch --------------------------------
(***************************************************************************)
(* `CatalogState::fetch_row` of src/src/catalog.rs, with `packages_for`    *)
(* and `aggregate`: how a JustWatch row is refreshed.                      *)
(*                                                                         *)
(* A task that finds the row fresh answers with it.  Otherwise it takes    *)
(* the row's gate (SingleFlight), looks again, resolves the country's      *)
(* package list, asks for every service of the row the country carries,    *)
(* and stores the row or falls back on the one kept.  Every call upstream  *)
(* holds one of MaxPermits permits; an aggregate row's calls are tasks of  *)
(* their own, and outlive for a moment the request that is dropped.        *)
(*                                                                         *)
(* A body is what it was made of: "lead" is Movie of the Night's list      *)
(* alone, "part" the answers of some of the services asked, "whole" the    *)
(* answers of all of them, led by that list or not.                        *)
(*                                                                         *)
(* Who asks, and when a refresh is forced over a fresh row, is left open:  *)
(* CatalogRows composes these steps with its requests and its refresher.   *)
(***************************************************************************)
EXTENDS FiniteSets, Naturals

CONSTANTS
    Task,         \* requests and the refresher
    NoTask,
    Row,          \* row cache keys
    Trending,     \* the aggregate rows; the others are one service's
    Led,          \* the rows Movie of the Night may keep a list for
    Service,
    Country,
    List,         \* the call that asks for a country's package list
    RowServices,  \* RowServices[r]: the services row r is asked of
    RowCountry,
    PackageLists, \* the lists upstream may answer: the services carried
    MaxPermits,   \* MAX_UPSTREAM_INFLIGHT
    Due,          \* the age a row is refreshed ahead at (REFRESH_AT)
    Ttl,          \* the age a row stops being fresh at
    MaxAge        \* bound: ages beyond it are alike

ASSUME TaskAssumption ==
    /\ IsFiniteSet(Task)
    /\ NoTask \notin Task

ASSUME RowAssumption ==
    /\ IsFiniteSet(Service)
    /\ List \notin Service
    /\ Trending \subseteq Row
    /\ Led \subseteq Row \ Trending
    /\ RowServices \in [Row -> SUBSET Service]
    /\ RowCountry \in [Row -> Country]
    /\ PackageLists \subseteq SUBSET Service

ASSUME BoundAssumption ==
    /\ MaxPermits \in Nat \ {0}
    /\ Due \in Nat /\ Ttl \in Nat /\ MaxAge \in Nat
    /\ 0 < Due /\ Due <= Ttl /\ Ttl <= MaxAge

VARIABLES
    cached,     \* the row cache: what is kept for each row
    age,        \* how long ago it was stored
    older,      \* <<q, r>> where row q was stored before row r
    refresher,  \* the task that holds each row's gate
    pc,         \* where each task is in fetch_row
    row,        \* the row it fetches
    force,      \* whether it fetches over a fresh row
    calls,      \* calls[t][c]: how far task t's call c is
    permits,    \* what the semaphore has left
    orphans,    \* permits of aborted calls not dropped yet
    packages,   \* each country's package list, {} until it is known
    blocked,    \* whether the country's lookup failed lately
    leads,      \* the rows Movie of the Night keeps a list for now
    ok,         \* last_refresh_ok
    reply       \* each task's last answer

requestVars == <<pc, row, force, calls, reply>>
cacheVars == <<cached, age, older>>
packageVars == <<packages, blocked>>
permitVars == <<permits, orphans>>
fetchVars == <<cacheVars, refresher, requestVars, permitVars, packageVars, leads, ok>>

Call  == Service \cup {List}
Kept  == {"none", "lead", "part", "whole"}
Reply == [body : Kept \cup {"empty", "absent"}, fresh : BOOLEAN]
NoReply == [body |-> "none", fresh |-> FALSE]
NoCalls == [c \in Call |-> "none"]

TypeOK ==
    /\ cached \in [Row -> Kept]
    /\ age \in [Row -> 0..MaxAge]
    /\ older \in SUBSET (Row \X Row)
    /\ refresher \in [Row -> Task \cup {NoTask}]
    /\ pc \in [Task -> {"out", "waiting", "resolving", "listing", "calling"}]
    /\ row \in [Task -> Row]
    /\ force \in [Task -> BOOLEAN]
    /\ calls \in [Task -> [Call -> {"none", "queued", "asking", "answered", "failed"}]]
    /\ permits \in Nat
    /\ orphans \in Nat
    /\ packages \in [Country -> SUBSET Service]
    /\ blocked \in [Country -> BOOLEAN]
    /\ leads \in SUBSET Led
    /\ ok \in BOOLEAN
    /\ reply \in [Task -> Reply]

(* The process starts, with these rows kept of the one before. *)
StartsWith(kept) ==
    /\ cached = kept
    /\ age = [r \in Row |-> 0]
    /\ older = {}
    /\ refresher = [r \in Row |-> NoTask]
    /\ pc = [t \in Task |-> "out"]
    /\ \E r \in Row : row = [t \in Task |-> r]
    /\ force = [t \in Task |-> FALSE]
    /\ calls = [t \in Task |-> NoCalls]
    /\ permits = MaxPermits
    /\ orphans = 0
    /\ packages = [c \in Country |-> {}]
    /\ blocked = [c \in Country |-> FALSE]
    /\ leads \in SUBSET Led
    /\ ok = TRUE
    /\ reply = [t \in Task |-> NoReply]

FetchInit == StartsWith([r \in Row |-> "none"])

Gate == INSTANCE SingleFlight WITH Key <- Row

(* TtlCache::get *)
Fresh(r) == cached[r] # "none" /\ age[r] < Ttl
Stale(r) == cached[r] # "none" /\ age[r] >= Ttl

(* Where task t's row is asked: its services that the list names (code_in). *)
Carried(t, list) == RowServices[row[t]] \cap list

Asking(t) == {c \in Call : calls[t][c] = "asking"}

(* The calls that run as tasks of the aggregate's JoinSet. *)
Spawned(t) == IF row[t] \in Trending THEN Asking(t) \ {List} ELSE {}

(* A bug: a partial union counts as complete. *)
CompleteIfAny(body) == body # "none"

Complete(body) == body \in {"lead", "whole"}

-----------------------------------------------------------------------------
(* The steps of fetch_row.                                                 *)

(* fetch_row up to its first await: a fresh row is the answer. *)
FetchRow(t, r, f) ==
    /\ pc[t] = "out"
    /\ row' = [row EXCEPT ![t] = r]
    /\ force' = [force EXCEPT ![t] = f]
    /\ \/ /\ Fresh(r) /\ ~f
          /\ reply' = [reply EXCEPT ![t] = [body |-> cached[r], fresh |-> TRUE]]
          /\ UNCHANGED pc
       \/ /\ ~(Fresh(r) /\ ~f)
          /\ pc' = [pc EXCEPT ![t] = "waiting"]
          /\ reply' = [reply EXCEPT ![t] = NoReply]
    /\ UNCHANGED <<cacheVars, refresher, calls, permitVars, packageVars, leads, ok>>

(* metas_json while rows are kept ahead: an expired row is the answer. *)
ServeStale(t, r) ==
    /\ pc[t] = "out"
    /\ Stale(r)
    /\ row' = [row EXCEPT ![t] = r]
    /\ force' = [force EXCEPT ![t] = FALSE]
    /\ reply' = [reply EXCEPT ![t] = [body |-> cached[r], fresh |-> FALSE]]
    /\ UNCHANGED <<cacheVars, refresher, pc, calls, permitVars, packageVars, leads, ok>>

(* The gate is had, and the row was filled while the task waited for it. *)
FilledMeanwhile(t) ==
    /\ pc[t] = "waiting"
    /\ refresher[row[t]] = NoTask
    /\ Fresh(row[t]) /\ ~force[t]
    /\ reply' = [reply EXCEPT ![t] = [body |-> cached[row[t]], fresh |-> TRUE]]
    /\ pc' = [pc EXCEPT ![t] = "out"]
    /\ UNCHANGED <<cacheVars, refresher, row, force, calls, permitVars, packageVars, leads, ok>>

(* A bug: the cache is not read again once the gate is had. *)
LockUnchecked(t) ==
    /\ pc[t] = "waiting"
    /\ Gate!Start(t, row[t])
    /\ pc' = [pc EXCEPT ![t] = "resolving"]
    /\ UNCHANGED <<cacheVars, row, force, calls, reply, permitVars, packageVars, leads, ok>>

Lock(t) ==
    /\ pc[t] = "waiting"
    /\ ~(Fresh(row[t]) /\ ~force[t])
    /\ Gate!Start(t, row[t])
    /\ pc' = [pc EXCEPT ![t] = "resolving"]
    /\ UNCHANGED <<cacheVars, row, force, calls, reply, permitVars, packageVars, leads, ok>>

(* The end of a fetch: the task lets the gate go and answers. *)
Leave(t, answer) ==
    /\ Gate!Finish(row[t])
    /\ pc' = [pc EXCEPT ![t] = "out"]
    /\ calls' = [calls EXCEPT ![t] = NoCalls]
    /\ reply' = [reply EXCEPT ![t] = answer]
    /\ UNCHANGED <<row, force, leads>>

Store(t, body) ==
    /\ cached' = [cached EXCEPT ![row[t]] = body]
    /\ age' = [age EXCEPT ![row[t]] = 0]
    /\ older' = {qr \in older : row[t] \notin {qr[1], qr[2]}}
                   \cup {<<q, row[t]>> : q \in {r \in Row : cached[r] # "none"} \ {row[t]}}
    /\ ok' = TRUE
    /\ Leave(t, [body |-> body, fresh |-> TRUE])

(* A bug: a partial union is served over the row kept. *)
DegradeToPart(t, body) ==
    /\ ok' = FALSE
    /\ Leave(t, [body |-> IF body # "none" THEN body
                          ELSE IF cached[row[t]] # "none" THEN cached[row[t]] ELSE "empty",
                 fresh |-> FALSE])
    /\ UNCHANGED cacheVars

(* What is kept wins over a failed refresh or a partial union. *)
Degrade(t, body) ==
    /\ ok' = FALSE
    /\ Leave(t, [body |-> IF cached[row[t]] # "none" THEN cached[row[t]]
                          ELSE IF body = "none" THEN "empty" ELSE body,
                 fresh |-> FALSE])
    /\ UNCHANGED cacheVars

(* What upstream answered, led by Movie of the Night's list if it keeps one. *)
LedBy(t, heard) == IF row[t] \in leads /\ heard = "none" THEN "lead" ELSE heard

Answer(t, heard) ==
    \/ Complete(LedBy(t, heard))  /\ Store(t, LedBy(t, heard))
    \/ ~Complete(LedBy(t, heard)) /\ Degrade(t, LedBy(t, heard))

(* The country does not carry the service: the row is absent (404). *)
Absent(t) ==
    /\ Leave(t, [body |-> "absent", fresh |-> FALSE])
    /\ UNCHANGED <<cacheVars, ok>>

(* The services the country carries are asked; aggregate's lists are empty *)
(* where it carries none.                                                  *)
Ask(t, list) ==
    \/ /\ Carried(t, list) # {}
       /\ pc' = [pc EXCEPT ![t] = "calling"]
       /\ calls' = [calls EXCEPT ![t] =
                      [c \in Call |-> IF c \in Carried(t, list) THEN "queued" ELSE "none"]]
       /\ UNCHANGED <<cacheVars, refresher, row, force, reply, leads, ok>>
    \/ Carried(t, list) = {} /\ row[t] \in Trending /\ Answer(t, "none")
    \/ Carried(t, list) = {} /\ row[t] \notin Trending /\ Absent(t)

-----------------------------------------------------------------------------
(* packages_for.                                                           *)

ListKnown(t) ==
    /\ pc[t] = "resolving"
    /\ packages[RowCountry[row[t]]] # {}
    /\ Ask(t, packages[RowCountry[row[t]]])
    /\ UNCHANGED <<permitVars, packageVars>>

ListBlocked(t) ==
    /\ pc[t] = "resolving"
    /\ packages[RowCountry[row[t]]] = {}
    /\ blocked[RowCountry[row[t]]]
    /\ Answer(t, "none")
    /\ UNCHANGED <<permitVars, packageVars>>

LookUpList(t) ==
    /\ pc[t] = "resolving"
    /\ packages[RowCountry[row[t]]] = {}
    /\ ~blocked[RowCountry[row[t]]]
    /\ pc' = [pc EXCEPT ![t] = "listing"]
    /\ calls' = [calls EXCEPT ![t][List] = "queued"]
    /\ UNCHANGED <<cacheVars, refresher, row, force, reply, permitVars, packageVars, leads, ok>>

(* A bug: the lookup's permit is held while the services are asked. *)
ListArrivesHolding(t, list) ==
    /\ calls[t][List] = "asking"
    /\ \/ /\ list = {}
          /\ Answer(t, "none")
          /\ UNCHANGED packageVars
       \/ /\ list # {}
          /\ packages' = [packages EXCEPT ![RowCountry[row[t]]] = list]
          /\ blocked' = [blocked EXCEPT ![RowCountry[row[t]]] = FALSE]
          /\ Ask(t, list)
    /\ UNCHANGED permitVars

(* Another task may have asked as well: the last list to arrive is kept. *)
ListArrives(t, list) ==
    /\ calls[t][List] = "asking"
    /\ permits' = permits + 1
    /\ \/ /\ list = {}
          /\ Answer(t, "none")
          /\ UNCHANGED packageVars
       \/ /\ list # {}
          /\ packages' = [packages EXCEPT ![RowCountry[row[t]]] = list]
          /\ blocked' = [blocked EXCEPT ![RowCountry[row[t]]] = FALSE]
          /\ Ask(t, list)
    /\ UNCHANGED orphans

ListFails(t) ==
    /\ calls[t][List] = "asking"
    /\ permits' = permits + 1
    /\ blocked' = [blocked EXCEPT ![RowCountry[row[t]]] = TRUE]
    /\ Answer(t, "none")
    /\ UNCHANGED <<packages, orphans>>

-----------------------------------------------------------------------------
(* The calls upstream.                                                     *)

(* A bug: `let _permit = acquire()` asks whether it has a permit or not. *)
AskUncapped(t, c) ==
    /\ calls[t][c] = "queued"
    /\ permits' = IF permits > 0 THEN permits - 1 ELSE permits
    /\ calls' = [calls EXCEPT ![t][c] = "asking"]
    /\ UNCHANGED <<cacheVars, refresher, pc, row, force, reply, orphans, packageVars, leads, ok>>

AcquirePermit(t, c) ==
    /\ calls[t][c] = "queued"
    /\ permits > 0
    /\ permits' = permits - 1
    /\ calls' = [calls EXCEPT ![t][c] = "asking"]
    /\ UNCHANGED <<cacheVars, refresher, pc, row, force, reply, orphans, packageVars, leads, ok>>

CallEnds(t, s, end) ==
    /\ calls[t][s] = "asking"
    /\ permits' = permits + 1
    /\ calls' = [calls EXCEPT ![t][s] = end]
    /\ UNCHANGED <<cacheVars, refresher, pc, row, force, reply, orphans, packageVars, leads, ok>>

(* What the calls that were made came to. *)
Heard(t) == IF \E s \in Service : calls[t][s] = "answered"
              THEN IF \E s \in Service : calls[t][s] = "failed" THEN "part" ELSE "whole"
              ELSE "none"

AllEnded(t) ==
    /\ pc[t] = "calling"
    /\ \A s \in Service : calls[t][s] \notin {"queued", "asking"}
    /\ Answer(t, Heard(t))
    /\ UNCHANGED <<permitVars, packageVars>>

(* The request's connection closes at one of the awaits.  Its own call's   *)
(* permit goes with it; the aborted tasks of an aggregate drop theirs when *)
(* the runtime drops them.                                                 *)
Cancel(t) ==
    /\ pc[t] \in {"waiting", "listing", "calling"}
    /\ IF refresher[row[t]] = t THEN Gate!Finish(row[t]) ELSE UNCHANGED refresher
    /\ pc' = [pc EXCEPT ![t] = "out"]
    /\ calls' = [calls EXCEPT ![t] = NoCalls]
    /\ permits' = permits + Cardinality(Asking(t) \ Spawned(t))
    /\ orphans' = orphans + Cardinality(Spawned(t))
    /\ UNCHANGED <<cacheVars, row, force, reply, packageVars, leads, ok>>

OrphanDrops ==
    /\ orphans > 0
    /\ orphans' = orphans - 1
    /\ permits' = permits + 1
    /\ UNCHANGED <<cacheVars, refresher, requestVars, packageVars, leads, ok>>

-----------------------------------------------------------------------------
(* What happens around it.                                                 *)

(* Every row's age grows; FAILED_PACKAGES_TTL is far shorter than a row's. *)
TimePasses ==
    /\ \E r \in Row : cached[r] # "none" /\ age[r] < MaxAge
    /\ age' = [r \in Row |-> IF cached[r] # "none" /\ age[r] < MaxAge
                               THEN age[r] + 1 ELSE age[r]]
    /\ UNCHANGED <<cached, older, refresher, requestVars, permitVars, packageVars, leads, ok>>

BlockLapses(c) ==
    /\ blocked[c]
    /\ blocked' = [blocked EXCEPT ![c] = FALSE]
    /\ UNCHANGED <<cacheVars, refresher, requestVars, permitVars, packages, leads, ok>>

(* Movie of the Night's list for a row comes or goes. *)
LeadChanges(r) ==
    /\ leads' = IF r \in leads THEN leads \ {r} ELSE leads \cup {r}
    /\ UNCHANGED <<cacheVars, refresher, requestVars, permitVars, packageVars, ok>>

Around == \/ OrphanDrops \/ TimePasses
          \/ \E c \in Country : BlockLapses(c)
          \/ \E r \in Led : LeadChanges(r)

UpstreamAnswers(t) == \/ \E list \in PackageLists : ListArrives(t, list)
                      \/ \E s \in Service : CallEnds(t, s, "answered")
UpstreamFails(t)   == \/ ListFails(t)
                      \/ \E s \in Service : CallEnds(t, s, "failed")

Step(t) == \/ FilledMeanwhile(t) \/ Lock(t)
           \/ ListKnown(t) \/ ListBlocked(t) \/ LookUpList(t)
           \/ \E c \in Call : AcquirePermit(t, c)
           \/ UpstreamAnswers(t) \/ UpstreamFails(t)
           \/ AllEnded(t)

FetchNext == \/ Around
             \/ \E t \in Task : \/ \E r \in Row : \/ ServeStale(t, r)
                                                \/ \E f \in BOOLEAN : FetchRow(t, r, f)
                                \/ Step(t) \/ Cancel(t)

FetchSpec == FetchInit /\ [][FetchNext]_fetchVars

(* The runtime runs every ready task; tokio's mutex and semaphore serve    *)
(* their waiters in turn; the client ends every call within its timeout.   *)
TaskFairness(t) ==
    /\ SF_fetchVars(FilledMeanwhile(t) \/ Lock(t))
    /\ WF_fetchVars(ListKnown(t) \/ ListBlocked(t) \/ LookUpList(t))
    /\ \A c \in Call : SF_fetchVars(AcquirePermit(t, c))
    /\ WF_fetchVars(UpstreamAnswers(t) \/ UpstreamFails(t))
    /\ WF_fetchVars(AllEnded(t))

FetchFairness == WF_fetchVars(OrphanDrops) /\ \A t \in Task : TaskFairness(t)

FairFetchSpec == FetchSpec /\ FetchFairness

-----------------------------------------------------------------------------
(* The parts of the inductive invariant.                                   *)

Holding(t) == pc[t] \in {"resolving", "listing", "calling"}

(* A task past the gate holds it, and only such a task does. *)
HoldersRefresh ==
    /\ \A t \in Task : Holding(t) => refresher[row[t]] = t
    /\ \A r \in Row : refresher[r] # NoTask => Holding(refresher[r]) /\ row[refresher[r]] = r

(* A task has calls only where it makes them. *)
CallsInPlace == \A t \in Task :
    /\ pc[t] = "listing" => \A s \in Service : calls[t][s] = "none"
    /\ pc[t] = "calling" => calls[t][List] = "none"
    /\ pc[t] \notin {"listing", "calling"} => calls[t] = NoCalls

(* The calls upstream that are under way. *)
InFlight == {tc \in Task \X Call : calls[tc[1]][tc[2]] = "asking"}

(* Every permit is in the semaphore, with a call or with an orphan. *)
PermitsBalance == permits + Cardinality(InFlight) + orphans = MaxPermits

(* While an unforced fetch holds the gate nothing makes the row fresh, so  *)
(* no request spends calls on a row that is: a burst of requests for a     *)
(* cold row costs one refresh, whoever of them gave up meanwhile.          *)
NoFetchOverFresh == \A t \in Task : Holding(t) /\ ~force[t] => ~Fresh(row[t])

(* Only complete rows are kept, and a list alone only where one leads. *)
KeptComplete == \A r \in Row :
    cached[r] \in {"none", "whole"} \/ (cached[r] = "lead" /\ r \in Led)


-----------------------------------------------------------------------------
(* Properties.                                                             *)

(* Never more calls upstream than the ceiling (`upstream`: "what upstream  *)
(* cares about is the total, so that is what has to be capped"), dropped   *)
(* aggregates and their aborted calls included.                            *)
UpstreamCapped == Cardinality(InFlight) + orphans <= MaxPermits

(* A row that has no list to lead it, once kept whole, is kept whole: a    *)
(* refresh that fails or hears from some services only does not replace it *)
(* (src/src/cache.rs: "a JustWatch blip serves the last-good rows").       *)
LastGoodKept == [][\A r \in Row \ Led : cached[r] = "whole" => cached'[r] = "whole"]_fetchVars

(* A refresh of such a row that is answered while a whole one is kept.     *)
ServesGood == \A t \in Task :
    Holding(t) /\ row[t] \notin Led /\ cached[row[t]] = "whole" /\ reply'[t] # reply[t]
      => reply'[t].body \in {"whole", "absent"}

(* A task that comes away from a refresh of such a row while a whole one   *)
(* is kept answers with a whole one, however much upstream failed; with    *)
(* none only where the country's list lacks the service (fetch_row's       *)
(* `None => return None`).                                                 *)
LastGoodServed == [][ServesGood]_fetchVars

(* A row called fresh, which the handler lets clients keep, is whole. *)
FreshIsWhole == \A t \in Task : reply[t].fresh /\ row[t] \notin Led => reply[t].body = "whole"

(* The inductive invariant: the parts above, and what fresh means. *)
IInv == /\ TypeOK /\ HoldersRefresh /\ CallsInPlace /\ PermitsBalance
        /\ NoFetchOverFresh /\ KeptComplete /\ FreshIsWhole

(* Every fetch ends: no gate, permit or call leaves a task waiting for     *)
(* ever, and no set of tasks waits on one another.                         *)
FetchEnds == \A t \in Task : pc[t] # "out" ~> pc[t] = "out"

(* src/src/cache.rs: "an expired entry is kept until a successful refresh  *)
(* replaces it, so a JustWatch blip serves the last-good rows".            *)
BlipKeepsRow == [][\A r \in Row : cached[r] = "whole" => cached'[r] = "whole"]_fetchVars
=============================================================================
