------------------------------- MODULE EmbedProxy -------------------------------
(* How den-atlas asks the embedding service (src/src/main.rs EmbedProxy, and *)
(* its callers in src/src/handler.rs): a few permits with a bounded wait, the *)
(* readiness of an engine in the process, and what a search is answered with  *)
(* when no vector came.                                                       *)
(*                                                                            *)
(* A job is one call: a request's own, or one spawned for it that outlives it  *)
(* (the early embedding of a search's whole text, or a warm-up).  A text is    *)
(* known by whose words it is.  The service itself is EmbedService, the memo's *)
(* file EmbedMemo, the classes' queues AdmissionGate.                         *)
EXTENDS Naturals, FiniteSets, SequencesExt

CONSTANTS
    Post,      \* requests for POST /embed
    Search,    \* for query.json, facets.json and search.json
    Rank,      \* for /recommend, which embeds a library in one batch
    Permits,   \* MAX_EMBED_INFLIGHT
    Bodies,    \* ATLAS_BODY_JOBS
    Cpus       \* ATLAS_CPU_JOBS

Request  == Post \cup Search \cup Rank
Early(r) == <<"early", r>>
Job      == Request \cup {Early(r) : r \in Search \cup Rank}

(* A request is of one kind, and is no job spawned for another.              *)
ASSUME ProxyAssumption ==
    /\ Post \cap Search = {} /\ Post \cap Rank = {} /\ Search \cap Rank = {}
    /\ \A r \in Search \cup Rank : Early(r) \notin Request

VARIABLES
    readiness,
    at,              \* where each request is
    bodies, cpus,    \* the requests with a body permit, and with a cpu permit
    job, text,       \* what each job is at, and the text it embeds
    line,            \* the jobs waiting for a permit, in turn
    memo,            \* the texts with a remembered vector
    strict,          \* the searches of search.json, which need a vector
    wants,           \* embed_text: the words of a search that want a vector
    rankedBy, age    \* the text whose vector ranked it, and how long it may be kept

proxyVars == <<readiness, at, bodies, cpus, job, text, line, memo, strict, wants, rankedBy, age>>
jobs      == <<job, text, line, memo>>
answers   == <<strict, wants, rankedBy, age>>

(* A request is over when it is answered, or refused or left by its client.  *)
Over == {"answered", "ended"}

ProxyTypeOK ==
    /\ readiness \in {"checking", "ready", "failed"}
    /\ at \in [Request -> {"off", "body", "index", "early", "embed", "admit", "lists",
                           "work", "left"} \cup Over]
    /\ bodies \subseteq Post \cup Rank /\ cpus \subseteq Search \cup Rank
    /\ job \in [Job -> {"off", "spawned", "queued", "calling", "vector", "failed"}]
    /\ text \in [Job -> {"none", "whole", "rest", "title", "warm", "body"}]
    /\ line \in Seq(Job) /\ memo \subseteq {"whole", "rest", "title"}
    /\ strict \subseteq Search /\ wants \in [Search -> {"none", "whole", "rest"}]
    /\ rankedBy \in [Search -> {"none", "whole", "rest"}]
    /\ age \in [Search -> {"none", "short", "long"}]

(* An external service is ready from the start; one in the process is checked *)
(* first, or failed at once where its identity is not the dataset's.          *)
ProxyInit ==
    /\ readiness \in {"checking", "ready", "failed"}
    /\ at = [r \in Request |-> "off"] /\ bodies = {} /\ cpus = {}
    /\ job = [j \in Job |-> "off"] /\ text = [j \in Job |-> "none"]
    /\ line = <<>> /\ memo = {}
    /\ strict = {} /\ wants = [r \in Search |-> "none"]
    /\ rankedBy = [r \in Search |-> "none"] /\ age = [r \in Search |-> "none"]

(* The canary's outcome; it takes no permit and is not tried again.          *)
Canary ==
    /\ readiness = "checking" /\ readiness' \in {"ready", "failed"}
    /\ UNCHANGED <<at, bodies, cpus, jobs, answers>>

Goes(r, place) == at' = [at EXCEPT ![r] = place]

Calling == {j \in Job : job[j] = "calling"}

(* A job takes its place behind those that wait.                             *)
Queue(j, words) ==
    /\ job' = [job EXCEPT ![j] = "queued"] /\ text' = [text EXCEPT ![j] = words]
    /\ line' = Append(line, j) /\ UNCHANGED memo

Forget(j) == job' = [job EXCEPT ![j] = "off"] /\ text' = [text EXCEPT ![j] = "none"]

Leave(j) == \E i \in DOMAIN line : line[i] = j /\ line' = RemoveAt(line, i)

-----------------------------------------------------------------------------
(* body_bytes_held(): a body is read under a permit of its class.            *)
TakeBody(r) ==
    /\ at[r] = "off" /\ r \in Post \cup Rank
    /\ \/ Cardinality(bodies) < Bodies /\ Goes(r, "body") /\ bodies' = bodies \cup {r}
       \/ Cardinality(bodies) = Bodies /\ Goes(r, "ended") /\ UNCHANGED bodies
    /\ UNCHANGED <<readiness, cpus, jobs, answers>>

BodyRead(r) ==
    /\ at[r] = "body"
    /\ IF r \in Post THEN Goes(r, "embed") /\ Queue(r, "body")
       ELSE Goes(r, "index") /\ UNCHANGED jobs
    /\ UNCHANGED <<readiness, bodies, cpus, answers>>

(* Too large, or not in time.                                                *)
BodyFails(r) ==
    /\ at[r] = "body" /\ Goes(r, "ended") /\ bodies' = bodies \ {r}
    /\ UNCHANGED <<readiness, cpus, jobs, answers>>

(* A search comes; the whole text of query.json goes to be embedded at once. *)
ArriveSearch(r) ==
    /\ at[r] = "off" /\ r \in Search /\ Goes(r, "index")
    /\ \/ strict' = strict \cup {r} /\ UNCHANGED <<job, text>>
       \/ UNCHANGED <<strict, job, text>>
       \/ /\ job' = [job EXCEPT ![Early(r)] = "spawned"]
          /\ text' = [text EXCEPT ![Early(r)] = "whole"] /\ UNCHANGED strict
    /\ UNCHANGED <<readiness, bodies, cpus, line, memo, wants, rankedBy, age>>

(* GET /recommend has no body.                                               *)
ArriveRank(r) ==
    /\ at[r] = "off" /\ r \in Rank /\ Goes(r, "index")
    /\ UNCHANGED <<readiness, bodies, cpus, jobs, answers>>

(* A request that begins the load of the indexes wakes the service.          *)
Warm(r) ==
    /\ at[r] = "index" /\ job[Early(r)] = "off"
    /\ job' = [job EXCEPT ![Early(r)] = "spawned"]
    /\ text' = [text EXCEPT ![Early(r)] = "warm"]
    /\ UNCHANGED <<readiness, at, bodies, cpus, line, memo, answers>>

IndexFails(r) ==
    /\ at[r] = "index" /\ Goes(r, "ended") /\ bodies' = bodies \ {r}
    /\ UNCHANGED <<readiness, cpus, jobs, answers>>

RankIndexed(r) ==
    /\ at[r] = "index" /\ r \in Rank /\ Goes(r, "admit")
    /\ UNCHANGED <<readiness, bodies, cpus, jobs, answers>>

(* embed_query(): from the memo, or by a call.                               *)
EmbedQuery(r, words) ==
    /\ Goes(r, "embed")
    /\ IF words \in memo
       THEN /\ job' = [job EXCEPT ![r] = "vector"] /\ text' = [text EXCEPT ![r] = words]
            /\ UNCHANGED <<line, memo>>
       ELSE Queue(r, words)

(* query_answer(): a search without a vector is kept for five minutes where   *)
(* the engine was there to be asked, else as long as the dataset's answers.   *)
Flag(r, by, words) ==
    /\ Goes(r, "admit") /\ rankedBy' = [rankedBy EXCEPT ![r] = by]
    /\ age' = [age EXCEPT ![r] =
           IF by = "none" /\ words # "none" /\ readiness = "ready" THEN "short" ELSE "long"]

(* A bug: the early vector is taken whatever the words are.                  *)
WordsEarly(r, words) ==
    /\ at[r] = "index" /\ r \in Search \ strict /\ wants' = [wants EXCEPT ![r] = words]
    /\ IF words # "none" /\ text[Early(r)] = "whole"
       THEN Goes(r, "early") /\ UNCHANGED <<jobs, rankedBy, age>>
       ELSE Flag(r, "none", words) /\ UNCHANGED jobs
    /\ UNCHANGED <<readiness, bodies, cpus, strict>>

(* The words of a search that want a vector are all of its text, as the early *)
(* embedding took it, or what nothing else explains, or none.                *)
Words(r, words) ==
    /\ at[r] = "index" /\ r \in Search \ strict /\ wants' = [wants EXCEPT ![r] = words]
    /\ IF words = "whole" /\ text[Early(r)] = "whole"
       THEN Goes(r, "early") /\ UNCHANGED <<jobs, rankedBy, age>>
       ELSE IF words # "none" /\ readiness = "ready"
       THEN EmbedQuery(r, words) /\ UNCHANGED <<rankedBy, age>>
       ELSE Flag(r, "none", words) /\ UNCHANGED jobs
    /\ UNCHANGED <<readiness, bodies, cpus, strict>>

(* search_answer() asks whether or not the engine is ready.                  *)
AskStrictly(r) ==
    /\ at[r] = "index" /\ r \in strict
    /\ wants' = [wants EXCEPT ![r] = "whole"] /\ EmbedQuery(r, "whole")
    /\ UNCHANGED <<readiness, bodies, cpus, strict, rankedBy, age>>

EarlyHeard(r) ==
    /\ at[r] = "early" /\ job[Early(r)] \in {"vector", "failed"}
    /\ Flag(r, IF job[Early(r)] = "vector" THEN "whole" ELSE "none", wants[r])
    /\ UNCHANGED <<readiness, bodies, cpus, jobs, strict, wants>>

(* A request hears of its own call.  Nothing but /embed and search.json fails *)
(* for want of a vector.                                                     *)
Heard(r) ==
    /\ at[r] = "embed" /\ job[r] \in {"vector", "failed"} /\ bodies' = bodies \ {r}
    /\ IF r \in Search \ strict
       THEN Flag(r, IF job[r] = "vector" THEN text[r] ELSE "none", wants[r])
       ELSE /\ Goes(r, IF r \in Rank THEN "lists"
                       ELSE IF job[r] = "failed" THEN "ended"
                       ELSE IF r \in Post THEN "answered" ELSE "admit")
            /\ rankedBy' = IF r \in strict /\ job[r] = "vector"
                           THEN [rankedBy EXCEPT ![r] = text[r]] ELSE rankedBy
            /\ age' = IF r \in strict THEN [age EXCEPT ![r] = "long"] ELSE age
    /\ Forget(r) /\ UNCHANGED <<readiness, cpus, line, memo, strict, wants>>

-----------------------------------------------------------------------------
(* A cpu permit: a search ranks with it; a recommendation has it before its   *)
(* library is embedded, and gives its body's back.                           *)
Admit(r) ==
    /\ at[r] = "admit" /\ Cardinality(cpus) < Cpus
    /\ cpus' = cpus \cup {r} /\ bodies' = bodies \ {r}
    /\ IF r \in Search THEN Goes(r, "work") /\ UNCHANGED jobs
       ELSE IF "title" \in memo \/ readiness # "ready" THEN Goes(r, "lists") /\ UNCHANGED jobs
       ELSE Goes(r, "embed") /\ Queue(r, "title")
    /\ UNCHANGED <<readiness, answers>>

Overloaded(r) ==
    /\ at[r] = "admit" /\ Cardinality(cpus) = Cpus
    /\ Goes(r, "ended") /\ bodies' = bodies \ {r}
    /\ UNCHANGED <<readiness, cpus, jobs, answers>>

Listed(r) ==
    /\ at[r] = "lists" /\ Goes(r, "work")
    /\ UNCHANGED <<readiness, bodies, cpus, jobs, answers>>

(* The blocking job ends, which outlives its request.                        *)
Worked(r) ==
    /\ at[r] \in {"work", "left"} /\ cpus' = cpus \ {r}
    /\ Goes(r, IF at[r] = "work" THEN "answered" ELSE "ended")
    /\ UNCHANGED <<readiness, bodies, jobs, answers>>

(* The client goes: the request is dropped with its own call and its permits; *)
(* what was spawned for it runs on.                                          *)
Drop(r) ==
    /\ at[r] \notin Over \cup {"off", "left"}
    /\ IF at[r] = "work" THEN Goes(r, "left") /\ UNCHANGED <<bodies, cpus, job, text, line>>
       ELSE /\ Goes(r, "ended") /\ bodies' = bodies \ {r} /\ cpus' = cpus \ {r}
            /\ Forget(r) /\ IF job[r] = "queued" THEN Leave(r) ELSE UNCHANGED line
    /\ UNCHANGED <<readiness, memo, answers>>

-----------------------------------------------------------------------------
(* A spawned call begins; a warm-up does not look in the memo.               *)
Begins(j) ==
    /\ job[j] = "spawned"
    /\ IF text[j] \in memo
       THEN job' = [job EXCEPT ![j] = "vector"] /\ UNCHANGED <<text, line, memo>>
       ELSE Queue(j, text[j])
    /\ UNCHANGED <<readiness, at, bodies, cpus, answers>>

(* The first in line has a permit and calls, if the engine is ready.         *)
TakePermit(j) ==
    /\ line # <<>> /\ Head(line) = j /\ Cardinality(Calling) < Permits
    /\ line' = Tail(line) /\ bodies' = bodies \ {j}
    /\ job' = [job EXCEPT ![j] = IF readiness = "ready" THEN "calling" ELSE "failed"]
    /\ UNCHANGED <<readiness, at, cpus, text, memo, answers>>

(* EMBED_WAIT passed without a permit.                                       *)
Busy(j) ==
    /\ job[j] = "queued" /\ Leave(j) /\ job' = [job EXCEPT ![j] = "failed"]
    /\ UNCHANGED <<readiness, at, bodies, cpus, text, memo, answers>>

(* A vector comes; one of the dataset's width is remembered.                 *)
Answered(j) ==
    /\ job[j] = "calling" /\ job' = [job EXCEPT ![j] = "vector"]
    /\ \/ text[j] \in {"whole", "rest", "title"} /\ memo' = memo \cup {text[j]}
       \/ UNCHANGED memo
    /\ UNCHANGED <<readiness, at, bodies, cpus, text, line, answers>>

(* An error, a refusal, an unreadable body, or EMBED_CALL_TIMEOUT.           *)
CallFails(j) ==
    /\ job[j] = "calling" /\ job' = [job EXCEPT ![j] = "failed"]
    /\ UNCHANGED <<readiness, at, bodies, cpus, text, line, memo, answers>>

RequestStep(r) ==
    \/ TakeBody(r) \/ BodyRead(r) \/ BodyFails(r) \/ ArriveSearch(r) \/ ArriveRank(r)
    \/ IndexFails(r) \/ RankIndexed(r) \/ AskStrictly(r) \/ Heard(r)
    \/ Admit(r) \/ Overloaded(r) \/ Listed(r) \/ Worked(r) \/ Drop(r)

SearchStep(r) == EarlyHeard(r) \/ \E words \in {"none", "whole", "rest"} : Words(r, words)

JobStep(j) == Begins(j) \/ TakePermit(j) \/ Busy(j) \/ Answered(j) \/ CallFails(j)

ProxyNext ==
    \/ Canary
    \/ \E r \in Request : RequestStep(r)
    \/ \E r \in Search : SearchStep(r)
    \/ \E r \in Search \cup Rank : Warm(r)
    \/ \E j \in Job : JobStep(j)

ProxySpec == ProxyInit /\ [][ProxyNext]_proxyVars

-----------------------------------------------------------------------------
(* A body read for /embed waits for the service only under a permit of its   *)
(* class, so bodies never pile up in front of the four permits.              *)
BodiesHeld == \A p \in Post : job[p] = "queued" => p \in bodies

(* A recommendation is admitted before it costs the service anything.        *)
RankReserved == \A r \in Rank : job[r] \in {"queued", "calling"} => r \in cpus

(* What a search is ranked by is the vector of its own words, whichever of    *)
(* its two calls came first.                                                 *)
OwnWords == \A r \in Search : rankedBy[r] \in {"none", wants[r]}

InLineOnce == IsInjective(line) /\ \A j \in Job : j \in ToSet(line) <=> job[j] = "queued"

(* No request that is over waits for a permit or keeps one of any kind, and   *)
(* whoever waits is in line once.                                            *)
NothingLeft ==
    /\ \A r \in Request : at[r] \in Over =>
           job[r] \notin {"queued", "calling"} /\ r \notin bodies \cup cpus
    /\ InLineOnce

ProxyInv == ProxyTypeOK /\ BodiesHeld /\ RankReserved /\ OwnWords /\ NothingLeft

-----------------------------------------------------------------------------
(* The inductive invariant behind ProxyInv.                                   *)

(* A request makes a call of its own while it waits for a vector, and only    *)
(* then; a search's is for the words it wants.                               *)
OwnCalls == \A r \in Request :
    /\ job[r] # "spawned"
    /\ job[r] # "off" <=> at[r] = "embed"
    /\ at[r] = "embed" /\ r \in Search => text[r] = wants[r]

(* The call spawned for a request comes after it, and a search waits for it   *)
(* only where it wants its whole text.                                       *)
EarlyCalls ==
    /\ \A r \in Search \cup Rank : at[r] = "off" => job[Early(r)] = "off"
    /\ \A r \in Search : at[r] = "early" => wants[r] = "whole"

(* Where a request keeps a body permit, and where a cpu permit.              *)
PermitsKept ==
    /\ \A r \in bodies : at[r] \in {"body", "index", "embed", "admit"}
    /\ \A r \in Request : at[r] = "body" => r \in bodies
    /\ \A r \in cpus : at[r] \in {"lists", "work", "left"} \/ (r \in Rank /\ at[r] = "embed")
    /\ \A r \in Rank : at[r] = "embed" => r \in cpus
    /\ \A r \in Post : at[r] # "admit"

(* A search has nothing to be ranked by before it has its words.             *)
RankedLast == \A r \in Search : at[r] \in {"off", "index", "early", "embed"} => rankedBy[r] = "none"

ProxyIInv ==
    /\ ProxyTypeOK /\ BodiesHeld /\ OwnWords /\ InLineOnce
    /\ OwnCalls /\ EarlyCalls /\ PermitsKept /\ RankedLast

-----------------------------------------------------------------------------
(* handler.rs: "A search that should have been ranked through den-embed and   *)
(* wasn't is the exception: it stays short, so the ranked answer replaces it  *)
(* once den-embed is back."                                                  *)
UnrankedStaysShort ==
    readiness = "ready" =>
        \A r \in Search : at[r] = "answered" /\ wants[r] # "none" /\ rankedBy[r] = "none"
            => age[r] = "short"
=============================================================================
