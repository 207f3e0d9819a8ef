------------------------------ MODULE EmbedService ------------------------------
(* The embedding service (embed/src/lib.rs): requests pass one permit on to  *)
(* the blocking jobs that do their work, a job loads the model when it is    *)
(* not resident, and a task drops it once it was idle.                       *)
(*                                                                          *)
(* A request may be dropped at any await; its job then runs on, with the     *)
(* permit.  A batch takes two jobs: the first counts tokens, the second      *)
(* embeds.  What is done under the model's lock is one step.                 *)
EXTENDS Naturals, FiniteSets, SequencesExt

CONSTANTS
    Asker, Batch,      \* the requests, and those for several texts
    Text, TextsOf,       \* the texts of each
    Nobody,
    CacheMax,
    Idle                 \* how long until an unused model is dropped

(* An empty batch is answered; a single request has its one text.           *)
ASSUME EmbedAssumption ==
    /\ Nobody \notin Asker /\ Idle \in Nat
    /\ TextsOf \in [Asker -> Seq(Text)] /\ \A r \in Asker \ Batch : TextsOf[r] # <<>>

VARIABLES
    at,            \* where each request is
    counted,       \* the batches whose tokens are counted
    line, holder,  \* the requests waiting for the permit, in turn, and whose job has it
    job, done,     \* what each request's job is at, and how many texts it has vectors of
    cached,        \* the texts with a kept vector
    model,         \* resident
    idle,          \* time since last_used_ms, up to Idle
    look,          \* the unloader: "asleep", or what it has read
    load_failing,
    attempt        \* history: how the last load went

embedVars == <<at, counted, line, holder, job, done, cached, model, idle, look, load_failing, attempt>>
turns  == <<line, holder>>
work   == <<job, done, cached>>
memory == <<model, idle, look>>
health == <<load_failing, attempt>>

EmbedTypeOK ==
    /\ at \in [Asker -> {"off", "waiting", "running", "admitted", "noting", "answered", "refused"}]
    /\ counted \subseteq Batch
    /\ line \in Seq(Asker) /\ holder \in Asker \cup {Nobody}
    /\ job \in [Asker -> {"none", "counting", "loading", "embedding", "inferring"}]
    /\ done \in [Asker -> Nat] /\ cached \subseteq Text
    /\ model \in BOOLEAN /\ idle \in 0..Idle /\ look \in {"asleep", "due", "fresh"}
    /\ load_failing \in BOOLEAN /\ attempt \in {"none", "loaded", "failed", "unheard"}

EmbedInit ==
    /\ at = [r \in Asker |-> "off"] /\ counted = {} /\ line = <<>> /\ holder = Nobody
    /\ job = [r \in Asker |-> "none"] /\ done = [r \in Asker |-> 0] /\ cached = {}
    /\ model = FALSE /\ idle = 0 /\ look = "asleep"
    /\ load_failing = FALSE /\ attempt = "none"

-----------------------------------------------------------------------------
(* run_blocking(): a place in the line for the permit, again for the        *)
(* embedding of a batch.                                                    *)
Ask(r) ==
    /\ job[r] = "none" /\ at[r] \in {"off", "answered", "refused", "admitted"}
    /\ counted' = IF at[r] = "admitted" THEN counted \cup {r} ELSE counted \ {r}
    /\ at' = [at EXCEPT ![r] = "waiting"] /\ line' = Append(line, r)
    /\ UNCHANGED <<holder, work, memory, health>>

(* More tokens than a request may cost.                                    *)
TooLarge(r) ==
    /\ at[r] = "admitted" /\ at' = [at EXCEPT ![r] = "refused"]
    /\ UNCHANGED <<counted, turns, work, memory, health>>

Leave(r) == \E i \in DOMAIN line : line[i] = r /\ line' = RemoveAt(line, i)

TakePermit(r) ==
    /\ line # <<>> /\ Head(line) = r /\ holder = Nobody
    /\ line' = Tail(line) /\ holder' = r /\ at' = [at EXCEPT ![r] = "running"]
    /\ job' = [job EXCEPT ![r] = IF r \in Batch \ counted THEN "counting" ELSE "embedding"]
    /\ done' = [done EXCEPT ![r] = 0]
    /\ UNCHANGED <<counted, cached, memory, health>>

(* Two seconds without the permit.                                         *)
Busy(r) ==
    /\ at[r] = "waiting" /\ at' = [at EXCEPT ![r] = "refused"] /\ Leave(r)
    /\ UNCHANGED <<counted, holder, work, memory, health>>

Unheard(r) == attempt' = IF at[r] = "noting" /\ attempt = "failed" THEN "unheard" ELSE attempt

(* A bug: the permit belongs to the request.                               *)
CancelReleases(r) ==
    /\ at[r] \in {"waiting", "running", "admitted", "noting"}
    /\ at' = [at EXCEPT ![r] = "off"] /\ Unheard(r)
    /\ IF at[r] = "waiting" THEN Leave(r) ELSE UNCHANGED line
    /\ holder' = IF holder = r THEN Nobody ELSE holder
    /\ UNCHANGED <<counted, work, memory, load_failing>>

Cancel(r) ==
    /\ at[r] \in {"waiting", "running", "admitted", "noting"}
    /\ at' = [at EXCEPT ![r] = "off"] /\ Unheard(r)
    /\ IF at[r] = "waiting" THEN Leave(r) ELSE UNCHANGED line
    /\ UNCHANGED <<counted, holder, work, memory, load_failing>>

-----------------------------------------------------------------------------
(* The job is over, and the permit free before its request goes on.        *)
End(r, outcome) ==
    /\ job' = [job EXCEPT ![r] = "none"] /\ holder' = Nobody
    /\ at' = IF at[r] = "running" THEN [at EXCEPT ![r] = outcome] ELSE at

(* cached_batch(): a batch that needs no model is answered.                *)
Count(r) ==
    /\ job[r] = "counting"
    /\ IF \A i \in DOMAIN TextsOf[r] : TextsOf[r][i] \in cached
       THEN End(r, "answered")
       ELSE job' = [job EXCEPT ![r] = "loading"] /\ UNCHANGED <<at, holder>>
    /\ UNCHANGED <<counted, line, done, cached, memory, health>>

(* ensure_loaded()                                                         *)
Loaded ==
    /\ model' = TRUE
    /\ IF model THEN UNCHANGED health ELSE load_failing' = FALSE /\ attempt' = "loaded"

LoadFails(r) ==
    /\ ~ model /\ UNCHANGED <<memory, load_failing>>
    /\ attempt' = IF at[r] = "running" THEN "failed" ELSE "unheard"
    /\ End(r, "noting")

(* A tokenizer, or an inference, that fails or panics.                      *)
Fails(r) == Loaded /\ End(r, "refused") /\ UNCHANGED <<idle, look, done, cached>>

(* tokenize_batch(), which uses the model and leaves last_used_ms alone.    *)
CountTokens(r) ==
    /\ job[r] = "loading"
    /\ \/ Loaded /\ End(r, "admitted") /\ UNCHANGED <<idle, look, done, cached>>
       \/ LoadFails(r) /\ UNCHANGED <<done, cached>>
       \/ Fails(r)
    /\ UNCHANGED <<counted, line>>

NextText(r) == TextsOf[r][done[r] + 1]

(* One more vector, the last of which answers.                             *)
Advance(r) ==
    /\ done' = [done EXCEPT ![r] = @ + 1]
    /\ IF done[r] + 1 = Len(TextsOf[r])
       THEN End(r, "answered")
       ELSE job' = [job EXCEPT ![r] = "embedding"] /\ UNCHANGED <<at, holder>>

(* embed_one(): a kept vector needs no model.                              *)
Embed(r) ==
    /\ job[r] = "embedding"
    /\ IF NextText(r) \in cached
       THEN Advance(r)
       ELSE job' = [job EXCEPT ![r] = "inferring"] /\ UNCHANGED <<at, holder, done>>
    /\ UNCHANGED <<counted, line, cached, memory, health>>

(* infer(), infer_tokens(), and the vector kept (module EmbedCache says     *)
(* which one it replaces).                                                 *)
Infer(r) ==
    /\ job[r] = "inferring"
    /\ \/ /\ Loaded /\ idle' = 0 /\ UNCHANGED look
          /\ IF Cardinality(cached) < CacheMax
             THEN cached' = cached \cup {NextText(r)}
             ELSE \E gone \in cached : cached' = (cached \ {gone}) \cup {NextText(r)}
          /\ Advance(r)
       \/ LoadFails(r) /\ UNCHANGED <<done, cached>>
       \/ Fails(r)
    /\ UNCHANGED <<counted, line>>

(* internal(): the request of a load that failed says so to /health.        *)
NoteFailure(r) ==
    /\ at[r] = "noting" /\ at' = [at EXCEPT ![r] = "refused"]
    /\ load_failing' = TRUE
    /\ UNCHANGED <<counted, turns, work, memory, attempt>>

-----------------------------------------------------------------------------
Tick == idle < Idle /\ idle' = idle + 1
        /\ UNCHANGED <<at, counted, turns, work, model, look, health>>

(* The unloader reads the time of the last use, then waits for the lock.    *)
LookIdle ==
    /\ look = "asleep" /\ look' = IF idle = Idle THEN "due" ELSE "fresh"
    /\ UNCHANGED <<at, counted, turns, work, model, idle, health>>

(* A bug: a model that has not embedded anything yet is not idle.          *)
UnloadUsed ==
    /\ look # "asleep" /\ look' = "asleep"
    /\ model' = (model /\ (look = "fresh" \/ cached = {}))
    /\ UNCHANGED <<at, counted, turns, work, idle, health>>

Unload ==
    /\ look # "asleep" /\ look' = "asleep"
    /\ model' = (model /\ look = "fresh")
    /\ UNCHANGED <<at, counted, turns, work, idle, health>>

JobStep(r) == Count(r) \/ CountTokens(r) \/ Embed(r) \/ Infer(r)

EmbedNext ==
    \/ \E r \in Asker : Ask(r) \/ TooLarge(r) \/ TakePermit(r) \/ Busy(r) \/ Cancel(r) \/ JobStep(r) \/ NoteFailure(r)
    \/ Tick \/ LookIdle \/ Unload

(* Blocking threads run on, and the unloader's timer; time passes.         *)
EmbedFairness ==
    /\ \A r \in Asker : WF_embedVars(JobStep(r))
    /\ WF_embedVars(Tick) /\ WF_embedVars(LookIdle) /\ WF_embedVars(Unload)

EmbedSpec == EmbedInit /\ [][EmbedNext]_embedVars /\ EmbedFairness

-----------------------------------------------------------------------------
(* "One expensive tokenizer/model job at a time ... cancelling or timing    *)
(* out the async HTTP request cannot release capacity while CPU work is     *)
(* still running".                                                         *)
OneJob == \A r, q \in Asker : job[r] # "none" /\ job[q] # "none" => r = q

Misses(r) == \E i \in DOMAIN TextsOf[r] : TextsOf[r][i] \notin cached

(* The model is loaded for a text nobody has the vector of, and never by a   *)
(* batch whose vectors are all kept.                                       *)
LoadsForAMiss == ~ model /\ model' => \E r \in Asker :
    /\ job[r] # "none"
    /\ Misses(r)

(* A failed load shows in /health once its request was told, and goes on to  *)
(* show until a load succeeds.                                              *)
FailureShown == attempt = "failed" /\ (\A r \in Asker : at[r] # "noting") => load_failing

(* Whoever leaves and whatever fails or is dropped, at every step.          *)
WorkKept == [][OneJob' /\ FailureShown' /\ LoadsForAMiss]_embedVars

-----------------------------------------------------------------------------
(* The inductive invariant behind WorkKept.                                 *)

(* Who waits is in line, once, and whose job works has the permit.          *)
PermitKept ==
    /\ IsInjective(line)
    /\ \A r \in Asker : r \in ToSet(line) <=> at[r] = "waiting"
    /\ \A r \in Asker : job[r] # "none" <=> holder = r

(* A failed load nobody was told of yet has a request about to be told.     *)
FailureOwed == attempt = "failed" => load_failing \/ \E r \in Asker : at[r] = "noting"

(* The model is needed where it is about to be used: the vectors have not   *)
(* changed since the job looked.                                           *)
NeedsModel == \A r \in Asker :
    /\ job[r] = "loading" => Misses(r)
    /\ job[r] \in {"embedding", "inferring"} => done[r] < Len(TextsOf[r])
    /\ job[r] = "inferring" => NextText(r) \notin cached
    /\ at[r] = "admitted" \/ r \in counted => TextsOf[r] # <<>>
    /\ at[r] = "admitted" \/ job[r] \in {"counting", "loading"} => r \in Batch

EmbedIInv == EmbedTypeOK /\ PermitKept /\ FailureOwed /\ NeedsModel

(* Once nobody embeds, the model does not stay resident.                    *)
IdleFreed == model ~> ~ model \/ holder # Nobody
=============================================================================
