-------------------------------- MODULE IndexLoad --------------------------------
(* The query indexes, loaded as atlas starts or by the first request that   *)
(* needs them (queries.rs), and the two holders a load waits for: the vote  *)
(* counts it copies, which boot awaits, and the character links, built while *)
(* atlas already listens.                                                   *)
(*                                                                          *)
(* A request may be dropped at any await.  What it had started on a blocking *)
(* thread runs on, its answer goes nowhere, and the lock is free.           *)
EXTENDS Naturals, SequencesExt

CONSTANTS
    Loader, AtStart,   \* requests, and the load atlas starts itself, which nobody drops
    NoIndex,
    MaxDrops, MaxBadLoads   \* bounds of the model

VARIABLES
    loaded,    \* NoIndex, or [votes |-> whether the counts were in]
    queue,     \* the callers waiting for `loading`, in turn; the first holds it
    caller,    \* where each of them is
    load,      \* each caller's load: "none", "started", "counts", "bare", "failed", "panicked"
    orphans,   \* loads whose caller is gone
    store_unusable,
    counts,    \* CACHE_DIR has counts, and they name a row of the store
    ratings,   \* Ratings: [index |-> "none", or who built it, settled]
    characters,   \* Characters: settled
    drops, badLoads

loadVars == <<loaded, queue, caller, load, orphans, store_unusable, counts, ratings, characters,
              drops, badLoads>>
inUse == <<loaded, store_unusable>>
boot   == <<counts, ratings, characters>>
bounds == <<drops, badLoads>>

Ended == {"counts", "bare", "failed", "panicked"}

LoadTypeOK ==
    /\ loaded \in {NoIndex} \cup [votes : BOOLEAN]
    /\ queue \in Seq(Loader)
    /\ caller \in [Loader -> {"off", "queued", "ratings", "links", "joining", "served", "refused"}]
    /\ load \in [Loader -> {"none", "started"} \cup Ended]
    /\ orphans \in Nat /\ store_unusable \in BOOLEAN
    /\ counts \in BOOLEAN /\ ratings \in [index : {"none", "boot", "refresh"}, settled : BOOLEAN]
    /\ characters \in BOOLEAN
    /\ drops \in Nat /\ badLoads \in Nat

LoadInit ==
    /\ loaded = NoIndex /\ queue = <<>> /\ orphans = 0 /\ store_unusable = FALSE
    /\ caller = [c \in Loader |-> "off"] /\ load = [c \in Loader |-> "none"]
    /\ counts \in BOOLEAN /\ ratings = [index |-> "none", settled |-> FALSE] /\ characters = FALSE
    /\ drops = 0 /\ badLoads = 0

-----------------------------------------------------------------------------
(* get(): the indexes in memory, or a place in the line for `loading`.     *)
Get(c) ==
    /\ caller[c] = "off"
    /\ IF loaded # NoIndex
       THEN caller' = [caller EXCEPT ![c] = "served"] /\ UNCHANGED queue
       ELSE caller' = [caller EXCEPT ![c] = "queued"] /\ queue' = Append(queue, c)
    /\ UNCHANGED <<load, orphans, inUse, boot, bounds>>

Holds(c) == queue # <<>> /\ Head(queue) = c

(* The call is over, and its lock or its place in the line free.           *)
Unlock(c, answer) ==
    /\ caller' = [caller EXCEPT ![c] = answer] /\ load' = [load EXCEPT ![c] = "none"]
    /\ \E i \in DOMAIN queue : queue[i] = c /\ queue' = RemoveAt(queue, i)

(* The second look, with `loading` held.                                   *)
Lock(c) ==
    /\ caller[c] = "queued" /\ Holds(c)
    /\ IF loaded # NoIndex
       THEN Unlock(c, "served")
       ELSE caller' = [caller EXCEPT ![c] = "ratings"] /\ UNCHANGED <<queue, load>>
    /\ UNCHANGED <<orphans, inUse, boot, bounds>>

(* A bug: the load does not wait for the counts.                           *)
StartEarly(c) ==
    /\ caller[c] = "ratings"
    /\ caller' = [caller EXCEPT ![c] = "links"] /\ load' = [load EXCEPT ![c] = "started"]
    /\ UNCHANGED <<queue, orphans, inUse, boot, bounds>>

(* Once the counts have settled the load starts on a blocking thread ...   *)
Start(c) ==
    /\ caller[c] = "ratings" /\ ratings.settled
    /\ caller' = [caller EXCEPT ![c] = "links"] /\ load' = [load EXCEPT ![c] = "started"]
    /\ UNCHANGED <<queue, orphans, inUse, boot, bounds>>

(* ... while its caller waits for the links.                               *)
LinksSettled(c) ==
    /\ caller[c] = "links" /\ characters
    /\ caller' = [caller EXCEPT ![c] = "joining"]
    /\ UNCHANGED <<queue, load, orphans, inUse, boot, bounds>>

(* load(): from one look at the counts.  A store that does not read fails  *)
(* it, and a part that panics takes it along.                              *)
LoadEnds(c) ==
    /\ load[c] = "started"
    /\ \/ load' = [load EXCEPT ![c] = IF ratings.index = "none" THEN "bare" ELSE "counts"] /\ UNCHANGED badLoads
       \/ /\ badLoads < MaxBadLoads /\ badLoads' = badLoads + 1
          /\ \E bad \in {"failed", "panicked"} : load' = [load EXCEPT ![c] = bad]
    /\ UNCHANGED <<queue, caller, orphans, inUse, boot, drops>>

OrphanEnds ==
    /\ orphans > 0 /\ orphans' = orphans - 1
    /\ UNCHANGED <<queue, caller, load, inUse, boot, bounds>>

(* A failed load is noted before its caller is refused, a panicked one not. *)
Join(c) ==
    /\ caller[c] = "joining" /\ load[c] \in Ended
    /\ store_unusable' = IF load[c] = "panicked" THEN store_unusable ELSE load[c] = "failed"
    /\ IF load[c] \in {"failed", "panicked"}
       THEN Unlock(c, "refused") /\ UNCHANGED loaded
       ELSE Unlock(c, "served") /\ loaded' = [votes |-> load[c] = "counts"]
    /\ UNCHANGED <<orphans, boot, bounds>>

(* A bug: the lock outlives its holder.                                    *)
DropHolding(c) ==
    /\ c # AtStart /\ caller[c] \notin {"off", "served", "refused"}
    /\ drops < MaxDrops /\ drops' = drops + 1
    /\ caller' = [caller EXCEPT ![c] = "off"] /\ load' = [load EXCEPT ![c] = "none"]
    /\ orphans' = IF load[c] = "started" THEN orphans + 1 ELSE orphans
    /\ UNCHANGED <<queue, inUse, boot, badLoads>>

(* The request goes away at an await.                                      *)
Drop(c) ==
    /\ c # AtStart /\ caller[c] \notin {"off", "served", "refused"}
    /\ drops < MaxDrops /\ drops' = drops + 1
    /\ Unlock(c, "off")
    /\ orphans' = IF load[c] = "started" THEN orphans + 1 ELSE orphans
    /\ UNCHANGED <<inUse, boot, badLoads>>

AskAgain(c) ==
    /\ c # AtStart /\ caller[c] \in {"served", "refused"}
    /\ caller' = [caller EXCEPT ![c] = "off"]
    /\ UNCHANGED <<queue, load, orphans, inUse, boot, bounds>>

-----------------------------------------------------------------------------
(* Boot awaits the counts and settles them whatever the build brought ...   *)
VotesSettle ==
    /\ ~ ratings.settled
    /\ ratings' = [index |-> IF counts THEN "boot" ELSE "none", settled |-> TRUE]
    /\ UNCHANGED <<queue, caller, load, orphans, inUse, counts, characters, bounds>>

(* ... then starts the links, which settle likewise.                       *)
CharactersSettle ==
    /\ ratings.settled /\ ~ characters /\ characters' = TRUE
    /\ UNCHANGED <<queue, caller, load, orphans, inUse, counts, ratings, bounds>>

(* A day's refresh brings counts where there were none.                    *)
RefreshLands ==
    /\ characters /\ ratings.index = "none"
    /\ ratings' = [ratings EXCEPT !.index = "refresh"]
    /\ UNCHANGED <<queue, caller, load, orphans, inUse, counts, characters, bounds>>

CallerStep(c) == Lock(c) \/ Start(c) \/ LinksSettled(c) \/ LoadEnds(c) \/ Join(c)

LoadNext ==
    \/ \E c \in Loader : Get(c) \/ CallerStep(c) \/ Drop(c) \/ AskAgain(c)
    \/ OrphanEnds \/ VotesSettle \/ CharactersSettle \/ RefreshLands

(* The runtime runs what it can; nothing makes a request come or go.       *)
LoadFairness == /\ WF_loadVars(VotesSettle) /\ WF_loadVars(CharactersSettle)
                /\ \A c \in Loader : WF_loadVars(CallerStep(c))

LoadSpec == LoadInit /\ [][LoadNext]_loadVars /\ LoadFairness

-----------------------------------------------------------------------------
(* "concurrent first queries wait for one load instead of each starting     *)
(* their own": but for dropped requests, one load runs.                     *)
OneLoad == \A c, d \in Loader : load[c] # "none" /\ load[d] # "none" => c = d

(* "it cannot START before the counts are in: a copy taken before would     *)
(* rank every title at 0 votes until the next restart".                     *)
CountsCopied == loaded # NoIndex /\ ratings.index = "boot" => loaded.votes

(* "Nothing gets these indexes before they have landed".                   *)
NobodyBeforeLinks == loaded # NoIndex \/ (\E c \in Loader : caller[c] = "served") => characters

(* An index in use never comes with a health reason of the load before it. *)
HealthyOnceLoaded == loaded # NoIndex => ~ store_unusable

(* Whoever asks, is dropped or fails, while the parts of boot settle.       *)
LoadInv == LoadTypeOK /\ OneLoad /\ CountsCopied /\ NobodyBeforeLinks /\ HealthyOnceLoaded

-----------------------------------------------------------------------------
(* The inductive invariant behind LoadInv.                                  *)

InCall == {"queued", "ratings", "links", "joining"}

(* Whoever calls is in the line once, and first once past the lock, with no *)
(* indexes there yet; only behind the lock is there a load.                *)
LockKept ==
    /\ IsInjective(queue)
    /\ \A c \in Loader : c \in ToSet(queue) <=> caller[c] \in InCall
    /\ \A c \in Loader : caller[c] \in InCall \ {"queued"} => Head(queue) = c /\ loaded = NoIndex
    /\ \A c \in Loader : load[c] # "none" => caller[c] \in {"links", "joining"}

(* What has settled by the time a call gets there.                          *)
SettledBefore ==
    /\ \A c \in Loader : /\ caller[c] \in {"links", "joining"} => ratings.settled
                         /\ caller[c] = "joining" => characters
    /\ characters \/ loaded # NoIndex \/ ratings.index # "none" => ratings.settled

(* A load without counts ended while there were none, and those of a later  *)
(* day are a refresh's.                                                     *)
BareWithoutBoot == \A c \in Loader : load[c] = "bare" => ratings.index # "boot"

LoadIInv == LoadInv /\ LockKept /\ SettledBefore /\ BareWithoutBoot

(* A request that asks for the indexes is answered, whoever is dropped and  *)
(* whatever fails.                                                          *)
IsAnswered(c) == caller[c] = "queued" ~> caller[c] \in {"off", "served", "refused"}
=============================================================================
