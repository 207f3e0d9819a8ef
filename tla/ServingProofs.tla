------------------------------ MODULE ServingProofs ------------------------------
(***************************************************************************)
(* Of what requests wait for.  For every set of clients and every grace: a *)
(* stop grants the grace and no more (Drain).  For every set of callers: no *)
(* index serves before its counts and links are in, and one load runs at a *)
(* time (IndexLoad).  For every set of requests and texts: one job at a    *)
(* time has the model, which is loaded for a text nobody has the vector of, *)
(* and a failed load shows (EmbedService).  For every capacity: the columns *)
(* of vectors implement a cache that evicts by recency (EmbedCache).       *)
(***************************************************************************)
EXTENDS Drain, IndexLoad, EmbedService, EmbedCache, CommonTheorems

-----------------------------------------------------------------------------
(* Drain.                                                                  *)

LEMMA InitDrain == DrainInit => DrainIInv
BY GraceAssumption DEF DrainInit, DrainIInv, DrainTypeOK, GraceKept, CutOnlyLate, ExitsInGrace,
                       GoneInGrace

(* Leaving main cuts what is open, after the grace or where nothing is.    *)
LEMMA NextDrain == DrainIInv /\ [DrainNext]_drainVars => DrainIInv'
<1> SUFFICES ASSUME DrainIInv, [DrainNext]_drainVars
             PROVE  DrainIInv'
  OBVIOUS
<1> USE GraceAssumption
        DEF DrainIInv, DrainTypeOK, GraceKept, CutOnlyLate, ExitsInGrace, GoneInGrace, watch, time
<1>1. ASSUME NEW c \in Client, Accept(c) \/ Close(c) \/ Reuse(c) \/ ThreadEnds(c)
      PROVE  DrainIInv'
  BY <1>1 DEF Accept, Close, Reuse, ThreadEnds
<1>2. CASE First \/ Rearm
  BY <1>2 DEF First, Rearm
<1>3. CASE Second \/ ServeFails \/ Returned
  BY <1>3 DEF Second, ServeFails, Returned, Gone, Cut
<1>4. CASE Drained \/ Deadline
  <2>1. process = "up" /\ signals = "first" /\ LeaveMain /\ UNCHANGED <<returns, watch, time>>
        /\ (clock = Grace \/ \A c \in Client : request[c] # "open")
    BY <1>4 DEF Drained, Deadline
  <2>2. /\ request' \in [Client -> {"none", "open", "done", "cut"}]
        /\ \A c \in Client : /\ request'[c] # "open"
                             /\ request'[c] = "cut" => request[c] = "open"
    BY <2>1 DEF LeaveMain, Gone, Cut
  <2>3. CASE returns /\ process' = "returning" /\ thread' = thread /\ code' = code
    BY <2>1, <2>2, <2>3
  <2>4. CASE ~ returns /\ process' = "gone" /\ code' = 0 /\ thread' = [c \in Client |-> FALSE]
    BY <2>1, <2>2, <2>4
  <2> QED BY <2>1, <2>3, <2>4 DEF LeaveMain, Gone
<1>5. CASE ClockTicks
  BY <1>5 DEF ClockTicks, TimePasses
<1>6. CASE UNCHANGED drainVars
  BY <1>6 DEF drainVars
<1> QED BY <1>1, <1>2, <1>3, <1>4, <1>5, <1>6 DEF DrainNext

(* serve_until: "the clock starts when the signal ARRIVES": whatever the   *)
(* clients, the threads and the signals do, no request is cut before the   *)
(* grace is over, and den-embed does not outlast it.                       *)
THEOREM DrainKeepsGrace == DrainSpec => []GraceKept
<1>1. DrainIInv => GraceKept
  BY DEF DrainIInv
<1> QED BY <1>1, InitDrain, NextDrain, PTL DEF DrainSpec

-----------------------------------------------------------------------------
(* IndexLoad.                                                              *)

LEMMA InitLoad == LoadInit => LoadIInv
<1> SUFFICES ASSUME LoadInit PROVE LoadIInv
  OBVIOUS
<1>0. <<>> \in Seq(Loader)
  OBVIOUS
<1>1. IsInjective(<<>>) /\ ToSet(<<>>) = {} /\ <<>> \in Seq(Loader)
  BY <1>0, HeadOfQueue
<1>2. LockKept
  BY <1>1 DEF LoadInit, LockKept, InCall
<1>3. LoadTypeOK
  BY <1>1 DEF LoadInit, LoadTypeOK
<1> QED BY <1>2, <1>3 DEF LoadInit, LoadIInv, LoadInv, OneLoad, CountsCopied, NobodyBeforeLinks,
                          HealthyOnceLoaded, SettledBefore, BareWithoutBoot

(* One load runs, since it runs behind the lock. *)
LEMMA LockIsOneLoad == (LockKept => OneLoad) /\ (LockKept' => OneLoad')
BY DEF LockKept, OneLoad, InCall

(* Who goes was in the line, and leaves the others' order as it was.       *)
LEMMA UnlockKeeps ==
    ASSUME LoadTypeOK, LockKept, NEW c \in Loader, NEW outcome \in {"off", "served", "refused"},
           Unlock(c, outcome), caller[c] = "queued" => loaded' = loaded
    PROVE  /\ queue' \in Seq(Loader)
           /\ caller' \in [Loader -> {"off", "queued", "ratings", "links", "joining", "served", "refused"}]
           /\ load' \in [Loader -> {"none", "started"} \cup Ended]
           /\ LockKept'
<1>1. PICK i \in DOMAIN queue : queue[i] = c /\ queue' = RemoveAt(queue, i)
  BY DEF Unlock
<1>2. /\ queue' \in Seq(Loader) /\ IsInjective(queue') /\ ToSet(queue') = ToSet(queue) \ {c}
      /\ c # Head(queue) => Head(queue') = Head(queue)
  BY <1>1, RemoveFromQueue DEF LoadTypeOK, LockKept
<1>3. /\ caller' = [caller EXCEPT ![c] = outcome] /\ load' = [load EXCEPT ![c] = "none"]
      /\ caller \in [Loader -> {"off", "queued", "ratings", "links", "joining", "served", "refused"}]
      /\ load \in [Loader -> {"none", "started"} \cup Ended]
  BY DEF Unlock, LoadTypeOK
<1>4. ASSUME NEW d \in Loader
      PROVE  /\ d \in ToSet(queue') <=> caller'[d] \in InCall
             /\ caller'[d] \in InCall \ {"queued"} => Head(queue') = d /\ loaded' = NoIndex
             /\ load'[d] # "none" => caller'[d] \in {"links", "joining"}
  <2>1. CASE d = c
    BY <1>2, <1>3, <2>1 DEF InCall
  <2>2. CASE d # c
    <3>1. caller'[d] = caller[d] /\ load'[d] = load[d]
      BY <1>3, <2>2
    <3>2. c \in ToSet(queue)
      BY <1>1 DEF ToSet
    <3> QED BY <1>2, <2>2, <3>1, <3>2 DEF LockKept, InCall
  <2> QED BY <2>1, <2>2
<1> QED BY <1>2, <1>3, <1>4 DEF LockKept

LEMMA NextLoad == LoadIInv /\ [LoadNext]_loadVars => LoadIInv'
<1> SUFFICES ASSUME LoadIInv, [LoadNext]_loadVars
             PROVE  LoadIInv'
  OBVIOUS
<1> USE DEF LoadIInv, LoadInv, LoadTypeOK, CountsCopied, NobodyBeforeLinks, HealthyOnceLoaded,
            SettledBefore, BareWithoutBoot, inUse, boot, bounds
<1>1. LockKept /\ LoadTypeOK
  OBVIOUS
<1>2. ASSUME NEW c \in Loader, Get(c)
      PROVE  LoadIInv'
  <2>1. CASE loaded # NoIndex
    <3>1. LockKept'
      BY <1>2, <2>1 DEF Get, LockKept, InCall
    <3> QED BY <1>2, <2>1, <3>1, LockIsOneLoad DEF Get
  <2>2. CASE loaded = NoIndex
    <3>1. caller' = [caller EXCEPT ![c] = "queued"] /\ queue' = Append(queue, c)
          /\ UNCHANGED <<load, orphans, inUse, boot, bounds>>
      BY <1>2, <2>2 DEF Get
    <3>2. c \notin ToSet(queue)
      BY <1>2 DEF Get, LockKept, InCall
    <3>3. /\ queue' \in Seq(Loader) /\ IsInjective(queue') /\ ToSet(queue') = ToSet(queue) \cup {c}
          /\ queue # <<>> => Head(queue') = Head(queue)
      BY <3>1, <3>2, AppendToQueue DEF LockKept
    <3>4. ASSUME NEW d \in Loader
          PROVE  /\ d \in ToSet(queue') <=> caller'[d] \in InCall
                 /\ caller'[d] \in InCall \ {"queued"} => Head(queue') = d /\ loaded' = NoIndex
                 /\ load'[d] # "none" => caller'[d] \in {"links", "joining"}
      <4>1. CASE d = c
        BY <1>2, <3>1, <3>3, <4>1 DEF Get, InCall, LockKept
      <4>2. CASE d # c
        <5>1. caller[d] \in InCall => queue # <<>>
          BY HeadOfQueue DEF LockKept
        <5> QED BY <3>1, <3>3, <4>2, <5>1 DEF InCall, LockKept
      <4> QED BY <4>1, <4>2
    <3>5. LockKept'
      BY <3>3, <3>4 DEF LockKept
    <3> QED BY <3>1, <3>3, <3>5, LockIsOneLoad
  <2> QED BY <2>1, <2>2
<1>3. ASSUME NEW c \in Loader, Lock(c)
      PROVE  LoadIInv'
  <2>1. CASE loaded # NoIndex
    <3>1. Unlock(c, "served") /\ UNCHANGED <<orphans, inUse, boot, bounds>>
      BY <1>3, <2>1 DEF Lock
    <3>2. /\ queue' \in Seq(Loader)
          /\ caller' \in [Loader -> {"off", "queued", "ratings", "links", "joining", "served", "refused"}]
          /\ load' \in [Loader -> {"none", "started"} \cup Ended] /\ LockKept'
      BY <1>1, <3>1, UnlockKeeps
    <3> QED BY <2>1, <3>1, <3>2, LockIsOneLoad DEF Unlock
  <2>2. CASE loaded = NoIndex
    <3>1. LockKept'
      BY <1>3, <2>2 DEF Lock, Holds, LockKept, InCall
    <3> QED BY <1>3, <2>2, <3>1, LockIsOneLoad DEF Lock
  <2> QED BY <2>1, <2>2
<1>4. ASSUME NEW c \in Loader, Start(c)
      PROVE  LoadIInv'
  <2>1. LockKept'
    BY <1>4 DEF Start, LockKept, InCall
  <2> QED BY <1>4, <2>1, LockIsOneLoad DEF Start
<1>5. ASSUME NEW c \in Loader, LinksSettled(c)
      PROVE  LoadIInv'
  <2>1. LockKept'
    BY <1>5 DEF LinksSettled, LockKept, InCall
  <2> QED BY <1>5, <2>1, LockIsOneLoad DEF LinksSettled
<1>6. ASSUME NEW c \in Loader, LoadEnds(c)
      PROVE  LoadIInv'
  <2>1. PICK end \in Ended : load' = [load EXCEPT ![c] = end] /\ (end = "bare" => ratings.index = "none")
    BY <1>6 DEF LoadEnds, Ended
  <2>2. LockKept'
    BY <1>6, <2>1 DEF LoadEnds, LockKept, InCall, Ended
  <2>3. badLoads' \in Nat
    BY <1>6 DEF LoadEnds
  <2> QED BY <1>6, <2>1, <2>2, <2>3, LockIsOneLoad DEF LoadEnds, Ended
<1>7. ASSUME NEW c \in Loader, Join(c)
      PROVE  LoadIInv'
  <2>1. PICK outcome \in {"served", "refused"} :
           /\ Unlock(c, outcome)
           /\ \/ outcome = "refused" /\ loaded' = loaded
              \/ outcome = "served" /\ load[c] \in {"counts", "bare"}
                 /\ loaded' = [votes |-> load[c] = "counts"]
    BY <1>7 DEF Join, Ended
  <2>2. caller[c] = "joining" /\ UNCHANGED <<orphans, boot, bounds>>
        /\ store_unusable' = IF load[c] = "panicked" THEN store_unusable ELSE load[c] = "failed"
    BY <1>7 DEF Join
  <2>3. /\ queue' \in Seq(Loader)
        /\ caller' \in [Loader -> {"off", "queued", "ratings", "links", "joining", "served", "refused"}]
        /\ load' \in [Loader -> {"none", "started"} \cup Ended] /\ LockKept'
    BY <1>1, <2>1, <2>2, UnlockKeeps
  <2>4. caller' = [caller EXCEPT ![c] = outcome] /\ load' = [load EXCEPT ![c] = "none"]
    BY <2>1 DEF Unlock
  <2>5. ratings.settled /\ characters /\ loaded = NoIndex
    <3>1. ratings.settled /\ characters
      <4>1. SettledBefore
        OBVIOUS
      <4> QED BY <2>2, <4>1, Zenon
    <3>2. loaded = NoIndex
      BY <1>1, <2>2, Zenon DEF LockKept, InCall
    <3> QED BY <3>1, <3>2
  <2>6. loaded' \in {NoIndex} \cup [votes : BOOLEAN] /\ store_unusable' \in BOOLEAN
    <3>1. (load[c] = "counts") \in BOOLEAN /\ (load[c] = "failed") \in BOOLEAN
      OBVIOUS
    <3>2. loaded' \in {NoIndex} \cup [votes : BOOLEAN]
      <4>1. [votes |-> load[c] = "counts"] \in [votes : BOOLEAN]
        BY <3>1, Zenon
      <4> QED BY <2>1, <4>1
    <3>3. store_unusable' \in BOOLEAN
      BY <2>2, <3>1
    <3> QED BY <3>2, <3>3
  <2>7. CASE outcome = "refused"
    <3>1. CountsCopied' /\ HealthyOnceLoaded'
      BY <2>1, <2>2, <2>5, <2>7
    <3> QED BY <2>2, <2>3, <2>4, <2>5, <2>6, <2>7, <3>1, LockIsOneLoad
  <2>8. CASE outcome = "served"
    <3>1. load[c] \in {"counts", "bare"} /\ loaded'.votes = (load[c] = "counts")
      BY <2>1, <2>8
    <3>2. CountsCopied'
      BY <2>2, <3>1
    <3>3. HealthyOnceLoaded'
      BY <2>2, <3>1
    <3> QED BY <2>2, <2>3, <2>4, <2>5, <2>6, <2>8, <3>2, <3>3, LockIsOneLoad
  <2> QED BY <2>7, <2>8
<1>8. ASSUME NEW c \in Loader, Drop(c)
      PROVE  LoadIInv'
  <2>1. Unlock(c, "off") /\ UNCHANGED <<inUse, boot, badLoads>>
    BY <1>8 DEF Drop
  <2>2. /\ queue' \in Seq(Loader)
        /\ caller' \in [Loader -> {"off", "queued", "ratings", "links", "joining", "served", "refused"}]
        /\ load' \in [Loader -> {"none", "started"} \cup Ended] /\ LockKept'
    BY <1>1, <2>1, UnlockKeeps
  <2>3. orphans' \in Nat /\ drops' \in Nat
    BY <1>8 DEF Drop
  <2> QED BY <2>1, <2>2, <2>3, LockIsOneLoad DEF Unlock
<1>9. ASSUME NEW c \in Loader, AskAgain(c)
      PROVE  LoadIInv'
  <2>1. LockKept'
    BY <1>9 DEF AskAgain, LockKept, InCall
  <2> QED BY <1>9, <2>1, LockIsOneLoad DEF AskAgain
<1>10. CASE OrphanEnds \/ VotesSettle \/ CharactersSettle \/ RefreshLands \/ UNCHANGED loadVars
  <2>1. UNCHANGED <<queue, caller, load, loaded, store_unusable>>
    BY <1>10 DEF OrphanEnds, VotesSettle, CharactersSettle, RefreshLands, loadVars
  <2>2. LockKept' /\ OneLoad'
    BY <2>1, LockIsOneLoad DEF LockKept
  <2>3. CASE OrphanEnds \/ UNCHANGED loadVars
    BY <2>1, <2>2, <2>3 DEF OrphanEnds, loadVars
  <2>4. CASE VotesSettle
    <3>1. /\ ~ ratings.settled /\ UNCHANGED <<orphans, counts, characters, bounds>>
          /\ ratings'.settled = TRUE /\ ratings'.index \in {"none", "boot"}
          /\ ratings' \in [index : {"none", "boot", "refresh"}, settled : BOOLEAN]
      BY <2>4 DEF VotesSettle
    <3>2. loaded = NoIndex /\ ~ characters
      BY <3>1
    <3>3. \A c \in Loader : load[c] = "none"
      BY <1>1, <3>1 DEF LockKept
    <3> QED BY <2>1, <2>2, <3>1, <3>2, <3>3
  <2>5. CASE CharactersSettle
    BY <2>1, <2>2, <2>5 DEF CharactersSettle
  <2>6. CASE RefreshLands
    BY <2>1, <2>2, <2>6 DEF RefreshLands
  <2> QED BY <1>10, <2>3, <2>4, <2>5, <2>6
<1> QED BY <1>2, <1>3, <1>4, <1>5, <1>6, <1>7, <1>8, <1>9, <1>10 DEF LoadNext, CallerStep

(* get(): one load at a time, started once the counts are in; no index    *)
(* serves before its links, without the counts there were, or with the     *)
(* health reason of a load that failed, whoever is dropped meanwhile.      *)
THEOREM LoadsSettle == LoadSpec => []LoadInv
<1>1. LoadIInv => LoadInv
  BY DEF LoadIInv
<1> QED BY <1>1, InitLoad, NextLoad, PTL DEF LoadSpec

-----------------------------------------------------------------------------
(* EmbedService.                                                           *)

LEMMA TextsOfAsker ==
    ASSUME NEW r \in Asker
    PROVE  TextsOf[r] \in Seq(Text) /\ Len(TextsOf[r]) \in Nat
BY EmbedAssumption

LEMMA InitEmbed == EmbedInit => EmbedIInv
<1> SUFFICES ASSUME EmbedInit PROVE EmbedIInv
  OBVIOUS
<1>1. <<>> \in Seq(Asker)
  OBVIOUS
<1>2. IsInjective(<<>>) /\ ToSet(<<>>) = {}
  BY <1>1, HeadOfQueue
<1>3. EmbedTypeOK
  <2>1. /\ at = [r \in Asker |-> "off"] /\ job = [r \in Asker |-> "none"]
        /\ done = [r \in Asker |-> 0]
    BY DEF EmbedInit
  <2>2. idle \in 0..Idle
    BY EmbedAssumption DEF EmbedInit
  <2>3. line \in Seq(Asker) /\ holder = Nobody /\ model = FALSE /\ load_failing = FALSE
        /\ counted = {} /\ cached = {} /\ look = "asleep" /\ attempt = "none"
    BY <1>1 DEF EmbedInit
  <2>4. /\ at \in [Asker -> {"off", "waiting", "running", "admitted", "noting", "answered", "refused"}]
    BY <2>1
  <2>5.   job \in [Asker -> {"none", "counting", "loading", "embedding", "inferring"}]
    BY <2>1
  <2>6. done \in [Asker -> Nat]
    BY <2>1
  <2> QED BY <2>4, <2>5, <2>6, <2>2, <2>3 DEF EmbedTypeOK
<1>4. PermitKept
  BY <1>2, EmbedAssumption DEF EmbedInit, PermitKept
<1> QED BY <1>3, <1>4 DEF EmbedInit, EmbedIInv, FailureOwed, NeedsModel

(* Whose job ends gives the permit back, and then no job works.            *)
LEMMA EndKeeps ==
    ASSUME EmbedTypeOK, PermitKept, NEW r \in Asker, job[r] # "none", line' = line,
           NEW outcome \in {"admitted", "noting", "answered", "refused"}, End(r, outcome)
    PROVE  /\ at' \in [Asker -> {"off", "waiting", "running", "admitted", "noting", "answered", "refused"}]
           /\ job' = [q \in Asker |-> "none"] /\ holder' = Nobody /\ PermitKept'
           /\ \A q \in Asker : at'[q] = IF q = r /\ at[r] = "running" THEN outcome ELSE at[q]
<1>1. /\ at' \in [Asker -> {"off", "waiting", "running", "admitted", "noting", "answered", "refused"}]
      /\ \A q \in Asker : at'[q] = IF q = r /\ at[r] = "running" THEN outcome ELSE at[q]
  BY DEF End, EmbedTypeOK
<1>2. job' = [q \in Asker |-> "none"] /\ holder' = Nobody
  BY DEF End, EmbedTypeOK, PermitKept
<1>3. PermitKept'
  BY <1>1, <1>2, EmbedAssumption DEF PermitKept
<1> QED BY <1>1, <1>2, <1>3

(* Who goes was waiting, and leaves the others in line.                     *)
LEMMA LeaveKeeps ==
    ASSUME EmbedTypeOK, PermitKept, NEW r \in Asker, at[r] = "waiting", Leave(r)
    PROVE  line' \in Seq(Asker) /\ IsInjective(line') /\ ToSet(line') = ToSet(line) \ {r}
<1>1. PICK i \in DOMAIN line : line[i] = r /\ line' = RemoveAt(line, i)
  BY DEF Leave
<1> QED BY <1>1, RemoveFromQueue DEF EmbedTypeOK, PermitKept

(* Requests come, wait and go.                                              *)
LEMMA AskerKeeps ==
    ASSUME EmbedIInv, NEW r \in Asker, Ask(r) \/ TooLarge(r) \/ Busy(r) \/ Cancel(r) \/ NoteFailure(r)
    PROVE  EmbedIInv' /\ model' = model
<1> USE DEF EmbedIInv, EmbedTypeOK, turns, work, memory, health
<1>1. EmbedTypeOK /\ PermitKept /\ FailureOwed /\ NeedsModel
  OBVIOUS
<1>2. CASE Ask(r)
  <2>1. /\ at[r] \notin {"waiting", "running", "noting"} /\ job[r] = "none"
        /\ at' = [at EXCEPT ![r] = "waiting"] /\ line' = Append(line, r)
        /\ counted' = IF at[r] = "admitted" THEN counted \cup {r} ELSE counted \ {r}
        /\ UNCHANGED <<holder, work, memory, health>>
    BY <1>2 DEF Ask
  <2>2. line' \in Seq(Asker) /\ IsInjective(line') /\ ToSet(line') = ToSet(line) \cup {r}
    BY <2>1, AppendToQueue DEF PermitKept
  <2>3. PermitKept'
    BY <2>1, <2>2 DEF PermitKept
  <2>4. FailureOwed' /\ NeedsModel'
    BY <2>1 DEF FailureOwed, NeedsModel, Misses, NextText
  <2>5. counted' \subseteq Batch
    BY <1>1, <2>1 DEF NeedsModel
  <2> QED BY <2>1, <2>2, <2>3, <2>4, <2>5
<1>3. CASE TooLarge(r) \/ NoteFailure(r)
  <2>1. /\ at[r] \in {"admitted", "noting"} /\ at' = [at EXCEPT ![r] = "refused"]
        /\ at[r] = "noting" => load_failing'
        /\ at[r] = "admitted" => load_failing' = load_failing
        /\ load_failing' \in BOOLEAN
        /\ UNCHANGED <<counted, turns, work, memory, attempt>>
    BY <1>3 DEF TooLarge, NoteFailure
  <2>2. PermitKept'
    BY <2>1 DEF PermitKept
  <2>3. FailureOwed' /\ NeedsModel'
    BY <2>1 DEF FailureOwed, NeedsModel, Misses, NextText
  <2> QED BY <2>1, <2>2, <2>3
<1>4. CASE Busy(r) \/ Cancel(r)
  <2>1. /\ at[r] \in {"waiting", "running", "admitted", "noting"}
        /\ at' \in {[at EXCEPT ![r] = "refused"], [at EXCEPT ![r] = "off"]}
        /\ IF at[r] = "waiting" THEN Leave(r) ELSE UNCHANGED line
        /\ UNCHANGED <<counted, holder, work, memory, load_failing>>
    BY <1>4 DEF Busy, Cancel
  <2>2. /\ attempt' \in {"none", "loaded", "failed", "unheard"}
        /\ attempt' = "failed" => attempt = "failed" /\ at[r] # "noting"
    BY <1>4 DEF Busy, Cancel, Unheard
  <2>3. /\ line' \in Seq(Asker) /\ IsInjective(line')
        /\ ToSet(line') = IF at[r] = "waiting" THEN ToSet(line) \ {r} ELSE ToSet(line)
    BY <1>1, <2>1, LeaveKeeps DEF PermitKept
  <2>4. PermitKept'
    BY <2>1, <2>3 DEF PermitKept
  <2>5. FailureOwed'
    BY <2>1, <2>2 DEF FailureOwed
  <2>6. NeedsModel'
    BY <2>1 DEF NeedsModel, Misses, NextText
  <2> QED BY <2>1, <2>2, <2>3, <2>4, <2>5, <2>6
<1> QED BY <1>2, <1>3, <1>4

(* The first in line gets the permit once no job has it.                    *)
LEMMA TakeKeeps ==
    ASSUME EmbedIInv, NEW r \in Asker, TakePermit(r)
    PROVE  EmbedIInv' /\ model' = model
<1> USE DEF EmbedIInv, EmbedTypeOK, memory, health
<1>1. /\ line # <<>> /\ Head(line) = r /\ holder = Nobody
      /\ line' = Tail(line) /\ holder' = r /\ at' = [at EXCEPT ![r] = "running"]
      /\ job' = [job EXCEPT ![r] = IF r \in Batch \ counted THEN "counting" ELSE "embedding"]
      /\ done' = [done EXCEPT ![r] = 0]
      /\ UNCHANGED <<counted, cached, memory, health>>
  BY DEF TakePermit
<1>2. line' \in Seq(Asker) /\ IsInjective(line') /\ ToSet(line') = ToSet(line) \ {r}
  BY <1>1, TailOfQueue DEF PermitKept
<1>3. at[r] = "waiting"
  BY <1>1, HeadOfQueue DEF PermitKept
<1>4. \A q \in Asker : job[q] = "none"
  BY <1>1, EmbedAssumption DEF PermitKept
<1>5. PermitKept'
  BY <1>1, <1>2, <1>3, <1>4 DEF PermitKept
<1>6. FailureOwed'
  BY <1>1, <1>3 DEF FailureOwed
<1>7. job'[r] = "embedding" => 0 < Len(TextsOf[r])
  BY <1>1, TextsOfAsker, EmbedAssumption DEF NeedsModel
<1>8. NeedsModel'
  BY <1>1, <1>3, <1>4, <1>7 DEF NeedsModel
<1> QED BY <1>1, <1>2, <1>5, <1>6, <1>8

(* Time passes, and the unloader looks or drops the model.                  *)
LEMMA UnloadKeeps ==
    ASSUME EmbedIInv, Tick \/ LookIdle \/ Unload \/ UNCHANGED embedVars
    PROVE  EmbedIInv' /\ (model' => model)
<1> USE EmbedAssumption DEF EmbedIInv, EmbedTypeOK, turns, work, memory, health
<1>1. /\ UNCHANGED <<at, counted, turns, work, health>>
      /\ model' \in BOOLEAN
      /\ model' => model
      /\ idle' \in 0..Idle /\ look' \in {"asleep", "due", "fresh"}
  <2>1. /\ UNCHANGED <<at, counted, turns, work, health>>
        /\ idle' \in 0..Idle /\ look' \in {"asleep", "due", "fresh"}
    BY DEF Tick, LookIdle, Unload, embedVars
  <2>2. model \in BOOLEAN
    OBVIOUS
  <2>3. CASE Unload
    <3>1. model' = (model /\ look = "fresh")
      BY <2>3 DEF Unload
    <3>2. model' = model \/ model' = FALSE
      BY <2>2, <3>1
    <3>3. model' \in BOOLEAN /\ (model' => model)
      <4>1. CASE model' = model
        BY <2>2, <4>1
      <4>2. CASE model' = FALSE
        BY <4>2
      <4> QED BY <3>2, <4>1, <4>2
    <3> QED BY <2>1, <3>3
  <2>4. model' = model => model' \in BOOLEAN /\ (model' => model)
    BY <2>2
  <2>5. Tick \/ LookIdle \/ UNCHANGED embedVars => model' = model
    BY DEF Tick, LookIdle, embedVars
  <2> QED BY <2>1, <2>3, <2>4, <2>5
<1>2. EmbedTypeOK'
  <2>1. EmbedTypeOK
    OBVIOUS
  <2>2. /\ at' \in [Asker -> {"off", "waiting", "running", "admitted", "noting", "answered", "refused"}]
        /\ job' \in [Asker -> {"none", "counting", "loading", "embedding", "inferring"}]
        /\ done' \in [Asker -> Nat]
    BY <1>1, <2>1
  <2>3. line' \in Seq(Asker) /\ holder' \in Asker \cup {Nobody} /\ counted' \subseteq Batch /\ cached' \subseteq Text
    BY <1>1, <2>1
  <2>4. load_failing' \in BOOLEAN /\ attempt' \in {"none", "loaded", "failed", "unheard"}
    BY <1>1, <2>1
  <2> QED BY <1>1, <2>2, <2>3, <2>4
<1>3. PermitKept' /\ FailureOwed' /\ NeedsModel'
  <2>1. PermitKept /\ FailureOwed /\ NeedsModel
    OBVIOUS
  <2> QED BY <1>1, <2>1 DEF PermitKept, FailureOwed, NeedsModel, Misses, NextText
<1> QED BY <1>1, <1>2, <1>3

(* A job works on, or ends; it loads the model for a text it misses.        *)
LEMMA JobKeeps ==
    ASSUME EmbedIInv, NEW r \in Asker, JobStep(r)
    PROVE  EmbedIInv' /\ (~ model /\ model' => job[r] # "none" /\ Misses(r))
<1> USE DEF EmbedIInv, memory, health
<1>1. EmbedTypeOK /\ PermitKept /\ FailureOwed /\ NeedsModel /\ job[r] # "none"
  BY DEF JobStep, Count, CountTokens, Embed, Infer
<1>2. job[r] = "inferring" => Misses(r)
  BY <1>1, TextsOfAsker DEF EmbedTypeOK, NeedsModel, Misses, NextText
<1>3. counted' = counted /\ line' = line
  BY DEF JobStep, Count, CountTokens, Embed, Infer
<1>4. ASSUME NEW outcome \in {"admitted", "noting", "answered", "refused"}, End(r, outcome),
             done' \in [Asker -> Nat], cached' \subseteq Text, model' \in BOOLEAN,
             idle' \in 0..Idle, look' \in {"asleep", "due", "fresh"}, load_failing' \in BOOLEAN,
             attempt' \in {"none", "loaded", "failed", "unheard"},
             attempt' = "failed" => \/ load_failing' = load_failing /\ attempt = "failed"
                                    \/ at[r] = "running" /\ outcome = "noting",
             outcome = "admitted" => TextsOf[r] # <<>> /\ r \in Batch
      PROVE  EmbedIInv'
  <2>1. /\ at' \in [Asker -> {"off", "waiting", "running", "admitted", "noting", "answered", "refused"}]
        /\ job' = [q \in Asker |-> "none"] /\ holder' = Nobody /\ PermitKept'
        /\ \A q \in Asker : at'[q] = IF q = r /\ at[r] = "running" THEN outcome ELSE at[q]
    BY <1>1, <1>3, <1>4, EndKeeps
  <2>2. EmbedTypeOK'
    BY <1>1, <1>3, <1>4, <2>1 DEF EmbedTypeOK
  <2>3. FailureOwed'
    BY <1>1, <1>4, <2>1 DEF FailureOwed
  <2>4. NeedsModel'
    BY <1>1, <1>3, <1>4, <2>1 DEF NeedsModel
  <2> QED BY <2>1, <2>2, <2>3, <2>4
<1>5. ASSUME NEW next \in {"loading", "embedding", "inferring"},
             job' = [job EXCEPT ![r] = next], UNCHANGED <<at, holder>>,
             done' \in [Asker -> Nat], cached' \subseteq Text, model' \in BOOLEAN,
             idle' \in 0..Idle, look' = look, load_failing' \in BOOLEAN,
             attempt' \in {"none", "loaded", "failed", "unheard"},
             attempt' = "failed" => load_failing' = load_failing /\ attempt = "failed",
             next = "loading" => Misses(r)' /\ job[r] = "counting",
             next \in {"embedding", "inferring"} => done'[r] < Len(TextsOf[r]),
             next = "inferring" => NextText(r)' \notin cached'
      PROVE  EmbedIInv'
  <2>1. EmbedTypeOK'
    BY <1>1, <1>3, <1>5 DEF EmbedTypeOK
  <2>2. PermitKept'
    BY <1>1, <1>3, <1>5 DEF PermitKept, EmbedTypeOK
  <2>3. FailureOwed'
    BY <1>1, <1>5 DEF FailureOwed
  <2>4. \A q \in Asker : job'[q] # "none" => q = r
    BY <1>1, <1>5 DEF PermitKept, EmbedTypeOK
  <2>5. job'[r] = next
    BY <1>1, <1>5 DEF EmbedTypeOK
  <2>6. NeedsModel'
    BY <1>1, <1>3, <1>5, <2>4, <2>5 DEF NeedsModel
  <2> QED BY <2>1, <2>2, <2>3, <2>6
<1>6. ASSUME Loaded
      PROVE  /\ model' = TRUE /\ load_failing' \in BOOLEAN
             /\ attempt' \in {"none", "loaded", "failed", "unheard"}
             /\ attempt' = "failed" => load_failing' = load_failing /\ attempt = "failed"
  BY <1>1, <1>6 DEF Loaded, EmbedTypeOK
<1>7. ASSUME LoadFails(r) \/ Fails(r), UNCHANGED <<done, cached>>
      PROVE  EmbedIInv'
  <2>1. CASE LoadFails(r)
    BY <1>1, <1>4, <1>7, <2>1 DEF LoadFails, EmbedTypeOK
  <2>2. CASE Fails(r)
    BY <1>1, <1>4, <1>6, <1>7, <2>2 DEF Fails, EmbedTypeOK
  <2> QED BY <1>7, <2>1, <2>2
<1>8. ASSUME Advance(r), job[r] \in {"embedding", "inferring"}, cached' \subseteq Text,
             model' \in BOOLEAN, idle' \in 0..Idle, look' = look, load_failing' \in BOOLEAN,
             attempt' \in {"none", "loaded", "failed", "unheard"},
             attempt' = "failed" => load_failing' = load_failing /\ attempt = "failed"
      PROVE  EmbedIInv'
  <2>1. done' \in [Asker -> Nat] /\ done'[r] = done[r] + 1 /\ done[r] \in Nat
    BY <1>1, <1>8 DEF Advance, EmbedTypeOK
  <2>2. CASE done[r] + 1 = Len(TextsOf[r])
    BY <1>1, <1>4, <1>8, <2>1, <2>2 DEF Advance, EmbedTypeOK
  <2>3. CASE done[r] + 1 # Len(TextsOf[r])
    <3>1. done'[r] < Len(TextsOf[r])
      BY <1>1, <1>8, <2>1, <2>3, TextsOfAsker DEF NeedsModel
    <3> QED BY <1>5, <1>8, <2>1, <2>3, <3>1 DEF Advance
  <2> QED BY <2>2, <2>3
<1>9. CASE Count(r)
  <2>1. job[r] = "counting" /\ UNCHANGED <<counted, line, done, cached, memory, health>>
    BY <1>9 DEF Count
  <2>2. CASE \A i \in DOMAIN TextsOf[r] : TextsOf[r][i] \in cached
    BY <1>1, <1>4, <1>9, <2>1, <2>2 DEF Count, EmbedTypeOK
  <2>3. CASE ~ \A i \in DOMAIN TextsOf[r] : TextsOf[r][i] \in cached
    <3>1. job' = [job EXCEPT ![r] = "loading"] /\ UNCHANGED <<at, holder>>
      BY <1>9, <2>3 DEF Count
    <3>2. Misses(r)'
      BY <2>1, <2>3 DEF Misses
    <3> QED BY <1>1, <1>5, <2>1, <3>1, <3>2 DEF EmbedTypeOK
  <2> QED BY <2>1, <2>2, <2>3
<1>10. CASE CountTokens(r)
  <2>1. job[r] = "loading" /\ Misses(r) /\ r \in Batch
    BY <1>1, <1>10 DEF CountTokens, NeedsModel
  <2>2. TextsOf[r] # <<>>
    BY <2>1, TextsOfAsker DEF Misses
  <2>3. CASE Loaded /\ End(r, "admitted") /\ UNCHANGED <<idle, look, done, cached>>
    BY <1>1, <1>4, <1>6, <2>1, <2>2, <2>3 DEF EmbedTypeOK
  <2>4. CASE (LoadFails(r) \/ Fails(r)) /\ UNCHANGED <<done, cached>>
    BY <1>1, <1>7, <2>1, <2>4
  <2>5. EmbedIInv'
    BY <1>10, <2>3, <2>4 DEF CountTokens, Fails
  <2> QED BY <1>1, <2>1, <2>5
<1>11. CASE Embed(r)
  <2>1. job[r] = "embedding" /\ UNCHANGED <<counted, line, cached, memory, health>>
    BY <1>11 DEF Embed
  <2>2. CASE NextText(r) \in cached
    BY <1>1, <1>8, <1>11, <2>1, <2>2 DEF Embed, EmbedTypeOK
  <2>3. CASE NextText(r) \notin cached
    <3>1. job' = [job EXCEPT ![r] = "inferring"] /\ UNCHANGED <<at, holder, done>>
      BY <1>11, <2>3 DEF Embed
    <3>2. NextText(r)' \notin cached'
      BY <2>1, <2>3, <3>1 DEF NextText
    <3>3. done'[r] < Len(TextsOf[r])
      BY <1>1, <2>1, <3>1 DEF NeedsModel
    <3> QED BY <1>1, <1>5, <2>1, <3>1, <3>2, <3>3 DEF EmbedTypeOK
  <2> QED BY <2>1, <2>2, <2>3
<1>12. CASE Infer(r)
  <2>1. job[r] = "inferring" /\ Misses(r)
    BY <1>2, <1>12 DEF Infer
  <2>2. CASE /\ Loaded /\ idle' = 0 /\ UNCHANGED look
             /\ IF Cardinality(cached) < CacheMax
                THEN cached' = cached \cup {NextText(r)}
                ELSE \E gone \in cached : cached' = (cached \ {gone}) \cup {NextText(r)}
             /\ Advance(r)
    <3>1. NextText(r) \in Text
      BY <1>1, <2>1, TextsOfAsker DEF NeedsModel, NextText, EmbedTypeOK
    <3>2. cached' \subseteq Text
      BY <1>1, <2>2, <3>1 DEF EmbedTypeOK
    <3>3. idle' \in 0..Idle
      BY <2>2, EmbedAssumption
    <3> QED BY <1>6, <1>8, <2>1, <2>2, <3>2, <3>3
  <2>3. CASE (LoadFails(r) \/ Fails(r)) /\ UNCHANGED <<done, cached>>
    BY <1>1, <1>7, <2>1, <2>3
  <2>4. EmbedIInv'
    BY <1>12, <2>2, <2>3 DEF Infer, Fails
  <2> QED BY <1>1, <2>1, <2>4
<1> QED BY <1>9, <1>10, <1>11, <1>12 DEF JobStep

(* run_blocking(): whoever is cancelled and whatever fails, one job at a   *)
(* time has the permit; a failed load shows in /health once it was told;   *)
(* and the model is loaded only by a job that misses a vector.             *)
THEOREM OneJobAtATime == EmbedSpec => WorkKept
<1>1. EmbedIInv /\ [EmbedNext]_embedVars => EmbedIInv' /\ LoadsForAMiss
  <2> SUFFICES ASSUME EmbedIInv, [EmbedNext]_embedVars
               PROVE  EmbedIInv' /\ LoadsForAMiss
    OBVIOUS
  <2>1. ASSUME NEW r \in Asker, Ask(r) \/ TooLarge(r) \/ Busy(r) \/ Cancel(r) \/ NoteFailure(r) \/ TakePermit(r)
        PROVE  EmbedIInv' /\ LoadsForAMiss
    BY <2>1, AskerKeeps, TakeKeeps DEF LoadsForAMiss
  <2>2. ASSUME NEW r \in Asker, JobStep(r)
        PROVE  EmbedIInv' /\ LoadsForAMiss
    BY <2>2, JobKeeps DEF LoadsForAMiss
  <2>3. CASE Tick \/ LookIdle \/ Unload \/ UNCHANGED embedVars
    BY <2>3, UnloadKeeps DEF LoadsForAMiss
  <2> QED BY <2>1, <2>2, <2>3 DEF EmbedNext
<1>2. EmbedIInv => OneJob /\ FailureShown
  BY DEF EmbedIInv, PermitKept, FailureOwed, OneJob, FailureShown, EmbedTypeOK
<1> QED BY <1>1, <1>2, InitEmbed, PTL DEF EmbedSpec, WorkKept

-----------------------------------------------------------------------------
(* EmbedCache: the columns implement RecencyCache.  The refinement mapping  *)
(* takes the keys in the order of their ticks; a tick later than all the    *)
(* others brings its slot's key to the end of that order.                   *)

(* No two slots of the column have a tick in common.                        *)
Stamps(f) == f \in Seq(Nat) /\ \A i, j \in DOMAIN f : f[i] = f[j] => i = j

(* Every slot has its place among the uses.                                 *)
LEMMA BeforeFacts ==
    ASSUME NEW f, Stamps(f)
    PROVE  /\ Len(f) \in Nat /\ DOMAIN f = 1..Len(f)
           /\ \A i \in 1..Len(f) : Before(f, i) \in 0..(Len(f) - 1)
           /\ \A i, j \in 1..Len(f) : f[i] < f[j] <=> Before(f, i) < Before(f, j)
           /\ \A n \in 1..Len(f) : Nth(f, n) \in 1..Len(f) /\ Before(f, Nth(f, n)) = n - 1
           /\ \A i \in 1..Len(f), n \in 1..Len(f) : Before(f, i) = n - 1 => Nth(f, n) = i
<1> DEFINE L == Len(f)
           S == DOMAIN f
<1>1. /\ L \in Nat /\ S = 1..L /\ \A i \in S : f[i] \in Int
      /\ \A i, j \in S : f[i] = f[j] => i = j
  BY DEF Stamps
<1>2. IsFiniteSet(S) /\ Cardinality(S) = L
  BY <1>1, FirstNumbers
<1>3. \A i : Before(f, i) = RankIn(S, f, i)
  BY DEF Before, RankIn
<1> HIDE DEF L, S
<1>4. RankedApart(S, f)
  BY <1>1, <1>2, RanksFill
<1>5. /\ \A i \in S : Before(f, i) \in 0..(L - 1)
      /\ \A i, j \in S : f[i] < f[j] <=> Before(f, i) < Before(f, j)
      /\ \A i, j \in S : Before(f, i) = Before(f, j) => i = j
      /\ \A n \in 1..L : \E i \in S : Before(f, i) = n - 1
  BY <1>2, <1>3, <1>4 DEF RankedApart
<1>6. \A n \in 1..L : Nth(f, n) \in S /\ Before(f, Nth(f, n)) = n - 1
  BY <1>5 DEF Nth, S
<1>7. \A i \in S, n \in 1..L : Before(f, i) = n - 1 => Nth(f, n) = i
  BY <1>1, <1>5, <1>6
<1> QED BY <1>1, <1>5, <1>6, <1>7 DEF L, S

(* The columns of a given length, and a tick later than all of them.        *)
Fresh(L, f, t) == Stamps(f) /\ Len(f) = L /\ t \in Nat /\ \A i \in 1..L : f[i] < t

(* From f to g, slot c comes last, and what came after it moves up.         *)
MovesUp(L, f, g, c) ==
    /\ Stamps(g) /\ Len(g) = L /\ Before(g, c) = L - 1
    /\ \A i \in 1..L : i # c /\ f[i] < f[c] => Before(g, i) = Before(f, i)
    /\ \A i \in 1..L : i # c /\ ~(f[i] < f[c]) => Before(g, i) = Before(f, i) - 1

(* So does a slot that is used.                                             *)
LEMMA UseMoves ==
    ASSUME NEW L, NEW f, NEW t, Fresh(L, f, t), NEW c \in 1..L
    PROVE  MovesUp(L, f, [f EXCEPT ![c] = t], c)
<1> DEFINE g == [f EXCEPT ![c] = t]
<1>1. Stamps(f) /\ Len(f) = L /\ t \in Nat /\ \A i \in 1..L : f[i] < t
  BY DEF Fresh
<1>2. f \in Seq(Nat) /\ L \in Nat /\ DOMAIN f = 1..L
  BY <1>1 DEF Stamps
<1>3. \A i \in 1..L : f[i] \in Nat
  BY <1>2
<1>4. \A i, j \in 1..L : f[i] = f[j] => i = j
  BY <1>1, <1>2 DEF Stamps
<1>5. /\ g \in Seq(Nat) /\ Len(g) = L /\ DOMAIN g = 1..L
      /\ g[c] = t /\ \A i \in 1..L : i # c => g[i] = f[i]
  BY <1>1, <1>2
<1> HIDE DEF g
<1>6. Stamps(g)
  BY <1>1, <1>3, <1>4, <1>5 DEF Stamps
<1>7. IsFiniteSet(1..L) /\ Cardinality(1..L) = L
  BY <1>2, FirstNumbers
<1>8. Before(g, c) = L - 1
  <2>1. {j \in DOMAIN g : g[j] < g[c]} = (1..L) \ {c}
    BY <1>1, <1>3, <1>5
  <2>2. Cardinality((1..L) \ {c}) = L - 1
    BY <1>7, FS_RemoveElement
  <2> QED BY <2>1, <2>2 DEF Before
<1>9. ASSUME NEW i \in 1..L, i # c
      PROVE  /\ f[i] < f[c] => Before(g, i) = Before(f, i)
             /\ ~(f[i] < f[c]) => Before(g, i) = Before(f, i) - 1
  <2> DEFINE old == {j \in DOMAIN f : f[j] < f[i]}
             new == {j \in DOMAIN g : g[j] < g[i]}
  <2>1. new = old \ {c}
    BY <1>1, <1>2, <1>3, <1>5, <1>9
  <2>2. IsFiniteSet(old) /\ Cardinality(old) \in Nat
    <3>1. old \subseteq 1..L
      BY <1>2
    <3> QED BY <1>7, <3>1, FS_Subset, FS_CardinalityType
  <2>3. c \in old <=> ~(f[i] < f[c])
    BY <1>2, <1>3, <1>4, <1>9
  <2>4. Cardinality(old \ {c}) = IF c \in old THEN Cardinality(old) - 1 ELSE Cardinality(old)
    BY <2>2, FS_RemoveElement
  <2> QED BY <2>1, <2>2, <2>3, <2>4 DEF Before
<1> QED BY <1>5, <1>6, <1>8, <1>9 DEF MovesUp, g

(* A new slot's use is the last, and nothing else moves.                    *)
ComesLast(L, f, g) ==
    /\ Stamps(g) /\ Len(g) = L + 1 /\ Before(g, L + 1) = L
    /\ \A i \in 1..L : Before(g, i) = Before(f, i)

LEMMA NewUse ==
    ASSUME NEW L, NEW f, NEW t, Fresh(L, f, t)
    PROVE  ComesLast(L, f, Append(f, t))
<1> DEFINE g == Append(f, t)
<1>1. Stamps(f) /\ Len(f) = L /\ t \in Nat /\ \A i \in 1..L : f[i] < t
  BY DEF Fresh
<1>2. f \in Seq(Nat) /\ L \in Nat /\ DOMAIN f = 1..L
  BY <1>1 DEF Stamps
<1>3. \A i \in 1..L : f[i] \in Nat
  BY <1>2
<1>4. \A i, j \in 1..L : f[i] = f[j] => i = j
  BY <1>1, <1>2 DEF Stamps
<1>5. /\ g \in Seq(Nat) /\ Len(g) = L + 1 /\ DOMAIN g = 1..(L + 1)
      /\ g[L + 1] = t /\ \A i \in 1..L : g[i] = f[i]
  BY <1>1, <1>2
<1> HIDE DEF g
<1>6. \A j \in 1..(L + 1) : j = L + 1 \/ j \in 1..L
  BY <1>2
<1>7. Stamps(g)
  BY <1>1, <1>3, <1>4, <1>5, <1>6 DEF Stamps
<1>8. Before(g, L + 1) = L
  <2>1. {j \in DOMAIN g : g[j] < g[L + 1]} = 1..L
    BY <1>1, <1>2, <1>3, <1>5, <1>6
  <2>2. Cardinality(1..L) = L
    BY <1>2, FirstNumbers
  <2> QED BY <2>1, <2>2 DEF Before
<1>9. ASSUME NEW i \in 1..L PROVE Before(g, i) = Before(f, i)
  <2>1. ~(g[L + 1] < g[i]) /\ \A j \in 1..L : j \in 1..(L + 1) /\ (g[j] < g[i] <=> f[j] < f[i])
    BY <1>1, <1>2, <1>3, <1>5
  <2>2. {j \in DOMAIN g : g[j] < g[i]} = {j \in DOMAIN f : f[j] < f[i]}
    BY <1>2, <1>5, <1>6, <2>1
  <2> QED BY <2>2 DEF Before
<1> QED BY <1>5, <1>7, <1>8, <1>9 DEF ComesLast, g

(* Every slot has a place of its own, and every place its slot.             *)
Ranked(L, f) ==
    /\ L \in Nat
    /\ \A i \in 1..L : Before(f, i) \in 0..(L - 1)
    /\ \A i, j \in 1..L : f[i] < f[j] <=> Before(f, i) < Before(f, j)
    /\ \A n \in 1..L : Nth(f, n) \in 1..L /\ Before(f, Nth(f, n)) = n - 1
    /\ \A i \in 1..L, n \in 1..L : Before(f, i) = n - 1 => Nth(f, n) = i

LEMMA Places ==
    ASSUME NEW L, NEW f, Stamps(f), Len(f) = L
    PROVE  Ranked(L, f)
BY BeforeFacts DEF Ranked

(* The n-th slot, of f and then of g.                                       *)
Reordered(L, f, g, c) ==
    LET p == Before(f, c) + 1
    IN  /\ p \in 1..L /\ Nth(f, p) = c /\ L \in 1..L /\ Nth(g, L) = c
        /\ \A n \in 1..(L - 1) : n < p => Nth(f, n) # c /\ Nth(g, n) = Nth(f, n)
        /\ \A n \in 1..(L - 1) : ~(n < p) => Nth(f, n + 1) # c /\ Nth(g, n) = Nth(f, n + 1)

(* The slot used comes last.                                                *)
LEMMA PlacesAfterUse ==
    ASSUME NEW L, NEW f, Stamps(f), Len(f) = L, NEW c \in 1..L, NEW g, MovesUp(L, f, g, c)
    PROVE  Reordered(L, f, g, c)
<1> DEFINE p == Before(f, c) + 1
<1>1. /\ Stamps(g) /\ Len(g) = L /\ Before(g, c) = L - 1
      /\ \A i \in 1..L : i # c /\ f[i] < f[c] => Before(g, i) = Before(f, i)
      /\ \A i \in 1..L : i # c /\ ~(f[i] < f[c]) => Before(g, i) = Before(f, i) - 1
  BY DEF MovesUp
<1>2. /\ L \in Nat
      /\ \A i \in 1..L : Before(f, i) \in 0..(L - 1)
      /\ \A i, j \in 1..L : f[i] < f[j] <=> Before(f, i) < Before(f, j)
      /\ \A n \in 1..L : Nth(f, n) \in 1..L /\ Before(f, Nth(f, n)) = n - 1
      /\ \A i \in 1..L, n \in 1..L : Before(f, i) = n - 1 => Nth(f, n) = i
  <2>1. Ranked(L, f)
    BY Places
  <2> QED BY <2>1 DEF Ranked
<1>3. \A i \in 1..L, n \in 1..L : Before(g, i) = n - 1 => Nth(g, n) = i
  BY <1>1, Places DEF Ranked
<1>4. p \in 1..L /\ Before(f, c) = p - 1 /\ L \in 1..L
  <2>1. Before(f, c) \in 0..(L - 1) /\ L \in Nat /\ c \in 1..L
    BY <1>2
  <2> QED BY <2>1
<1> HIDE DEF p
<1>5. Nth(f, p) = c /\ Nth(g, L) = c
  BY <1>1, <1>2, <1>3, <1>4
<1>6. ASSUME NEW n \in 1..(L - 1), n < p
      PROVE  Nth(f, n) # c /\ Nth(g, n) = Nth(f, n)
  <2> DEFINE i == Nth(f, n)
  <2>1. n \in 1..L
    BY <1>2
  <2>2. i \in 1..L /\ Before(f, i) = n - 1
    BY <1>2, <2>1
  <2> HIDE DEF i
  <2>3. Before(f, i) < Before(f, c) /\ i # c
    BY <1>4, <1>6, <2>2
  <2>4. f[i] < f[c]
    BY <1>2, <2>2, <2>3
  <2>5. Before(g, i) = n - 1
    BY <1>1, <2>2, <2>3, <2>4
  <2> QED BY <1>3, <2>1, <2>2, <2>3, <2>5 DEF i
<1>7. ASSUME NEW n \in 1..(L - 1), ~(n < p)
      PROVE  Nth(f, n + 1) # c /\ Nth(g, n) = Nth(f, n + 1)
  <2> DEFINE i == Nth(f, n + 1)
  <2>1. n \in 1..L /\ n + 1 \in 1..L
    BY <1>2
  <2>2. i \in 1..L /\ Before(f, i) = n
    BY <1>2, <2>1
  <2> HIDE DEF i
  <2>3. ~(Before(f, i) < Before(f, c)) /\ i # c
    BY <1>4, <1>7, <2>2
  <2>4. ~(f[i] < f[c])
    BY <1>2, <2>2, <2>3
  <2>5. Before(g, i) = n - 1
    BY <1>1, <2>2, <2>3, <2>4
  <2> QED BY <1>3, <2>1, <2>2, <2>3, <2>5 DEF i
<1> QED BY <1>4, <1>5, <1>6, <1>7 DEF Reordered, p

-----------------------------------------------------------------------------
(* The keys in the order of their use.                                      *)
Recency(f, s) == [n \in DOMAIN s |-> s[Nth(f, n)]]

ListedByUse(L, f, s) ==
    /\ Recency(f, s) \in Seq(Input) /\ Len(Recency(f, s)) = L
    /\ DOMAIN Recency(f, s) = 1..L
    /\ \A n \in 1..L : Recency(f, s)[n] = s[Nth(f, n)]

LEMMA RecencyIsSeq ==
    ASSUME NEW L, NEW f, Stamps(f), Len(f) = L, NEW s \in Seq(Input), Len(s) = L
    PROVE  ListedByUse(L, f, s)
<1>1. L \in Nat /\ DOMAIN s = 1..L /\ \A i \in 1..L : s[i] \in Input
  OBVIOUS
<1>2. \A n \in 1..L : Nth(f, n) \in 1..L
  BY Places DEF Ranked
<1>3. Recency(f, s) \in [1..L -> Input]
  BY <1>1, <1>2 DEF Recency
<1> QED BY <1>1, <1>3 DEF Recency, ListedByUse

(* A use takes the key from where it was to the end.                        *)
GoesLast(L, f, s, c, t, k) ==
    LET p == Before(f, c) + 1
    IN  /\ p \in 1..L /\ Recency(f, s)[p] = s[c]
        /\ Recency([f EXCEPT ![c] = t], [s EXCEPT ![c] = k])
             = Append(RemoveAt(Recency(f, s), p), k)

LEMMA UseGoesLast ==
    ASSUME NEW L, NEW f, NEW t, Fresh(L, f, t), NEW s \in Seq(Input), Len(s) = L,
           NEW c \in 1..L, NEW k \in Input
    PROVE  GoesLast(L, f, s, c, t, k)
<1> DEFINE g == [f EXCEPT ![c] = t]
           u == [s EXCEPT ![c] = k]
           p == Before(f, c) + 1
           old == Recency(f, s)
           new == Recency(g, u)
           left == RemoveAt(old, p)
<1>1. /\ L \in Nat /\ u \in Seq(Input) /\ Len(u) = L
      /\ u[c] = k /\ \A i \in 1..L : i # c => u[i] = s[i]
  OBVIOUS
<1>2. Stamps(f) /\ Len(f) = L /\ MovesUp(L, f, g, c)
  BY UseMoves DEF Fresh
<1> HIDE DEF g, u
<1>3. Reordered(L, f, g, c)
  BY <1>2, PlacesAfterUse
<1>4. Stamps(f) /\ Len(f) = L /\ Stamps(g) /\ Len(g) = L
  BY <1>2 DEF MovesUp
<1>5. /\ p \in 1..L /\ Nth(f, p) = c /\ L \in 1..L /\ Nth(g, L) = c
      /\ \A n \in 1..(L - 1) : n < p => Nth(f, n) # c /\ Nth(g, n) = Nth(f, n)
      /\ \A n \in 1..(L - 1) : ~(n < p) => Nth(f, n + 1) # c /\ Nth(g, n) = Nth(f, n + 1)
  BY <1>3 DEF Reordered
<1> HIDE DEF p
<1>6. old \in Seq(Input) /\ Len(old) = L /\ \A n \in 1..L : old[n] = s[Nth(f, n)]
  BY <1>4, RecencyIsSeq DEF ListedByUse
<1>7. new \in Seq(Input) /\ Len(new) = L /\ \A n \in 1..L : new[n] = u[Nth(g, n)]
  <2>1. u \in Seq(Input) /\ Len(u) = L /\ Stamps(g) /\ Len(g) = L
    BY <1>1, <1>4
  <2> QED BY <2>1, RecencyIsSeq DEF ListedByUse
<1>8. \A n \in 1..L : Nth(f, n) \in 1..L
  BY <1>4, Places DEF Ranked
<1> HIDE DEF old, new
<1>9. /\ left \in Seq(Input) /\ Len(left) = L - 1
      /\ \A j \in 1..(L - 1) : left[j] = IF j < p THEN old[j] ELSE old[j + 1]
  <2>1. old \in Seq(Input) /\ Len(old) = L /\ p \in 1..Len(old)
    BY <1>5, <1>6
  <2> QED BY <2>1, RemovedFromSequence
<1> HIDE DEF left
<1>10. \A n \in 1..(L - 1) : n \in 1..L /\ n + 1 \in 1..L
  BY <1>1
<1>11. ASSUME NEW n \in 1..(L - 1) PROVE new[n] = left[n]
  <2>1. CASE n < p
    <3>1. Nth(f, n) # c /\ Nth(g, n) = Nth(f, n)
      BY <1>5, <2>1
    <3>2. Nth(f, n) \in 1..L
      BY <1>8, <1>10
    <3>3. new[n] = s[Nth(f, n)]
      BY <1>1, <1>7, <1>10, <3>1, <3>2
    <3> QED BY <1>6, <1>9, <1>10, <2>1, <3>3
  <2>2. CASE ~(n < p)
    <3>1. Nth(f, n + 1) # c /\ Nth(g, n) = Nth(f, n + 1)
      BY <1>5, <2>2
    <3>2. Nth(f, n + 1) \in 1..L
      BY <1>8, <1>10
    <3>3. new[n] = s[Nth(f, n + 1)]
      BY <1>1, <1>7, <1>10, <3>1, <3>2
    <3> QED BY <1>6, <1>9, <1>10, <2>2, <3>3
  <2> QED BY <2>1, <2>2
<1>12. new[L] = k
  BY <1>1, <1>5, <1>7
<1>13. Append(left, k) = new
  <2>1. /\ Append(left, k) \in Seq(Input) /\ Len(Append(left, k)) = L
        /\ Append(left, k)[L] = k /\ \A n \in 1..(L - 1) : Append(left, k)[n] = left[n]
    BY <1>1, <1>9
  <2>2. \A n \in 1..L : n = L \/ n \in 1..(L - 1)
    BY <1>1
  <2>3. \A n \in 1..L : Append(left, k)[n] = new[n]
    BY <1>11, <1>12, <2>1, <2>2
  <2> QED BY <1>7, <2>1, <2>3, SeqEqual
<1> QED BY <1>5, <1>6, <1>13 DEF GoesLast, g, u, p, old, new, left

(* A new key comes to the end.                                              *)
LEMMA NewGoesLast ==
    ASSUME NEW L, NEW f, NEW t, Fresh(L, f, t), NEW s \in Seq(Input), Len(s) = L, NEW k \in Input
    PROVE  Recency(Append(f, t), Append(s, k)) = Append(Recency(f, s), k)
<1> DEFINE g == Append(f, t)
           u == Append(s, k)
           M == L + 1
           old == Recency(f, s)
           new == Recency(g, u)
<1>1. /\ L \in Nat /\ u \in Seq(Input) /\ Len(u) = M
      /\ u[M] = k /\ \A i \in 1..L : u[i] = s[i]
  OBVIOUS
<1>2. Stamps(g) /\ Len(g) = M /\ Before(g, M) = L /\ \A i \in 1..L : Before(g, i) = Before(f, i)
  BY NewUse DEF ComesLast
<1>3. Stamps(f) /\ Len(f) = L
  BY DEF Fresh
<1>4. \A n \in 1..L : Nth(f, n) \in 1..L /\ Before(f, Nth(f, n)) = n - 1
  BY <1>3, Places DEF Ranked
<1>5. old \in Seq(Input) /\ Len(old) = L /\ \A n \in 1..L : old[n] = s[Nth(f, n)]
  BY <1>3, RecencyIsSeq DEF ListedByUse
<1>6. M \in 1..M /\ M - 1 = L /\ \A n \in 1..L : n \in 1..M
  BY <1>1
<1>7. \A n \in 1..M : n = M \/ n \in 1..L
  BY <1>1
<1> HIDE DEF g, u, M
<1>8. \A i \in 1..M, n \in 1..M : Before(g, i) = n - 1 => Nth(g, n) = i
  BY <1>2, Places DEF Ranked
<1>9. new \in Seq(Input) /\ Len(new) = M /\ \A n \in 1..M : new[n] = u[Nth(g, n)]
  BY <1>1, <1>2, RecencyIsSeq DEF ListedByUse
<1> HIDE DEF old, new
<1>10. Nth(g, M) = M /\ \A n \in 1..L : Nth(g, n) = Nth(f, n)
  BY <1>2, <1>4, <1>6, <1>8
<1>11. new[M] = k /\ \A n \in 1..L : new[n] = old[n]
  BY <1>1, <1>4, <1>5, <1>6, <1>9, <1>10
<1>12. /\ Append(old, k) \in Seq(Input) /\ Len(Append(old, k)) = M
       /\ Append(old, k)[M] = k /\ \A n \in 1..L : Append(old, k)[n] = old[n]
  BY <1>1, <1>5 DEF M
<1>13. \A n \in 1..M : new[n] = Append(old, k)[n]
  BY <1>7, <1>11, <1>12
<1> QED BY <1>9, <1>12, <1>13, SeqEqual DEF g, u, old, new

-----------------------------------------------------------------------------
(* What the invariant says of the columns, of a length of their own.        *)
LEMMA ColumnFacts ==
    ASSUME LruIInv, NEW L, L = Len(keys)
    PROVE  /\ L \in Nat /\ L <= Cap /\ keys \in Seq(Input) /\ DOMAIN keys = 1..L
           /\ vectors = keys /\ tick \in Nat /\ ticks \in Seq(Nat) /\ Len(ticks) = L
           /\ Fresh(L, ticks, tick + 1) /\ Ranked(L, ticks)
           /\ \A i, j \in 1..L : keys[i] = keys[j] => i = j
           /\ \A k \in DOMAIN slots : slots[k] \in 1..L /\ keys[slots[k]] = k
           /\ \A i \in 1..L : keys[i] \in DOMAIN slots /\ slots[keys[i]] = i
<1>1. /\ L \in Nat /\ L <= Cap /\ keys \in Seq(Input) /\ DOMAIN keys = 1..L
      /\ vectors = keys /\ tick \in Nat /\ ticks \in Seq(Nat) /\ Len(ticks) = L
      /\ DOMAIN ticks = 1..L
  BY DEF LruIInv, ColumnsTypeOK
<1>2. /\ \A i, j \in 1..L : keys[i] = keys[j] => i = j
      /\ \A i, j \in 1..L : ticks[i] = ticks[j] => i = j
      /\ \A i \in 1..L : ticks[i] <= tick
  BY <1>1 DEF LruIInv, SlotsApart
<1>3. /\ \A k \in DOMAIN slots : slots[k] \in 1..L /\ keys[slots[k]] = k
      /\ \A i \in 1..L : keys[i] \in DOMAIN slots /\ slots[keys[i]] = i
  BY <1>1 DEF LruIInv, SlotsMapped
<1>4. Stamps(ticks)
  BY <1>1, <1>2 DEF Stamps
<1>5. \A i \in 1..L : ticks[i] \in Nat
  BY <1>1
<1>6. tick + 1 \in Nat /\ \A i \in 1..L : ticks[i] < tick + 1
  BY <1>1, <1>2, <1>5
<1>7. Fresh(L, ticks, tick + 1)
  BY <1>1, <1>4, <1>6 DEF Fresh
<1>8. Ranked(L, ticks)
  BY <1>1, <1>4, Places
<1> QED BY <1>1, <1>2, <1>3, <1>7, <1>8

(* The slot that gives way is the one first in the order of use.            *)
LEMMA ColdestIsFirst ==
    ASSUME NEW L, L = Len(ticks), Fresh(L, ticks, tick + 1), Ranked(L, ticks), L # 0
    PROVE  ColdestSlot \in 1..L /\ Before(ticks, ColdestSlot) = 0
<1> DEFINE first == Nth(ticks, 1)
<1>1. L \in Nat /\ ticks \in Seq(Nat) /\ DOMAIN ticks = 1..L
      /\ \A i, j \in 1..L : ticks[i] = ticks[j] => i = j
  BY DEF Fresh, Stamps
<1>2. \A i \in 1..L : ticks[i] \in Nat /\ Before(ticks, i) \in Nat
  <2>1. \A i \in 1..L : Before(ticks, i) \in 0..(L - 1)
    BY DEF Ranked
  <2> QED BY <1>1, <2>1
<1>3. first \in 1..L /\ Before(ticks, first) = 0
  <2>1. 1 \in 1..L /\ 1 - 1 = 0
    BY <1>1
  <2> QED BY <2>1 DEF Ranked
<1> HIDE DEF first
<1>4. \A i \in 1..L : ~(ticks[i] < ticks[first])
  <2>1. \A i \in 1..L : ~(Before(ticks, i) < Before(ticks, first))
    BY <1>2, <1>3
  <2> QED BY <1>3, <2>1 DEF Ranked
<1>5. \A i \in 1..L : ticks[first] <= ticks[i]
  BY <1>2, <1>3, <1>4
<1>6. ColdestSlot \in 1..L /\ \A i \in 1..L : ticks[ColdestSlot] <= ticks[i]
  BY <1>1, <1>3, <1>5 DEF ColdestSlot
<1>7. ColdestSlot = first
  BY <1>1, <1>2, <1>3, <1>5, <1>6
<1> QED BY <1>3, <1>7

(* Where a new vector goes.                                                 *)
LEMMA PutGoes ==
    ASSUME Cap \in Nat, LruIInv, NEW k \in Input, LruPut(k), NEW L, L = Len(keys)
    PROVE  \E slot :
             /\ slots' = Mapped(k, slot) /\ tick' = tick + 1 /\ answer' = answer
             /\ keys' = Extended(keys, slot, k) /\ ticks' = Extended(ticks, slot, tick + 1)
             /\ vectors' = Extended(vectors, slot, k)
             /\ \/ k \in DOMAIN slots /\ slot = slots[k]
                \/ k \notin DOMAIN slots /\ L < Cap /\ slot = L + 1
                \/ /\ k \notin DOMAIN slots /\ L = Cap
                   /\ slot \in 1..L /\ Before(ticks, slot) = 0
<1> DEFINE slot == IF k \in DOMAIN slots THEN slots[k]
                   ELSE IF Len(keys) < Cap THEN Len(keys) + 1 ELSE ColdestSlot
<1>1. /\ slots' = Mapped(k, slot) /\ tick' = tick + 1 /\ answer' = answer /\ Cap > 0
      /\ keys' = Extended(keys, slot, k) /\ ticks' = Extended(ticks, slot, tick + 1)
      /\ vectors' = Extended(vectors, slot, k)
  BY DEF LruPut
<1>2. L \in Nat /\ L <= Cap /\ Len(ticks) = L /\ Fresh(L, ticks, tick + 1) /\ Ranked(L, ticks)
  BY ColumnFacts
<1>3. ~(L < Cap) => L = Cap /\ L # 0
  BY <1>1, <1>2
<1>4. ~(L < Cap) => ColdestSlot \in 1..L /\ Before(ticks, ColdestSlot) = 0
  BY <1>2, <1>3, ColdestIsFirst
<1>5. \/ k \in DOMAIN slots /\ slot = slots[k]
      \/ k \notin DOMAIN slots /\ L < Cap /\ slot = L + 1
      \/ k \notin DOMAIN slots /\ ~(L < Cap) /\ slot = ColdestSlot
  OBVIOUS
<1> HIDE DEF slot
<1>6. \/ k \in DOMAIN slots /\ slot = slots[k]
      \/ k \notin DOMAIN slots /\ L < Cap /\ slot = L + 1
      \/ /\ k \notin DOMAIN slots /\ L = Cap
         /\ slot \in 1..L /\ Before(ticks, slot) = 0
  BY <1>3, <1>4, <1>5
<1> QED BY <1>1, <1>6

-----------------------------------------------------------------------------
(* Every slot keeps a key, a tick and a vector of its own.                  *)
LEMMA LruStarts == Cap \in Nat /\ LruInit => LruIInv
BY DEF LruInit, LruIInv, ColumnsTypeOK, SlotsApart, SlotsMapped

LEMMA GetKeepsColumns ==
    ASSUME LruIInv, NEW k \in Input, LruGet(k)
    PROVE  LruIInv'
<1> DEFINE L == Len(keys)
<1>1. /\ L \in Nat /\ L <= Cap /\ keys \in Seq(Input) /\ DOMAIN keys = 1..L
      /\ vectors = keys /\ tick \in Nat /\ ticks \in Seq(Nat) /\ Len(ticks) = L
      /\ Fresh(L, ticks, tick + 1)
      /\ \A i, j \in 1..L : keys[i] = keys[j] => i = j
      /\ \A l \in DOMAIN slots : slots[l] \in 1..L /\ keys[slots[l]] = l
      /\ \A i \in 1..L : keys[i] \in DOMAIN slots /\ slots[keys[i]] = i
  BY ColumnFacts
<1>2. slots' = slots /\ keys' = keys /\ vectors' = vectors /\ tick' = tick + 1
  BY DEF LruGet
<1> HIDE DEF L
<1>3. /\ ticks' \in Seq(Nat) /\ Len(ticks') = L /\ Stamps(ticks')
      /\ \A i \in 1..L : ticks'[i] <= tick'
  <2>1. CASE k \in DOMAIN slots
    <3> DEFINE c == slots[k]
    <3>1. ticks' = [ticks EXCEPT ![c] = tick + 1] /\ c \in 1..L
      BY <1>1, <1>2, <2>1 DEF LruGet
    <3> HIDE DEF c
    <3>2. Stamps(ticks')
      BY <1>1, <3>1, UseMoves DEF MovesUp
    <3>3. /\ Len(ticks') = L /\ \A i \in 1..L : ticks[i] <= tick + 1 /\ tick + 1 <= tick + 1
      BY <1>1, <3>1 DEF Fresh
    <3>4. \A i \in 1..L : ticks'[i] = IF i = c THEN tick + 1 ELSE ticks[i]
      BY <1>1, <3>1
    <3> QED BY <1>2, <3>2, <3>3, <3>4 DEF Stamps
  <2>2. CASE k \notin DOMAIN slots
    <3>1. ticks' = ticks
      BY <2>2 DEF LruGet
    <3>2. \A i \in 1..L : ticks[i] \in Nat /\ ticks[i] < tick + 1
      BY <1>1 DEF Fresh
    <3>3. \A i \in 1..L : ticks[i] <= tick + 1
      BY <1>1, <3>2
    <3> QED BY <1>1, <1>2, <3>1, <3>3 DEF Fresh
  <2> QED BY <2>1, <2>2
<1>4. ColumnsTypeOK'
  BY <1>1, <1>2, <1>3 DEF ColumnsTypeOK, L
<1>5. SlotsApart'
  <2>1. \A i, j \in 1..L : ticks'[i] = ticks'[j] => i = j
    BY <1>3 DEF Stamps
  <2> QED BY <1>1, <1>2, <1>3, <2>1 DEF SlotsApart
<1>6. SlotsMapped'
  BY <1>1, <1>2 DEF SlotsMapped
<1> QED BY <1>4, <1>5, <1>6 DEF LruIInv

(* A slot of the columns is given to k, or was its own.                     *)
LEMMA SlotTaken ==
    ASSUME LruIInv, NEW k \in Input, NEW L, L = Len(keys), NEW c \in 1..L,
           k \in DOMAIN slots => c = slots[k],
           slots' = Mapped(k, c), tick' = tick + 1, keys' = Extended(keys, c, k),
           ticks' = Extended(ticks, c, tick + 1), vectors' = Extended(vectors, c, k)
    PROVE  /\ LruIInv' /\ keys' = [keys EXCEPT ![c] = k]
           /\ ticks' = [ticks EXCEPT ![c] = tick + 1]
<1>1. /\ L \in Nat /\ L <= Cap /\ keys \in Seq(Input) /\ DOMAIN keys = 1..L
      /\ vectors = keys /\ tick \in Nat /\ ticks \in Seq(Nat) /\ Len(ticks) = L
      /\ Fresh(L, ticks, tick + 1)
      /\ \A i, j \in 1..L : keys[i] = keys[j] => i = j
      /\ \A l \in DOMAIN slots : slots[l] \in 1..L /\ keys[slots[l]] = l
      /\ \A i \in 1..L : keys[i] \in DOMAIN slots /\ slots[keys[i]] = i
  BY ColumnFacts
<1>2. ~(c > Len(keys)) /\ ~(c > Len(ticks))
  BY <1>1
<1>3. keys' = [keys EXCEPT ![c] = k] /\ vectors' = keys' /\ ticks' = [ticks EXCEPT ![c] = tick + 1]
  BY <1>1, <1>2 DEF Extended
<1>4. /\ keys' \in Seq(Input) /\ Len(keys') = L /\ DOMAIN keys' = 1..L
      /\ keys'[c] = k /\ \A i \in 1..L : i # c => keys'[i] = keys[i]
  BY <1>1, <1>3
<1>5. \A i \in 1..L : keys[i] = k => i = c
  BY <1>1
<1>6. /\ ticks' \in Seq(Nat) /\ Len(ticks') = L /\ Stamps(ticks')
      /\ \A i \in 1..L : ticks'[i] <= tick'
  <2>1. Fresh(L, ticks, tick + 1)
    BY <1>1
  <2>2. MovesUp(L, ticks, [ticks EXCEPT ![c] = tick + 1], c)
    BY <2>1, UseMoves
  <2>3. Stamps(ticks')
    BY <1>3, <2>2 DEF MovesUp
  <2>4. Len(ticks') = L /\ \A i \in 1..L : ticks[i] <= tick + 1 /\ tick + 1 <= tick + 1
    BY <1>1, <1>3 DEF Fresh
  <2>5. \A i \in 1..L : ticks'[i] = IF i = c THEN tick + 1 ELSE ticks[i]
    BY <1>1, <1>3
  <2> QED BY <2>3, <2>4, <2>5 DEF Stamps
<1>7. ColumnsTypeOK'
  BY <1>1, <1>3, <1>4, <1>6 DEF ColumnsTypeOK
<1>8. SlotsApart'
  <2>1. \A i, j \in 1..L : ticks'[i] = ticks'[j] => i = j
    BY <1>6 DEF Stamps
  <2>2. \A i, j \in 1..L : keys'[i] = keys'[j] => i = j
    BY <1>1, <1>4, <1>5
  <2>3. DOMAIN ticks' = 1..L
    BY <1>6
  <2> QED BY <1>4, <1>6, <2>1, <2>2, <2>3 DEF SlotsApart
<1>9. SlotsMapped'
  <2> DEFINE gone == IF k \notin DOMAIN slots THEN {keys[c]} ELSE {}
  <2>1. slots' = [l \in (DOMAIN slots \ gone) \cup {k} |-> IF l = k THEN c ELSE slots[l]]
    BY <1>2 DEF Mapped
  <2>2. \A l \in DOMAIN slots \ gone : l # k => slots[l] # c
    BY <1>1
  <2>3. \A l \in DOMAIN slots' : slots'[l] \in 1..L /\ keys'[slots'[l]] = l
    BY <1>1, <1>4, <2>1, <2>2
  <2>4. \A i \in 1..L : i # c => keys[i] \in DOMAIN slots \ gone /\ keys[i] # k
    BY <1>1, <1>5
  <2> HIDE DEF gone
  <2>5. \A i \in 1..L : keys'[i] \in DOMAIN slots' /\ slots'[keys'[i]] = i
    BY <1>1, <1>4, <2>1, <2>4
  <2> QED BY <1>4, <2>3, <2>5 DEF SlotsMapped
<1> QED BY <1>3, <1>7, <1>8, <1>9 DEF LruIInv

(* The columns grow by a slot, for a key that had none.                     *)
LEMMA SlotAdded ==
    ASSUME Cap \in Nat, LruIInv, NEW k \in Input, NEW L, L = Len(keys), L < Cap, k \notin DOMAIN slots,
           slots' = Mapped(k, L + 1), tick' = tick + 1, keys' = Extended(keys, L + 1, k),
           ticks' = Extended(ticks, L + 1, tick + 1), vectors' = Extended(vectors, L + 1, k)
    PROVE  /\ LruIInv' /\ keys' = Append(keys, k) /\ ticks' = Append(ticks, tick + 1)
<1>1. /\ L \in Nat /\ L <= Cap /\ keys \in Seq(Input) /\ DOMAIN keys = 1..L
      /\ vectors = keys /\ tick \in Nat /\ ticks \in Seq(Nat) /\ Len(ticks) = L
      /\ Fresh(L, ticks, tick + 1)
      /\ \A i, j \in 1..L : keys[i] = keys[j] => i = j
      /\ \A l \in DOMAIN slots : slots[l] \in 1..L /\ keys[slots[l]] = l
      /\ \A i \in 1..L : keys[i] \in DOMAIN slots /\ slots[keys[i]] = i
  BY ColumnFacts
<1>2. L + 1 > Len(keys) /\ L + 1 > Len(ticks) /\ ~(L + 1 <= Len(keys))
  BY <1>1
<1>3. keys' = Append(keys, k) /\ vectors' = keys' /\ ticks' = Append(ticks, tick + 1)
  BY <1>1, <1>2 DEF Extended
<1>4. /\ keys' \in Seq(Input) /\ Len(keys') = L + 1 /\ DOMAIN keys' = 1..(L + 1)
      /\ keys'[L + 1] = k /\ \A i \in 1..L : keys'[i] = keys[i]
  <2>1. keys \in Seq(Input) /\ Len(keys) = L /\ L \in Nat
    BY <1>1
  <2>2. /\ Append(keys, k) \in Seq(Input) /\ Len(Append(keys, k)) = L + 1
        /\ DOMAIN Append(keys, k) = 1..(L + 1)
        /\ Append(keys, k)[L + 1] = k /\ \A i \in 1..L : Append(keys, k)[i] = keys[i]
    BY <2>1, AppendIsLonger
  <2> QED BY <1>3, <2>2, Zenon
<1>5. \A i \in 1..L : keys[i] # k
  BY <1>1
<1>6. \A i \in 1..(L + 1) : i = L + 1 \/ i \in 1..L
  BY <1>1
<1>7. /\ ticks' \in Seq(Nat) /\ Len(ticks') = L + 1 /\ Stamps(ticks')
      /\ \A i \in 1..(L + 1) : ticks'[i] <= tick'
  <2>1. Stamps(ticks') /\ Len(ticks') = L + 1
    <3>1. Fresh(L, ticks, tick + 1)
      BY <1>1
    <3>2. ComesLast(L, ticks, Append(ticks, tick + 1))
      BY <3>1, NewUse
    <3> QED BY <1>3, <3>2 DEF ComesLast
  <2>2. \A i \in 1..L : ticks[i] <= tick + 1
    BY <1>1 DEF Fresh
  <2>3. ticks'[L + 1] = tick + 1 /\ \A i \in 1..L : ticks'[i] = ticks[i]
    BY <1>1, <1>3
  <2>4. tick + 1 <= tick + 1
    BY <1>1
  <2> QED BY <1>6, <2>1, <2>2, <2>3, <2>4 DEF Stamps
<1>8. ColumnsTypeOK'
  <2>1. L + 1 <= Cap /\ tick + 1 \in Nat
    BY <1>1
  <2> QED BY <1>3, <1>4, <1>7, <2>1 DEF ColumnsTypeOK
<1>9. SlotsApart'
  <2>1. \A i, j \in 1..(L + 1) : ticks'[i] = ticks'[j] => i = j
    BY <1>7 DEF Stamps
  <2>2. \A i, j \in 1..(L + 1) : keys'[i] = keys'[j] => i = j
    BY <1>1, <1>4, <1>5, <1>6
  <2>3. DOMAIN ticks' = 1..(L + 1)
    BY <1>7
  <2>4. \A i \in DOMAIN ticks' : ticks'[i] <= tick'
    BY <1>7, <2>3
  <2>5. \A i, j \in DOMAIN keys' : keys'[i] = keys'[j] \/ ticks'[i] = ticks'[j] => i = j
    BY <1>4, <2>1, <2>2
  <2> QED BY <2>4, <2>5 DEF SlotsApart
<1>10. SlotsMapped'
  <2>1. slots' = [l \in DOMAIN slots \cup {k} |-> IF l = k THEN L + 1 ELSE slots[l]]
    BY <1>2 DEF Mapped
  <2>2. L + 1 \in 1..(L + 1) /\ \A i \in 1..L : i \in 1..(L + 1)
    BY <1>1
  <2>3. \A l \in DOMAIN slots' : slots'[l] \in 1..(L + 1) /\ keys'[slots'[l]] = l
    BY <1>1, <1>4, <2>1, <2>2
  <2>4. \A i \in 1..(L + 1) : keys'[i] \in DOMAIN slots' /\ slots'[keys'[i]] = i
    BY <1>1, <1>4, <1>5, <1>6, <2>1
  <2> QED BY <1>4, <2>3, <2>4 DEF SlotsMapped
<1> QED BY <1>3, <1>8, <1>9, <1>10 DEF LruIInv

-----------------------------------------------------------------------------
(* The order of use, as the columns have it.                                *)
InOrder == Recency(ticks, keys)

LEMMA OrderFacts ==
    ASSUME LruIInv, NEW L, L = Len(keys)
    PROVE  /\ InOrder \in Seq(Input) /\ Len(InOrder) = L /\ DOMAIN InOrder = 1..L
           /\ \A k : (k \in DOMAIN slots) <=> (\E i \in DOMAIN InOrder : InOrder[i] = k)
<1>1. /\ L \in Nat /\ keys \in Seq(Input) /\ Len(ticks) = L /\ Len(keys) = L
      /\ Fresh(L, ticks, tick + 1) /\ Ranked(L, ticks)
      /\ \A l \in DOMAIN slots : slots[l] \in 1..L /\ keys[slots[l]] = l
      /\ \A i \in 1..L : keys[i] \in DOMAIN slots /\ slots[keys[i]] = i
  BY ColumnFacts
<1>2. Stamps(ticks)
  BY <1>1 DEF Fresh
<1>3. /\ InOrder \in Seq(Input) /\ Len(InOrder) = L /\ DOMAIN InOrder = 1..L
      /\ \A n \in 1..L : InOrder[n] = keys[Nth(ticks, n)]
  <2>1. keys \in Seq(Input) /\ Len(keys) = L /\ Stamps(ticks) /\ Len(ticks) = L
    BY <1>1, <1>2
  <2>2. ListedByUse(L, ticks, keys)
    BY <2>1, RecencyIsSeq
  <2> QED BY <2>2 DEF InOrder, ListedByUse
<1>4. ASSUME NEW k \in DOMAIN slots PROVE \E n \in 1..L : InOrder[n] = k
  <2> DEFINE n == Before(ticks, slots[k]) + 1
  <2>1. slots[k] \in 1..L /\ keys[slots[k]] = k
    BY <1>1
  <2>2. Before(ticks, slots[k]) \in 0..(L - 1)
    BY <1>1, <2>1 DEF Ranked
  <2>3. n \in 1..L /\ Before(ticks, slots[k]) = n - 1
    BY <1>1, <2>2
  <2> HIDE DEF n
  <2>4. Nth(ticks, n) = slots[k]
    BY <1>1, <2>1, <2>3 DEF Ranked
  <2> QED BY <1>3, <2>1, <2>3, <2>4
<1>5. ASSUME NEW n \in 1..L PROVE InOrder[n] \in DOMAIN slots
  <2>1. Nth(ticks, n) \in 1..L
    BY <1>1 DEF Ranked
  <2> QED BY <1>1, <1>3, <2>1
<1> QED BY <1>3, <1>4, <1>5

(* A slot used again, with its own key or another, goes from where it was   *)
(* to the end of the order.                                                *)
LEMMA TakenGoesLast ==
    ASSUME LruIInv, NEW k \in Input, NEW L, L = Len(keys), NEW c \in 1..L,
           keys' = [keys EXCEPT ![c] = k], ticks' = [ticks EXCEPT ![c] = tick + 1]
    PROVE  /\ Before(ticks, c) + 1 \in DOMAIN InOrder
           /\ InOrder[Before(ticks, c) + 1] = keys[c]
           /\ InOrder' = Append(RemoveAt(InOrder, Before(ticks, c) + 1), k)
<1>1. keys \in Seq(Input) /\ Len(keys) = L /\ Fresh(L, ticks, tick + 1)
  BY ColumnFacts
<1>2. DOMAIN InOrder = 1..L
  BY OrderFacts
<1>3. InOrder' = Recency(ticks', keys')
  BY DEF InOrder
<1>4. /\ Before(ticks, c) + 1 \in 1..L
      /\ Recency(ticks, keys)[Before(ticks, c) + 1] = keys[c]
      /\ Recency([ticks EXCEPT ![c] = tick + 1], [keys EXCEPT ![c] = k])
           = Append(RemoveAt(Recency(ticks, keys), Before(ticks, c) + 1), k)
  <2>1. GoesLast(L, ticks, keys, c, tick + 1, k)
    BY <1>1, UseGoesLast
  <2> QED BY <2>1 DEF GoesLast
<1> QED BY <1>2, <1>3, <1>4 DEF InOrder

(* A get is a hit, or a miss.                                               *)
LEMMA GetInOrder ==
    ASSUME LruIInv, NEW k \in Input, LruGet(k)
    PROVE  ByRecency!RecencyNext
<1> DEFINE L == Len(keys)
<1>1. /\ L \in Nat /\ keys \in Seq(Input) /\ vectors = keys /\ DOMAIN keys = 1..L
      /\ \A l \in DOMAIN slots : slots[l] \in 1..L /\ keys[slots[l]] = l
  BY ColumnFacts
<1>2. /\ DOMAIN InOrder = 1..L
      /\ (k \in DOMAIN slots) <=> (\E i \in DOMAIN InOrder : InOrder[i] = k)
  BY OrderFacts
<1>3. CASE k \in DOMAIN slots
  <2> DEFINE c == slots[k]
  <2>1. c \in 1..L /\ keys[c] = k
    BY <1>1, <1>3
  <2>2. /\ ticks' = [ticks EXCEPT ![c] = tick + 1] /\ keys' = keys
        /\ answer' = [key |-> k, vector |-> vectors[c]]
    BY <1>3 DEF LruGet
  <2>3. keys' = [keys EXCEPT ![c] = k]
    BY <1>1, <2>1, <2>2
  <2>4. answer' = [key |-> k, vector |-> k]
    BY <1>1, <2>1, <2>2
  <2> HIDE DEF c
  <2>5. /\ Before(ticks, c) + 1 \in DOMAIN InOrder
        /\ InOrder[Before(ticks, c) + 1] = k
        /\ InOrder' = Append(RemoveAt(InOrder, Before(ticks, c) + 1), k)
    BY <2>1, <2>2, <2>3, TakenGoesLast
  <2>6. \E i \in DOMAIN InOrder : InOrder[i] = k /\ InOrder' = Append(RemoveAt(InOrder, i), k)
    BY <2>5
  <2>7. ByRecency!Hit(k)
    BY <2>4, <2>6 DEF ByRecency!Hit, ByRecency!Use, InOrder, Recency, RemoveAt, ByRecency!RemoveAt
  <2> QED BY <2>7 DEF ByRecency!RecencyNext
<1>4. CASE k \notin DOMAIN slots
  <2>1. ticks' = ticks /\ keys' = keys /\ answer' = [key |-> k, vector |-> NoVector]
    BY <1>4 DEF LruGet
  <2>2. InOrder' = InOrder
    BY <2>1 DEF InOrder
  <2>3. ByRecency!Miss(k)
    BY <1>2, <1>4, <2>1, <2>2 DEF ByRecency!Miss, ByRecency!Holds, InOrder, Recency
  <2> QED BY <2>3 DEF ByRecency!RecencyNext
<1> QED BY <1>3, <1>4

(* A put brings a kept key to the end, or a new one, for which the key used *)
(* longest ago goes when there is no room.                                  *)
LEMMA PutInOrder ==
    ASSUME Cap \in Nat, LruIInv, NEW k \in Input, LruPut(k)
    PROVE  LruIInv' /\ ByRecency!RecencyNext
<1> DEFINE L == Len(keys)
<1>1. /\ L \in Nat /\ L <= Cap /\ keys \in Seq(Input)
      /\ \A l \in DOMAIN slots : slots[l] \in 1..L /\ keys[slots[l]] = l
      /\ Fresh(L, ticks, tick + 1)
  BY ColumnFacts
<1>2. /\ InOrder \in Seq(Input) /\ Len(InOrder) = L /\ DOMAIN InOrder = 1..L
      /\ (k \in DOMAIN slots) <=> (\E i \in DOMAIN InOrder : InOrder[i] = k)
  BY OrderFacts
<1>3. PICK slot :
        /\ slots' = Mapped(k, slot) /\ tick' = tick + 1 /\ answer' = answer
        /\ keys' = Extended(keys, slot, k) /\ ticks' = Extended(ticks, slot, tick + 1)
        /\ vectors' = Extended(vectors, slot, k)
        /\ \/ k \in DOMAIN slots /\ slot = slots[k]
           \/ k \notin DOMAIN slots /\ L < Cap /\ slot = L + 1
           \/ k \notin DOMAIN slots /\ L = Cap /\ slot \in 1..L /\ Before(ticks, slot) = 0
  BY PutGoes
<1> HIDE DEF L
<1>4. CASE k \in DOMAIN slots /\ slot = slots[k]
  <2>1. slot \in 1..L /\ keys[slot] = k
    BY <1>1, <1>4
  <2>2. /\ LruIInv' /\ keys' = [keys EXCEPT ![slot] = k]
        /\ ticks' = [ticks EXCEPT ![slot] = tick + 1]
    BY <1>3, <1>4, <2>1, SlotTaken DEF L
  <2>3. /\ Before(ticks, slot) + 1 \in DOMAIN InOrder
        /\ InOrder[Before(ticks, slot) + 1] = k
        /\ InOrder' = Append(RemoveAt(InOrder, Before(ticks, slot) + 1), k)
    BY <2>1, <2>2, TakenGoesLast DEF L
  <2>4. \E i \in DOMAIN InOrder : InOrder[i] = k /\ InOrder' = Append(RemoveAt(InOrder, i), k)
    BY <2>3
  <2>5. ByRecency!Again(k)
    BY <1>3, <2>4
       DEF ByRecency!Again, ByRecency!Use, InOrder, Recency, RemoveAt, ByRecency!RemoveAt
  <2> QED BY <2>2, <2>5 DEF ByRecency!RecencyNext
<1>5. CASE k \notin DOMAIN slots /\ L < Cap /\ slot = L + 1
  <2>1. LruIInv' /\ keys' = Append(keys, k) /\ ticks' = Append(ticks, tick + 1)
    BY <1>3, <1>5, SlotAdded DEF L
  <2>2. keys \in Seq(Input) /\ Len(keys) = L
    BY <1>1 DEF L
  <2>3. Recency(Append(ticks, tick + 1), Append(keys, k)) = Append(Recency(ticks, keys), k)
    BY <1>1, <2>2, NewGoesLast
  <2>4. InOrder' = Append(InOrder, k)
    BY <2>1, <2>3 DEF InOrder
  <2>5. InOrder' = Append(IF Len(InOrder) < Cap THEN InOrder ELSE Tail(InOrder), k)
    BY <1>2, <1>5, <2>4
  <2>6. ByRecency!Insert(k)
    BY <1>2, <1>3, <1>5, <2>5 DEF ByRecency!Insert, ByRecency!Holds, InOrder, Recency
  <2> QED BY <2>1, <2>6 DEF ByRecency!RecencyNext
<1>6. CASE k \notin DOMAIN slots /\ L = Cap /\ slot \in 1..L /\ Before(ticks, slot) = 0
  <2>1. /\ LruIInv' /\ keys' = [keys EXCEPT ![slot] = k]
        /\ ticks' = [ticks EXCEPT ![slot] = tick + 1]
    BY <1>3, <1>6, SlotTaken DEF L
  <2>2. InOrder' = Append(RemoveAt(InOrder, Before(ticks, slot) + 1), k)
    BY <1>6, <2>1, TakenGoesLast DEF L
  <2>3. InOrder # <<>> /\ Before(ticks, slot) + 1 = 1 /\ ~(Len(InOrder) < Cap)
    BY <1>1, <1>2, <1>6
  <2>4. InOrder' = Append(Tail(InOrder), k)
    BY <1>2, <2>2, <2>3, FirstLeaves
  <2>5. InOrder' = Append(IF Len(InOrder) < Cap THEN InOrder ELSE Tail(InOrder), k)
    BY <2>3, <2>4
  <2>6. ByRecency!Insert(k)
    BY <1>2, <1>3, <1>6, <2>5 DEF ByRecency!Insert, ByRecency!Holds, InOrder, Recency
  <2> QED BY <2>1, <2>6 DEF ByRecency!RecencyNext
<1> QED BY <1>3, <1>4, <1>5, <1>6

LEMMA LruStepKeeps ==
    ASSUME Cap \in Nat, LruIInv, [LruNext]_lruVars
    PROVE  /\ LruIInv'
           /\ [ByRecency!RecencyNext]_<<[n \in DOMAIN keys |-> keys[Nth(ticks, n)]], answer>>
<1>1. CASE UNCHANGED lruVars
  BY <1>1 DEF lruVars, LruIInv, ColumnsTypeOK, SlotsApart, SlotsMapped
<1>2. ASSUME NEW k \in Input, LruGet(k) PROVE LruIInv' /\ ByRecency!RecencyNext
  BY <1>2, GetKeepsColumns, GetInOrder
<1>3. ASSUME NEW k \in Input, LruPut(k) PROVE LruIInv' /\ ByRecency!RecencyNext
  BY <1>3, PutInOrder
<1> QED BY <1>1, <1>2, <1>3 DEF LruNext

(* Lru: however its slots were given and given again, the cache gives up the *)
(* vector used longest ago, and answers no text with the vector of another. *)
THEOREM VectorsGoByRecency ==
    ASSUME Cap \in Nat
    PROVE  LruSpec => EvictsByRecency
<1>1. LruInit => LruIInv
  BY LruStarts
<1>2. LruInit => ByRecency!RecencyInit
  BY DEF LruInit, ByRecency!RecencyInit
<1>3. LruIInv /\ [LruNext]_lruVars =>
        /\ LruIInv'
        /\ [ByRecency!RecencyNext]_<<[n \in DOMAIN keys |-> keys[Nth(ticks, n)]], answer>>
  BY LruStepKeeps
<1> QED BY <1>1, <1>2, <1>3, PTL DEF LruSpec, EvictsByRecency, ByRecency!RecencySpec
=============================================================================
