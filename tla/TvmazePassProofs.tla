---------------------------- MODULE TvmazePassProofs ----------------------------
(***************************************************************************)
(* TvmazePass's inductive invariant: a request that waits is told, a pass  *)
(* leaves no wanted series untried, and maintenance has its turn, for any  *)
(* series, shows, requests and bounds.  And no answer is lost but to the   *)
(* lookup of its own series.  The lanes matter to none of these: that each *)
(* queued series has one place in them is proved last, from an invariant of *)
(* their own.                                                              *)
(***************************************************************************)
EXTENDS TvmazePass, WellFoundedInduction, CommonTheorems

-----------------------------------------------------------------------------
(* What is kept.                                                           *)

LEMMA EmptyFunction == DOMAIN Empty = {}
BY DEF Empty

LEMMA NewKeptOK == KeptOK(NewKept)
<1> DEFINE none == Empty
<1>1. DOMAIN none = {}
  BY EmptyFunction
<1>2. 0 \in Day
  BY TvmazeAssumption DEF Day
<1>3. NewKept = [ids |-> none, shows |-> none, wanted |-> none, updates |-> 0]
  BY DEF NewKept
<1> HIDE DEF none
<1> QED BY <1>1, <1>2, <1>3 DEF KeptOK

LEMMA FirstJobType ==
    ASSUME NEW k, KeptOK(k), NEW s
    PROVE  FirstJob(k, s) \in Job \cup {Nothing}
BY DEF KeptOK, FirstJob, LookupJob, FetchJob, Job, Lookup, Resolved, Unanswered

LEMMA ShowsOfType ==
    ASSUME NEW k, KeptOK(k)
    PROVE  ShowsOf(k) \subseteq Show
BY DEF KeptOK, ShowsOf, Lookup, Resolved

LEMMA JobsOfType ==
    /\ \A s \in Series : LookupJob(s) \in Job
    /\ \A w \in Show : FetchJob(w) \in Job
BY DEF LookupJob, FetchJob, Job

LEMMA ColdJobsType ==
    ASSUME NEW k, KeptOK(k), NEW tried
    PROVE  ColdJobs(k, tried) \subseteq Job
<1>1. {FetchJob(w) : w \in ShowsOf(k) \ DOMAIN k.shows} \subseteq Job
  BY ShowsOfType, JobsOfType
<1>2. {LookupJob(s) : s \in DOMAIN k.wanted \ DOMAIN k.ids} \subseteq Job
  BY JobsOfType DEF KeptOK
<1> QED BY <1>1, <1>2 DEF ColdJobs

LEMMA MaintenanceJobsType ==
    ASSUME NEW k, KeptOK(k), NEW now, NEW tried
    PROVE  MaintenanceJobs(k, now, tried) \subseteq Job
<1> DEFINE due == {w \in ShowsOf(k) \cap DOMAIN k.shows :
                     IsDue(k.shows[w], now) /\ FetchJob(w) \notin tried}
           stale == {s \in DOMAIN k.wanted \cap DOMAIN k.ids :
                       now - k.ids[s].at >= IF Resolved(k, s) THEN LookupFor ELSE MissFor}
           oldest == {v \in due : \A u \in due : EarlierFetched(k.shows[v], k.shows[u])}
<1>1. due \subseteq Show
  BY ShowsOfType
<1>2. stale \subseteq Series
  BY DEF KeptOK
<1>3. {FetchJob(w) : w \in oldest} \subseteq Job
  BY <1>1, JobsOfType
<1>4. {LookupJob(s) : s \in stale} \ tried \subseteq Job
  BY <1>2, JobsOfType
<1>5. MaintenanceJobs(k, now, tried) \in
        {{FetchJob(w) : w \in oldest}, {LookupJob(s) : s \in stale} \ tried}
  BY DEF MaintenanceJobs
<1> HIDE DEF due, stale, oldest
<1> QED BY <1>3, <1>4, <1>5

(* A change of ids and shows that keeps their types. *)
LEMMA KeptWith ==
    ASSUME NEW k, KeptOK(k), NEW ids, NEW shows, NEW wanted, NEW updates \in Day,
           DOMAIN ids \subseteq Series, \A s \in DOMAIN ids : ids[s] \in Lookup,
           DOMAIN shows \subseteq Show, \A w \in DOMAIN shows : shows[w] \in Day \cup {Changed},
           DOMAIN wanted \subseteq Series, \A s \in DOMAIN wanted : wanted[s] \in Day
    PROVE  KeptOK([ids |-> ids, shows |-> shows, wanted |-> wanted, updates |-> updates])
BY DEF KeptOK

(* Pruning keeps the wanted series' answers and finds none. *)
LEMMA PrunedKeeps ==
    ASSUME NEW k, KeptOK(k), NEW now
    PROVE  /\ KeptOK(Pruned(k, now))
           /\ Pruned(k, now).updates = k.updates
           /\ DOMAIN Pruned(k, now).wanted \subseteq DOMAIN k.wanted
           /\ \A s : ~Unanswered(Pruned(k, now), s) => ~Unanswered(k, s)
           /\ \A s \in DOMAIN Pruned(k, now).wanted :
                ~Unanswered(k, s) => ~Unanswered(Pruned(k, now), s)
<1> DEFINE wanted == Restrict(k.wanted, {s \in DOMAIN k.wanted : now - k.wanted[s] < WantedFor})
           ids == Restrict(k.ids, {s \in DOMAIN k.ids : s \in DOMAIN wanted \/ now - k.ids[s].at < LookupFor})
           left == [ids |-> ids, shows |-> k.shows, wanted |-> wanted, updates |-> k.updates]
           shows == Restrict(k.shows, ShowsOf(left) \cap DOMAIN k.shows)
           made == [ids |-> ids, shows |-> shows, wanted |-> wanted, updates |-> k.updates]
<1>3. Pruned(k, now) = made
  <2>1. Pruned(k, now) = [left EXCEPT !.shows = shows]
    BY DEF Pruned
  <2> HIDE DEF wanted, ids, shows
  <2> QED BY <2>1 DEF left
<1>4. /\ DOMAIN wanted \subseteq DOMAIN k.wanted
      /\ \A s \in DOMAIN wanted : wanted[s] = k.wanted[s]
  BY DEF Restrict
<1>5. /\ DOMAIN ids \subseteq DOMAIN k.ids
      /\ \A s \in DOMAIN ids : ids[s] = k.ids[s]
      /\ \A s \in DOMAIN wanted \cap DOMAIN k.ids : s \in DOMAIN ids
  <2> HIDE DEF wanted
  <2> QED BY DEF Restrict
<1>6. /\ DOMAIN shows = ShowsOf(left) \cap DOMAIN k.shows
      /\ \A w \in DOMAIN shows : shows[w] = k.shows[w]
  <2> HIDE DEF left
  <2> QED BY DEF Restrict
<1>7. \A s \in DOMAIN wanted : Resolved(k, s) => k.ids[s].show \in ShowsOf(left)
  <2> HIDE DEF wanted, ids
  <2>1. \A s \in DOMAIN wanted : Resolved(k, s) => s \in DOMAIN ids /\ ids[s] = k.ids[s]
    BY <1>5 DEF Resolved
  <2>2. ShowsOf(left) = {ids[s].show : s \in {x \in DOMAIN wanted : x \in DOMAIN ids /\ ids[x].show # NoShow}}
    BY DEF ShowsOf, Resolved, left
  <2> QED BY <2>1, <2>2 DEF Resolved
<1> HIDE DEF wanted, ids, shows, left
<1>8. KeptOK(made)
  BY <1>4, <1>5, <1>6 DEF KeptOK
<1> QED BY <1>3, <1>4, <1>5, <1>6, <1>7, <1>8 DEF Unanswered, Resolved

-----------------------------------------------------------------------------
(* The requests.                                                           *)

LEMMA SeriesOf ==
    ASSUME NEW asks \in Seq(Series)
    PROVE  Range(asks) \subseteq Series /\ (asks = <<>> => Range(asks) = {})
BY DEF Range

LEMMA InitInv == Init => IInv
<1> SUFFICES ASSUME Init PROVE IInv
  OBVIOUS
<1>1. 0 \in Day /\ 0 \in 0..MaxCalls /\ 0 \in 0..MaxMishaps
  BY TvmazeAssumption DEF Day
<1>2. KeptOK(kept) /\ KeptOK(file)
  BY NewKeptOK DEF Init
<1>3. pass \in PassType
  BY <1>1 DEF Init, NewPass, PassType, Lanes
<1>4. call \in [Caller -> CallType] /\ \A c \in Caller : call[c].at = "out"
  BY DEF Init, Out, CallType
<1>5. TypeOK
  BY <1>1, <1>2, <1>3, <1>4 DEF Init, TypeOK
<1>6. WaitersTold /\ AllTried /\ (phase = "ask" => pass.job \in Job)
  BY <1>4 DEF Init, WaitersTold, AllTried
<1>7. pass.held <= pass.since /\ MaintenanceTurns
  BY TvmazeAssumption DEF Init, NewPass, MaintenanceTurns
<1> QED BY <1>5, <1>6, <1>7 DEF IInv

(* Wanting a series changes neither an id nor a show. *)
LEMMA WantingKeeps ==
    ASSUME NEW k, KeptOK(k), NEW some \in SUBSET Series, day \in Day
    PROVE  /\ KeptOK(Wanting(k, some))
           /\ Wanting(k, some).ids = k.ids /\ Wanting(k, some).shows = k.shows
           /\ DOMAIN Wanting(k, some).wanted = DOMAIN k.wanted \cup some
<1> DEFINE wanted == [s \in DOMAIN k.wanted \cup some |->
                        IF s \in some /\ (s \notin DOMAIN k.wanted \/ day - k.wanted[s] >= 1)
                        THEN day ELSE k.wanted[s]]
<1>1. Wanting(k, some) = [k EXCEPT !.wanted = wanted]
  BY DEF Wanting
<1>2. DOMAIN wanted = DOMAIN k.wanted \cup some
  OBVIOUS
<1>3. \A s \in DOMAIN wanted : wanted[s] \in Day
  BY DEF KeptOK
<1> HIDE DEF wanted
<1>4. [k EXCEPT !.wanted = wanted] =
        [ids |-> k.ids, shows |-> k.shows, wanted |-> wanted, updates |-> k.updates]
  BY DEF KeptOK
<1> QED BY <1>1, <1>2, <1>3, <1>4 DEF KeptOK

LEMMA NoteInv ==
    ASSUME IInv, NEW c \in Caller, NEW asks \in Seq(Series), NEW alone \in BOOLEAN, Note(c, asks, alone)
    PROVE  IInv'
<1> DEFINE pending == {s \in Range(asks) : Unanswered(kept, s)}
<1>1. /\ KeptOK(kept') /\ kept'.ids = kept.ids /\ kept'.shows = kept.shows
      /\ DOMAIN kept'.wanted = DOMAIN kept.wanted \cup Range(asks)
  BY WantingKeeps, SeriesOf DEF Note, IInv, TypeOK
<1>2. call' = [call EXCEPT ![c] =
                 IF pending = {} THEN Out
                 ELSE [at |-> "noted", asks |-> asks, pending |-> pending, alone |-> alone]]
  BY DEF Note
<1>3. pending \subseteq Series /\ (pending # {} => asks # <<>>)
  BY SeriesOf
<1>4. Out \in CallType
  BY DEF Out, CallType
<1>5. call' \in [Caller -> CallType] /\ \A b \in Caller : call'[b].at # "out" => call'[b].asks # <<>>
  <2> HIDE DEF pending
  <2> QED BY <1>2, <1>3, <1>4 DEF IInv, TypeOK, CallType, Out
<1>6. TypeOK'
  <2>1. calls' \in 0..MaxCalls
    BY TvmazeAssumption DEF Note, IInv, TypeOK
  <2> QED BY <1>1, <1>5, <2>1 DEF Note, IInv, TypeOK
<1>7. \A s : Unanswered(kept', s) <=> Unanswered(kept, s)
  BY <1>1 DEF Unanswered, Resolved
<1>8. WaitersTold'
  <2>1. \A b \in Caller : call'[b].at \in {"looked", "waiting"} => call'[b] = call[b]
    BY <1>2 DEF Out, IInv, TypeOK
  <2> QED BY <1>7, <2>1 DEF Note, IInv, WaitersTold
<1>9. AllTried'
  <2> SUFFICES ASSUME phase \in {"end", "asleep"}, ~pass.cut, NEW s \in DOMAIN kept'.wanted
               PROVE  Tried(s)'
    BY DEF Note, AllTried
  <2>1. \A b \in Caller : call[b].at = "noted" => call'[b] = call[b]
    BY <1>2 DEF Note, IInv, TypeOK
  <2>2. CASE Unanswered(kept, s) /\ s \in Range(asks)
    <3>1. call'[c].at = "noted" /\ s \in call'[c].pending
      BY <1>2, <2>2 DEF IInv, TypeOK
    <3> QED BY <3>1 DEF Tried
  <2>3. CASE ~Unanswered(kept, s)
    BY <1>7, <2>3 DEF Tried, FirstJob
  <2>4. CASE s \notin Range(asks)
    <3>1. Tried(s)
      BY <1>1, <2>4 DEF IInv, AllTried
    <3>2. FirstJob(kept', s) = FirstJob(kept, s)
      BY <1>1, <1>7, <2>4 DEF FirstJob, Resolved
    <3> QED BY <2>1, <3>1, <3>2 DEF Note, Tried
  <2> QED BY <2>2, <2>3, <2>4
<1> QED BY <1>6, <1>8, <1>9 DEF Note, IInv, MaintenanceTurns

(* A step of request c that leaves what is kept and the pass alone. *)
LEMMA CallInv ==
    ASSUME IInv, UNCHANGED <<kept, file, paused, day, phase, pass, calls, mishaps>>,
           wake' \in BOOLEAN, wake => wake', told' \subseteq Caller,
           NEW c \in Caller, NEW here \in CallType, call' = [call EXCEPT ![c] = here],
           here.at # "out" => here.asks # <<>>,
           call[c].at = "noted" => wake',
           \A b \in Caller \ {c} : b \in told => b \in told',
           here.at \in {"looked", "waiting"} =>
             c \in told' \/ Unanswered(kept, Head(here.asks)) \/ phase \in {"tell", "end"}
    PROVE  IInv'
<1>1. TypeOK'
  BY DEF IInv, TypeOK, KeptOK
<1>2. WaitersTold'
  <2> SUFFICES ASSUME NEW b \in Caller, call'[b].at \in {"looked", "waiting"}, b \notin told',
                      ~Unanswered(kept', Head(call'[b].asks))
               PROVE  phase' \in {"tell", "end"}
    BY DEF WaitersTold
  <2>1. CASE b = c
    BY <2>1 DEF IInv, TypeOK
  <2>2. CASE b # c
    BY <2>2 DEF IInv, TypeOK, WaitersTold
  <2> QED BY <2>1, <2>2
<1>3. AllTried'
  <2> SUFFICES ASSUME phase \in {"end", "asleep"}, ~pass.cut, NEW s \in DOMAIN kept.wanted
               PROVE  Tried(s)'
    BY DEF AllTried
  <2>1. Tried(s)
    BY DEF IInv, AllTried
  <2>2. FirstJob(kept', s) = FirstJob(kept, s)
    OBVIOUS
  <2>3. \A b \in Caller : call[b].at = "noted" => wake' \/ call'[b] = call[b]
    BY DEF IInv, TypeOK
  <2> QED BY <2>1, <2>2, <2>3 DEF Tried
<1> QED BY <1>1, <1>2, <1>3 DEF IInv, MaintenanceTurns

LEMMA TailType ==
    ASSUME NEW q \in Seq(Series), q # <<>>, Len(q) # 1
    PROVE  Tail(q) \in Seq(Series) /\ Tail(q) # <<>>
<1>1. Len(q) \in Nat /\ Len(q) # 0
  OBVIOUS
<1>2. Tail(q) \in Seq(Series) /\ Len(Tail(q)) = Len(q) - 1
  BY <1>1
<1>3. Len(Tail(q)) # 0
  BY <1>1, <1>2
<1>4. \A r : r = <<>> => Len(r) = 0
  OBVIOUS
<1> QED BY <1>2, <1>3, <1>4

LEMMA OutType == Out \in CallType /\ Out.at = "out"
BY DEF Out, CallType

LEMMA RequestInv ==
    ASSUME IInv, NEW c \in Caller, CallStep(c) \/ GiveUp(c)
    PROVE  IInv'
<1>1. call[c] \in CallType /\ (call[c].at # "out" => call[c].asks # <<>>)
  BY DEF IInv, TypeOK
<1>2. CASE Enqueue(c)
  <2> DEFINE here == [call[c] EXCEPT !.at = "queued"]
  <2>1. here \in CallType /\ here.at = "queued" /\ here.asks = call[c].asks
    BY <1>1 DEF CallType
  <2>2. call' = [call EXCEPT ![c] = here] /\ wake' = TRUE /\ call[c].at = "noted"
    BY <1>2 DEF Enqueue, IInv, TypeOK
  <2> HIDE DEF here
  <2> QED BY <1>1, <1>2, <2>1, <2>2, CallInv DEF Enqueue, keptVars, IInv, TypeOK
<1>3. CASE Listen(c)
  <2> DEFINE here == [call[c] EXCEPT !.at = "listening"]
  <2>1. here \in CallType /\ here.at = "listening" /\ here.asks = call[c].asks
    BY <1>1 DEF CallType
  <2>2. call' = [call EXCEPT ![c] = here]
    BY <1>3 DEF Listen, IInv, TypeOK
  <2>3. call[c].at \in {"queued", "waiting"}
    BY <1>3 DEF Listen
  <2> HIDE DEF here
  <2> QED BY <1>1, <1>3, <2>1, <2>2, <2>3, CallInv DEF Listen, keptVars, IInv, TypeOK
<1>4. CASE Look(c)
  <2> DEFINE asks == call[c].asks
             settled == Head(asks) \notin call[c].pending \/ ~Unanswered(kept, Head(asks)) \/ paused
             looked == [call[c] EXCEPT !.at = "looked"]
             on == [call[c] EXCEPT !.at = "queued", !.asks = Tail(asks)]
             here == IF ~settled THEN looked ELSE IF Len(asks) = 1 THEN Out ELSE on
  <2>1. looked \in CallType /\ looked.at = "looked" /\ looked.asks = asks
    BY <1>1 DEF CallType
  <2>2. asks \in Seq(Series) /\ asks # <<>>
    BY <1>1, <1>4 DEF Look, CallType
  <2>3. Len(asks) # 1 => Tail(asks) \in Seq(Series) /\ Tail(asks) # <<>>
    BY <2>2, TailType
  <2>4. Len(asks) # 1 => on \in CallType /\ on.at = "queued" /\ on.asks # <<>>
    BY <1>1, <2>3 DEF CallType
  <2>5. call' = [call EXCEPT ![c] = here] /\ told' = IF settled THEN told \ {c} ELSE told
    BY <1>4 DEF Look
  <2>6. ~settled => Unanswered(kept, Head(asks))
    OBVIOUS
  <2> HIDE DEF looked, on, settled
  <2>7. /\ here \in CallType /\ (here.at # "out" => here.asks # <<>>)
        /\ here.at \in {"looked", "waiting"} => Unanswered(kept, Head(here.asks))
    BY <2>1, <2>2, <2>4, <2>6, OutType
  <2> HIDE DEF here, asks
  <2> QED BY <1>4, <2>5, <2>7, CallInv DEF Look, keptVars, IInv, TypeOK
<1>5. CASE Wait(c)
  <2> DEFINE here == [call[c] EXCEPT !.at = "waiting"]
  <2>1. here \in CallType /\ here.at = "waiting" /\ here.asks = call[c].asks
    BY <1>1 DEF CallType
  <2>2. call' = [call EXCEPT ![c] = here]
    BY <1>5 DEF Wait, IInv, TypeOK
  <2>3. c \in told \/ Unanswered(kept, Head(call[c].asks)) \/ phase \in {"tell", "end"}
    BY <1>5 DEF Wait, IInv, WaitersTold
  <2> HIDE DEF here
  <2> QED BY <1>1, <1>5, <2>1, <2>2, <2>3, CallInv DEF Wait, keptVars, IInv, TypeOK
<1>6. CASE GiveUp(c)
  BY <1>6, OutType, CallInv DEF GiveUp, keptVars, IInv, TypeOK
<1> QED BY <1>2, <1>3, <1>4, <1>5, <1>6 DEF CallStep

-----------------------------------------------------------------------------
(* The pass.                                                               *)

(* A step of the pass that tells nobody. *)
LEMMA UntoldInv ==
    ASSUME IInv, UNCHANGED <<file, day, call, told, calls>>, KeptOK(kept'),
           wake' \in BOOLEAN, paused' \in BOOLEAN, mishaps' \in 0..MaxMishaps,
           phase' \in {"feed", "choose", "ask", "tell", "end"}, pass' \in PassType,
           pass'.held <= pass'.since, pass'.held <= BeforeMaintenance,
           phase' = "ask" => pass'.job \in Job,
           phase \notin {"tell", "end"},
           phase' = "tell" \/ \A s : ~Unanswered(kept', s) => ~Unanswered(kept, s),
           phase' = "end" /\ ~pass'.cut => \A s \in DOMAIN kept'.wanted : Tried(s)'
    PROVE  IInv'
<1>1. TypeOK'
  BY DEF IInv, TypeOK, KeptOK
<1>2. WaitersTold'
  BY DEF IInv, WaitersTold
<1>3. AllTried'
  BY DEF AllTried
<1> QED BY <1>1, <1>2, <1>3 DEF IInv, MaintenanceTurns

LEMMA NewPassType == NewPass \in PassType /\ NewPass.held = 0 /\ NewPass.since = 0
BY TvmazeAssumption DEF NewPass, PassType, Lanes, Day

LEMMA PassBeginsInv == ASSUME IInv, PassBegins PROVE IInv'
<1> DEFINE left == Pruned(kept, day)
           seen == IF DOMAIN left.shows = {} THEN day ELSE left.updates
<1>1. KeptOK(kept) /\ day \in Day
  BY DEF IInv, TypeOK
<1>2. KeptOK(left) /\ \A s : ~Unanswered(left, s) => ~Unanswered(kept, s)
  BY <1>1, PrunedKeeps
<1>3. kept' = [left EXCEPT !.updates = seen]
  BY DEF PassBegins
<1>4. seen \in Day
  BY <1>1, <1>2 DEF KeptOK
<1>5. pass' \in PassType /\ pass'.held = 0 /\ pass'.since = 0
  <2>1. pass' = [NewPass EXCEPT !.now = day]
    BY DEF PassBegins
  <2> QED BY <1>1, <2>1, NewPassType DEF PassType
<1> HIDE DEF left, seen
<1>6. kept' = [ids |-> left.ids, shows |-> left.shows, wanted |-> left.wanted, updates |-> seen]
  BY <1>2, <1>3 DEF KeptOK
<1>7. KeptOK(kept')
  BY <1>2, <1>4, <1>6 DEF KeptOK
<1>8. \A s : ~Unanswered(kept', s) => ~Unanswered(kept, s)
  BY <1>2, <1>6 DEF Unanswered, Resolved
<1>9. phase' \in {"feed", "choose"} /\ wake' \in BOOLEAN /\ phase \in {"starting", "asleep"}
  BY DEF PassBegins, IInv, TypeOK
<1>10. UNCHANGED <<file, day, call, told, calls, paused, mishaps>>
  BY DEF PassBegins, callVars
<1> QED BY <1>5, <1>7, <1>8, <1>9, <1>10, TvmazeAssumption, UntoldInv DEF IInv, TypeOK

LEMMA FeedInv == ASSUME IInv, FeedRead \/ FeedFails PROVE IInv'
<1>1. KeptOK(kept) /\ pass \in PassType /\ pass.now \in Day
  BY DEF IInv, TypeOK, PassType
<1>2. CASE FeedRead
  <2> DEFINE read == [kept EXCEPT !.updates = pass.now]
  <2>1. read = [ids |-> kept.ids, shows |-> kept.shows, wanted |-> kept.wanted, updates |-> pass.now]
    BY <1>1 DEF KeptOK
  <2>2. PICK named \in SUBSET DOMAIN kept.shows :
          kept' = [read EXCEPT !.shows = [w \in DOMAIN @ |-> IF w \in named THEN Changed ELSE @[w]]]
    BY <1>2 DEF FeedRead
  <2> DEFINE shows == [w \in DOMAIN read.shows |-> IF w \in named THEN Changed ELSE read.shows[w]]
  <2>3. /\ DOMAIN shows = DOMAIN kept.shows
        /\ \A w \in DOMAIN shows : shows[w] \in Day \cup {Changed}
    <3> HIDE DEF read
    <3> QED BY <1>1, <2>1 DEF KeptOK
  <2>4. kept' = [read EXCEPT !.shows = shows]
    BY <2>2
  <2> HIDE DEF shows, read
  <2>5. kept' = [ids |-> kept.ids, shows |-> shows, wanted |-> kept.wanted, updates |-> pass.now]
    BY <2>1, <2>4
  <2>6. KeptOK(kept')
    BY <1>1, <2>3, <2>5 DEF KeptOK
  <2>7. \A s : ~Unanswered(kept', s) => ~Unanswered(kept, s)
    BY <2>3, <2>5 DEF Unanswered, Resolved
  <2> QED BY <1>1, <1>2, <2>6, <2>7, UntoldInv DEF FeedRead, callVars, IInv, TypeOK, MaintenanceTurns
<1>3. CASE FeedFails
  <2>1. mishaps' \in 0..MaxMishaps /\ paused' \in BOOLEAN
    BY <1>3, TvmazeAssumption DEF FeedFails, Mishap, IInv, TypeOK
  <2> QED BY <1>1, <1>3, <2>1, UntoldInv DEF FeedFails, keptVars, callVars, IInv, TypeOK, MaintenanceTurns
<1> QED BY <1>2, <1>3

LEMMA TakeInv ==
    ASSUME IInv, phase = "choose", UNCHANGED <<keptVars, wake, paused, day, callVars, mishaps>>,
           NEW job \in Job, NEW turned \in PassType, Take(job, turned),
           turned.held <= turned.since, turned.held <= BeforeMaintenance
    PROVE  IInv'
<1>1. /\ pass' \in PassType /\ pass'.job = job /\ pass'.cut = paused
      /\ pass'.held = turned.held /\ pass'.since = turned.since
  BY DEF Take, PassType, IInv, TypeOK
<1>2. phase' \in {"end", "ask"} /\ (phase' = "end" => paused)
  BY DEF Take
<1> QED BY <1>1, <1>2, UntoldInv DEF keptVars, callVars, IInv, TypeOK

LEMMA NoColdJobs ==
    ASSUME NEW k, NEW tried, ColdJobs(k, tried) = {}, NEW s \in DOMAIN k.wanted
    PROVE  FirstJob(k, s) \in tried \cup {Nothing}
<1>1. /\ {FetchJob(w) : w \in ShowsOf(k) \ DOMAIN k.shows} \ tried = {}
      /\ {LookupJob(x) : x \in DOMAIN k.wanted \ DOMAIN k.ids} \ tried = {}
  BY DEF ColdJobs
<1>2. CASE ~Unanswered(k, s)
  BY <1>2 DEF FirstJob
<1>3. CASE s \notin DOMAIN k.ids
  BY <1>1, <1>3 DEF FirstJob, Resolved, Unanswered
<1>4. CASE Resolved(k, s) /\ k.ids[s].show \notin DOMAIN k.shows
  <2>1. k.ids[s].show \in ShowsOf(k)
    BY <1>4 DEF ShowsOf
  <2>2. FetchJob(k.ids[s].show) \in tried
    BY <1>1, <1>4, <2>1
  <2>3. FirstJob(k, s) = FetchJob(k.ids[s].show)
    BY <1>4 DEF FirstJob, Unanswered
  <2> QED BY <2>2, <2>3
<1> QED BY <1>2, <1>3, <1>4 DEF Unanswered

LEMMA ChooseInv == ASSUME IInv, Choose PROVE IInv'
<1>1. /\ KeptOK(kept) /\ pass \in PassType /\ pass.held <= pass.since /\ pass.held <= BeforeMaintenance
      /\ phase = "choose" /\ UNCHANGED <<keptVars, wake, paused, day, callVars, mishaps>>
  BY DEF IInv, TypeOK, Choose, MaintenanceTurns
<1>2. Waiting \subseteq Job
  BY <1>1, MaintenanceJobsType DEF Waiting
<1>3. CASE Continue
  <2>1. pass.next \in Job
    BY <1>1, <1>3 DEF Continue, PassType
  <2> QED BY <1>1, <1>3, <2>1, TakeInv DEF Continue
<1>4. ASSUME NEW job \in Waiting, Maintain(job) PROVE IInv'
  <2> DEFINE turned == [pass EXCEPT !.since = 0, !.held = 0]
  <2>1. turned \in PassType /\ turned.held = 0 /\ turned.since = 0
    BY <1>1 DEF PassType
  <2>2. Take(job, turned)
    BY <1>4 DEF Maintain
  <2> HIDE DEF turned
  <2> QED BY <1>1, <1>2, <1>4, <2>1, <2>2, TvmazeAssumption, TakeInv
<1>5. ASSUME DueNow = {}, ChooseJob PROVE IInv'
  <2>1. pass.since < BeforeMaintenance \/ Waiting = {}
    BY <1>1, <1>5, TvmazeAssumption DEF DueNow, PassType
  <2>2. /\ Turn \in PassType
        /\ Turn.held <= Turn.since /\ Turn.held <= BeforeMaintenance
    <3> DEFINE held == IF Waiting = {} THEN 0 ELSE pass.held + 1
    <3>1. /\ held \in Nat /\ held <= pass.since + 1 /\ held <= BeforeMaintenance
          /\ pass.since + 1 \in Nat
      BY <1>1, <2>1, TvmazeAssumption DEF PassType
    <3>2. Turn = [pass EXCEPT !.since = pass.since + 1, !.held = held]
      BY DEF Turn
    <3> HIDE DEF held
    <3> QED BY <1>1, <3>1, <3>2 DEF PassType
  <2>3. ASSUME NEW lane \in Lanes, HasJob(lane), LaneTurn(lane) PROVE IInv'
    <3> DEFINE turned == [Turn EXCEPT !.prefer = Other(lane)]
    <3>1. /\ turned \in PassType
          /\ turned.held <= turned.since /\ turned.held <= BeforeMaintenance
      BY <2>2 DEF PassType, Other, Lanes
    <3>2. LaneJob(lane) \in Job
      <4>1. LaneJob(lane) # Nothing
        <5> DEFINE heads == Heads(lane)
                   ready == {i \in 1..Len(heads) : FirstJob(kept, heads[i]) \notin {Nothing} \cup pass.tried}
        <5>1. ready # {}
          BY <2>3 DEF HasJob, ReadyAt
        <5>2. ReadyAt(heads) = CHOOSE i \in ready : \A j \in ready : i <= j
          BY <5>1 DEF ReadyAt
        <5>3. ready \subseteq Nat
          OBVIOUS
        <5>4. ReadyAt(heads) \in ready
          <6> HIDE DEF ready
          <6>1. \E i \in ready : \A j \in ready : i <= j
            BY <5>1, <5>3, LeastOf
          <6> QED BY <5>2, <6>1
        <5> QED BY <5>4 DEF LaneJob
      <4> QED BY <1>1, <4>1, FirstJobType DEF LaneJob
    <3>3. Take(LaneJob(lane), turned)
      BY <2>3 DEF LaneTurn
    <3> HIDE DEF turned
    <3> QED BY <1>1, <3>1, <3>2, <3>3, TakeInv
  <2>4. ASSUME NEW job \in ColdJobs(kept, pass.tried), Take(job, Turn) PROVE IInv'
    BY <1>1, <2>2, <2>4, ColdJobsType, TakeInv
  <2>5. ASSUME ColdJobs(kept, pass.tried) = {}, phase' = "end",
               pass' = [pass EXCEPT !.job = Nothing, !.next = Nothing]
        PROVE  IInv'
    <3>1. /\ pass' \in PassType /\ pass'.tried = pass.tried
          /\ pass'.held = pass.held /\ pass'.since = pass.since
      BY <1>1, <2>5 DEF PassType
    <3>2. \A s \in DOMAIN kept'.wanted : Tried(s)'
      BY <1>1, <2>5, <3>1, NoColdJobs DEF Tried, keptVars
    <3> QED BY <1>1, <2>5, <3>1, <3>2, UntoldInv DEF keptVars, callVars, IInv, TypeOK
  <2>6. pass.prefer \in Lanes /\ Other(pass.prefer) \in Lanes
    BY <1>1 DEF PassType, Other, Lanes
  <2> QED BY <1>4, <1>5, <2>3, <2>4, <2>5, <2>6 DEF ChooseJob
<1> QED BY <1>3, <1>4, <1>5 DEF Choose, DueNow

LEMMA LookupInv == ASSUME IInv, NEW s \in Series, LookupAnswered(s) PROVE IInv'
<1>1. KeptOK(kept) /\ pass \in PassType /\ pass.now \in Day
  BY DEF IInv, TypeOK, PassType
<1>2. PICK found \in Show \cup {NoShow} :
        /\ kept' = [kept EXCEPT !.ids = Put(@, s, [show |-> found, at |-> pass.now])]
        /\ pass' = [pass EXCEPT !.next = IF found \in Show \ DOMAIN kept.shows
                                         THEN FetchJob(found) ELSE Nothing]
  BY DEF LookupAnswered
<1> DEFINE ids == Put(kept.ids, s, [show |-> found, at |-> pass.now])
<1>3. DOMAIN ids \subseteq Series /\ \A x \in DOMAIN ids : ids[x] \in Lookup
  BY <1>1 DEF Put, KeptOK, Lookup
<1> HIDE DEF ids
<1>4. kept' = [ids |-> ids, shows |-> kept.shows, wanted |-> kept.wanted, updates |-> kept.updates]
  BY <1>1, <1>2 DEF KeptOK, ids
<1>5. KeptOK(kept')
  BY <1>1, <1>3, <1>4 DEF KeptOK
<1>6. pass' \in PassType /\ pass'.held = pass.held /\ pass'.since = pass.since
  BY <1>1, <1>2, JobsOfType DEF PassType
<1> QED BY <1>5, <1>6, UntoldInv DEF LookupAnswered, callVars, IInv, TypeOK, MaintenanceTurns

LEMMA FetchInv == ASSUME IInv, NEW w \in Show, FetchAnswered(w) PROVE IInv'
<1>1. KeptOK(kept) /\ pass \in PassType /\ pass.now \in Day
  BY DEF IInv, TypeOK, PassType
<1>2. KeptOK(kept')
  <2>1. CASE kept' = [kept EXCEPT !.shows = Put(@, w, pass.now)]
    <3> DEFINE shows == Put(kept.shows, w, pass.now)
    <3>1. DOMAIN shows \subseteq Show /\ \A v \in DOMAIN shows : shows[v] \in Day \cup {Changed}
      BY <1>1 DEF Put, KeptOK
    <3> HIDE DEF shows
    <3>2. kept' = [ids |-> kept.ids, shows |-> shows, wanted |-> kept.wanted, updates |-> kept.updates]
      BY <1>1, <2>1 DEF KeptOK, shows
    <3> QED BY <1>1, <3>1, <3>2 DEF KeptOK
  <2>2. ASSUME kept' # [kept EXCEPT !.shows = Put(@, w, pass.now)] PROVE KeptOK(kept')
    <3> DEFINE shows == Restrict(kept.shows, DOMAIN kept.shows \ {w})
               left == [kept EXCEPT !.shows = shows]
               miss == [show |-> NoShow, at |-> pass.now]
               ids == [x \in DOMAIN left.ids |-> IF left.ids[x].show = w THEN miss ELSE left.ids[x]]
    <3>1. kept' = [left EXCEPT !.ids = ids]
      BY <2>2 DEF FetchAnswered
    <3>2. DOMAIN shows \subseteq DOMAIN kept.shows /\ \A v \in DOMAIN shows : shows[v] = kept.shows[v]
      BY DEF Restrict
    <3>3. left = [ids |-> kept.ids, shows |-> shows, wanted |-> kept.wanted, updates |-> kept.updates]
      <4> HIDE DEF shows
      <4> QED BY <1>1 DEF KeptOK
    <3>4. miss \in Lookup
      BY <1>1 DEF Lookup
    <3>5. DOMAIN ids = DOMAIN kept.ids /\ \A x \in DOMAIN ids : ids[x] \in Lookup
      <4> HIDE DEF left, miss, shows
      <4> QED BY <1>1, <3>3, <3>4 DEF KeptOK
    <3> HIDE DEF ids, left, miss, shows
    <3>6. kept' = [ids |-> ids, shows |-> shows, wanted |-> kept.wanted, updates |-> kept.updates]
      BY <3>1, <3>3
    <3> QED BY <1>1, <3>2, <3>5, <3>6 DEF KeptOK
  <2> QED BY <2>1, <2>2
<1> QED BY <1>1, <1>2, UntoldInv DEF FetchAnswered, callVars, IInv, TypeOK, MaintenanceTurns

LEMMA UnansweredInv == ASSUME IInv, FetchUnreadable \/ AskFails PROVE IInv'
<1>1. mishaps \in 0..MaxMishaps /\ paused \in BOOLEAN
  BY DEF IInv, TypeOK
<1>2. mishaps' = mishaps \/ (mishaps < MaxMishaps /\ mishaps' = mishaps + 1)
  <2>1. CASE FetchUnreadable
    BY <2>1 DEF FetchUnreadable, Mishap
  <2>2. CASE AskFails
    BY <2>2 DEF AskFails
  <2> QED BY <2>1, <2>2
<1>3. paused' \in BOOLEAN
  BY <1>1 DEF FetchUnreadable, AskFails
<1>4. mishaps' \in 0..MaxMishaps
  BY <1>1, <1>2, TvmazeAssumption
<1> QED BY <1>3, <1>4, UntoldInv DEF FetchUnreadable, AskFails, keptVars, callVars, IInv, TypeOK, MaintenanceTurns

LEMMA AskInv == ASSUME IInv, AskStep PROVE IInv'
<1>1. ASSUME NEW job \in Job, JobAnswered(job) PROVE IInv'
  <2>1. CASE job.kind = "lookup"
    <3>1. job.id \in Series
      BY <2>1 DEF Job
    <3> QED BY <1>1, <2>1, <3>1, LookupInv DEF JobAnswered
  <2>2. CASE job.kind # "lookup"
    <3>1. job.id \in Show
      BY <2>2 DEF Job
    <3> QED BY <1>1, <2>2, <3>1, FetchInv DEF JobAnswered
  <2> QED BY <2>1, <2>2
<1> QED BY <1>1, UnansweredInv DEF AskStep

(* A step that tells every request that listens. *)
LEMMA TellInv == ASSUME IInv, Tell \/ PassEnds PROVE IInv'
<1>1. told' \subseteq Caller /\ \A c \in Caller : call[c].at \in {"looked", "waiting"} => c \in told'
  BY DEF Tell, PassEnds, TellAll
<1>2. call' = call /\ kept' = kept
  BY DEF Tell, PassEnds, keptVars
<1>3. WaitersTold'
  BY <1>1, <1>2 DEF WaitersTold
<1>4. CASE Tell
  BY <1>1, <1>3, <1>4 DEF Tell, keptVars, IInv, TypeOK, AllTried, MaintenanceTurns
<1>5. CASE PassEnds
  <2>1. pass' = [NewPass EXCEPT !.tried = pass.tried, !.cut = pass.cut] /\ phase = "end"
    BY <1>5 DEF PassEnds
  <2>2. pass \in PassType
    BY DEF IInv, TypeOK
  <2>3. /\ pass' \in PassType /\ pass'.held = 0 /\ pass'.since = 0
        /\ pass'.tried = pass.tried /\ pass'.cut = pass.cut
    BY <2>1, <2>2, NewPassType DEF PassType
  <2>4. mishaps' \in 0..MaxMishaps /\ file' \in {kept, file} /\ UNCHANGED <<wake, paused, day, calls>>
    BY <1>5, TvmazeAssumption DEF PassEnds, Mishap, IInv, TypeOK
  <2>5. phase' = "asleep"
    BY <1>5 DEF PassEnds
  <2>6. TypeOK'
    BY <1>1, <1>2, <2>3, <2>4, <2>5 DEF IInv, TypeOK
  <2>7. AllTried'
    BY <1>2, <2>1, <2>3, <2>4 DEF IInv, AllTried, Tried
  <2> QED BY <1>3, <2>3, <2>5, <2>6, <2>7, TvmazeAssumption DEF IInv, MaintenanceTurns
<1> QED BY <1>4, <1>5

LEMMA QuietInv == ASSUME IInv, PauseEnds \/ DayPasses PROVE IInv'
<1>1. paused' \in BOOLEAN /\ day' \in Day
  <2>1. paused \in BOOLEAN /\ day \in Day
    BY DEF IInv, TypeOK
  <2>2. paused' \in BOOLEAN
    BY <2>1 DEF PauseEnds, DayPasses
  <2>3. day' \in Day
    BY <2>1, TvmazeAssumption DEF PauseEnds, DayPasses, Day
  <2> QED BY <2>2, <2>3
<1>2. UNCHANGED <<kept, file, wake, phase, pass, call, told, calls, mishaps>>
  BY DEF PauseEnds, DayPasses, keptVars, callVars
<1> QED BY <1>1, <1>2 DEF IInv, TypeOK, WaitersTold, AllTried, Tried, MaintenanceTurns

LEMMA RestartInv == ASSUME IInv, Restart PROVE IInv'
<1>1. KeptOK(kept') /\ KeptOK(file')
  BY DEF Restart, IInv, TypeOK
<1>2. call' \in [Caller -> CallType] /\ \A c \in Caller : call'[c].at = "out"
  BY OutType DEF Restart
<1>3. pass' \in PassType /\ pass'.held = 0 /\ pass'.since = 0
  BY NewPassType DEF Restart
<1>4. mishaps' \in 0..MaxMishaps
  BY TvmazeAssumption DEF Restart, Mishap, IInv, TypeOK
<1>5. TypeOK'
  BY <1>1, <1>2, <1>3, <1>4 DEF Restart, IInv, TypeOK
<1> QED BY <1>2, <1>3, <1>5, TvmazeAssumption DEF Restart, IInv, WaitersTold, AllTried, MaintenanceTurns

LEMMA NextInv == IInv /\ [Next]_vars => IInv'
<1> SUFFICES ASSUME IInv, [Next]_vars PROVE IInv'
  OBVIOUS
<1>1. CASE PassStep
  BY <1>1, PassBeginsInv, FeedInv, ChooseInv, TellInv DEF PassStep
<1>2. CASE AskStep
  BY <1>2, AskInv
<1>3. ASSUME NEW c \in Caller, Open(c) PROVE IInv'
  <2>1. PICK s \in Title : Note(c, <<s>>, TRUE)
    BY <1>3 DEF Open
  <2>2. <<s>> \in Seq(Series)
    BY TvmazeAssumption
  <2> QED BY <2>1, <2>2, NoteInv
<1>4. ASSUME NEW c \in Caller, Sweep(c) PROVE IInv'
  BY <1>4, TvmazeAssumption, NoteInv DEF Sweep
<1>5. ASSUME NEW c \in Caller, CallStep(c) \/ GiveUp(c) PROVE IInv'
  BY <1>5, RequestInv
<1>6. CASE PauseEnds \/ DayPasses \/ Restart
  BY <1>6, QuietInv, RestartInv
<1>7. CASE UNCHANGED vars
  BY <1>7 DEF vars, IInv, TypeOK, WaitersTold, AllTried, Tried, MaintenanceTurns
<1> QED BY <1>1, <1>2, <1>3, <1>4, <1>5, <1>6, <1>7 DEF Next

(* The inductive invariant holds of every behaviour: what is kept is well  *)
(* formed, a request that waits is told, a pass tries all that is wanted,  *)
(* and maintenance waits for a bounded number of series.                   *)
THEOREM Invariance == Spec => []IInv
<1> QED BY InitInv, NextInv, PTL DEF Spec

(* Tvmaze::settle: an answer kept while a request waits for it is told to  *)
(* it, whenever it began to listen.                                        *)
THEOREM WaiterIsTold == Spec => []WaitersTold
<1>1. IInv => WaitersTold
  BY DEF IInv
<1> QED BY <1>1, Invariance, PTL

(* Tvmaze::refresh: what is wanted while no pass runs was tried by the     *)
(* last one, unless a pause cut it off, or has woken the next.             *)
THEOREM NothingIsLeftBehind == Spec => []NothingLeftBehind
<1>1. IInv => NothingLeftBehind
  BY DEF IInv, AllTried, NothingLeftBehind
<1> QED BY <1>1, Invariance, PTL

(* The pass's choice: maintenance that is due waits for no more than       *)
(* FOREGROUND_BEFORE_MAINTENANCE series.                                   *)
THEOREM MaintenanceHasItsTurn == Spec => []MaintenanceTurns
<1>1. IInv => MaintenanceTurns
  BY DEF IInv
<1> QED BY <1>1, Invariance, PTL

(* A pass's other steps leave every answer there is. *)
LEMMA AnswersStand ==
    ASSUME IInv, NEW s \in DOMAIN kept.wanted \cap DOMAIN kept'.wanted, ~Unanswered(kept, s),
           kept'.ids = kept.ids, DOMAIN kept.shows \subseteq DOMAIN kept'.shows
    PROVE  ~Unanswered(kept', s)
BY DEF Unanswered, Resolved

LEMMA StepKeepsAnswers ==
    ASSUME IInv, Next, mishaps' = mishaps,
           NEW s \in DOMAIN kept.wanted \cap DOMAIN kept'.wanted,
           ~Unanswered(kept, s), Unanswered(kept', s)
    PROVE  pass.job = LookupJob(s)
<1>1. KeptOK(kept) /\ pass \in PassType /\ mishaps \in Nat
  BY TvmazeAssumption DEF IInv, TypeOK
<1>2. CASE PassBegins
  <2> DEFINE left == Pruned(kept, day)
             seen == IF DOMAIN left.shows = {} THEN day ELSE left.updates
  <2>1. kept' = [left EXCEPT !.updates = seen]
    BY <1>2 DEF PassBegins
  <2>2. /\ KeptOK(left)
        /\ \A x \in DOMAIN left.wanted : ~Unanswered(kept, x) => ~Unanswered(left, x)
    BY <1>1, PrunedKeeps
  <2> HIDE DEF left, seen
  <2>3. kept' = [ids |-> left.ids, shows |-> left.shows, wanted |-> left.wanted, updates |-> seen]
    BY <2>1, <2>2 DEF KeptOK
  <2> QED BY <2>2, <2>3 DEF Unanswered, Resolved
<1>3. CASE FeedRead
  <2> DEFINE read == [kept EXCEPT !.updates = pass.now]
  <2>1. read = [ids |-> kept.ids, shows |-> kept.shows, wanted |-> kept.wanted, updates |-> pass.now]
    BY <1>1 DEF KeptOK
  <2>2. PICK named \in SUBSET DOMAIN kept.shows :
          kept' = [read EXCEPT !.shows = [w \in DOMAIN @ |-> IF w \in named THEN Changed ELSE @[w]]]
    BY <1>3 DEF FeedRead
  <2> DEFINE shows == [w \in DOMAIN read.shows |-> IF w \in named THEN Changed ELSE read.shows[w]]
  <2>3. kept' = [read EXCEPT !.shows = shows]
    BY <2>2
  <2>4. DOMAIN shows = DOMAIN kept.shows
    <3> HIDE DEF read
    <3> QED BY <2>1
  <2> HIDE DEF shows, read
  <2>5. kept' = [ids |-> kept.ids, shows |-> shows, wanted |-> kept.wanted, updates |-> pass.now]
    BY <2>1, <2>3
  <2> QED BY <2>4, <2>5, AnswersStand
<1>4. ASSUME NEW x \in Series, LookupAnswered(x) PROVE pass.job = LookupJob(s)
  <2>1. PICK found \in Show \cup {NoShow} :
          kept' = [kept EXCEPT !.ids = Put(@, x, [show |-> found, at |-> pass.now])]
    BY <1>4 DEF LookupAnswered
  <2> DEFINE ids == Put(kept.ids, x, [show |-> found, at |-> pass.now])
  <2>2. /\ x # s /\ s \in DOMAIN kept.ids => s \in DOMAIN ids /\ ids[s] = kept.ids[s]
    BY DEF Put
  <2> HIDE DEF ids
  <2>3. kept' = [ids |-> ids, shows |-> kept.shows, wanted |-> kept.wanted, updates |-> kept.updates]
    BY <1>1, <2>1 DEF KeptOK, ids
  <2>4. x = s
    BY <2>2, <2>3 DEF Unanswered, Resolved
  <2> QED BY <1>4, <2>4 DEF LookupAnswered
<1>5. ASSUME NEW w \in Show, FetchAnswered(w) PROVE FALSE
  <2>1. CASE kept' = [kept EXCEPT !.shows = Put(@, w, pass.now)]
    <3> DEFINE shows == Put(kept.shows, w, pass.now)
    <3>1. DOMAIN kept.shows \subseteq DOMAIN shows
      BY DEF Put
    <3> HIDE DEF shows
    <3>2. kept' = [ids |-> kept.ids, shows |-> shows, wanted |-> kept.wanted, updates |-> kept.updates]
      BY <1>1, <2>1 DEF KeptOK, shows
    <3> QED BY <3>1, <3>2, AnswersStand
  <2>2. ASSUME kept' # [kept EXCEPT !.shows = Put(@, w, pass.now)] PROVE FALSE
    <3> DEFINE shows == Restrict(kept.shows, DOMAIN kept.shows \ {w})
               left == [kept EXCEPT !.shows = shows]
               miss == [show |-> NoShow, at |-> pass.now]
               ids == [x \in DOMAIN left.ids |-> IF left.ids[x].show = w THEN miss ELSE left.ids[x]]
    <3>1. kept' = [left EXCEPT !.ids = ids]
      BY <1>5, <2>2 DEF FetchAnswered
    <3>2. DOMAIN shows = DOMAIN kept.shows \ {w}
      BY DEF Restrict
    <3>3. left = [ids |-> kept.ids, shows |-> shows, wanted |-> kept.wanted, updates |-> kept.updates]
      <4> HIDE DEF shows
      <4> QED BY <1>1 DEF KeptOK
    <3>4. /\ DOMAIN ids = DOMAIN kept.ids
          /\ \A x \in DOMAIN ids : ids[x] = IF kept.ids[x].show = w THEN miss ELSE kept.ids[x]
      <4> HIDE DEF left, miss, shows
      <4> QED BY <3>3
    <3>5. miss.show = NoShow
      OBVIOUS
    <3> HIDE DEF ids, left, miss, shows
    <3>6. kept'.ids = ids /\ kept'.shows = shows
      BY <3>1, <3>3
    <3>7. s \in DOMAIN kept.ids
      BY DEF Unanswered
    <3>8. CASE kept.ids[s].show = w
      BY <3>4, <3>5, <3>6, <3>7, <3>8 DEF Unanswered, Resolved
    <3>9. CASE kept.ids[s].show # w
      BY <3>2, <3>4, <3>6, <3>7, <3>9 DEF Unanswered, Resolved
    <3> QED BY <3>8, <3>9
  <2> QED BY <2>1, <2>2
<1>6. ASSUME NEW c \in Caller, NEW asks \in Seq(Series), NEW alone, Note(c, asks, alone) PROVE FALSE
  <2>1. kept'.ids = kept.ids /\ kept'.shows = kept.shows
    BY <1>1, <1>6, WantingKeeps, SeriesOf DEF Note, IInv, TypeOK
  <2> QED BY <2>1, AnswersStand
<1>7. CASE UNCHANGED kept
  BY <1>7
<1>8. CASE PassStep
  BY <1>2, <1>3, <1>7, <1>8 DEF PassStep, FeedFails, Choose, Tell, PassEnds, keptVars
<1>9. CASE AskStep
  <2>1. ASSUME NEW job \in Job, JobAnswered(job) PROVE pass.job = LookupJob(s)
    <3>1. CASE job.kind = "lookup"
      <4>1. job.id \in Series
        BY <3>1 DEF Job
      <4> QED BY <1>4, <2>1, <3>1, <4>1 DEF JobAnswered
    <3>2. CASE job.kind # "lookup"
      <4>1. job.id \in Show
        BY <3>2 DEF Job
      <4> QED BY <1>5, <2>1, <3>2, <4>1 DEF JobAnswered
    <3> QED BY <3>1, <3>2
  <2>2. CASE AskFails \/ FetchUnreadable
    BY <1>7, <2>2 DEF AskFails, FetchUnreadable, keptVars
  <2> QED BY <1>9, <2>1, <2>2 DEF AskStep
<1>10. ASSUME NEW c \in Caller, Open(c) \/ Sweep(c) PROVE FALSE
  <2>1. CASE Open(c)
    <3>1. PICK x \in Title : Note(c, <<x>>, TRUE)
      BY <2>1 DEF Open
    <3>2. <<x>> \in Seq(Series)
      BY TvmazeAssumption
    <3> QED BY <1>6, <3>1, <3>2
  <2>2. CASE Sweep(c)
    BY <1>6, <2>2, TvmazeAssumption DEF Sweep
  <2> QED BY <1>10, <2>1, <2>2
<1>11. ASSUME NEW c \in Caller, CallStep(c) \/ GiveUp(c) PROVE FALSE
  BY <1>7, <1>11 DEF CallStep, Enqueue, Listen, Look, Wait, GiveUp, keptVars
<1>12. CASE PauseEnds \/ DayPasses
  BY <1>7, <1>12 DEF PauseEnds, DayPasses, keptVars
<1>13. CASE Restart
  BY <1>1, <1>13 DEF Restart, Mishap
<1> QED BY <1>8, <1>9, <1>10, <1>11, <1>12, <1>13 DEF Next

(* An answer for a series still wanted is lost to the series' own lookup   *)
(* only, or to a restart: pruning, the feed, another series' miss and a    *)
(* show gone from TVmaze leave it.                                         *)
THEOREM NoAnswerIsLost == Spec => AnswerStays
<1>1. IInv /\ [Next]_vars => [\A s \in DOMAIN kept.wanted \cap DOMAIN kept'.wanted :
        ~Unanswered(kept, s) /\ mishaps' = mishaps /\ Unanswered(kept', s) => pass.job = LookupJob(s)]_vars
  BY StepKeepsAnswers
<1> QED BY <1>1, Invariance, PTL DEF Spec, AnswerStays

-----------------------------------------------------------------------------
(* What is picked of a sequence.                                           *)

(* The members picked stand in the order they had, each at a place of its own. *)
PickedAt(r, q, places) ==
    \E at \in [DOMAIN r -> places] :
        /\ \A n \in DOMAIN r : r[n] = q[at[n]]
        /\ \A m, n \in DOMAIN r : at[m] = at[n] => m = n
        /\ \A i \in places : \E n \in DOMAIN r : at[n] = i

LEMMA PickedFacts ==
    ASSUME NEW T, NEW q \in Seq(T), NEW places \in SUBSET DOMAIN q
    PROVE  /\ PickedFrom(q, places) \in Seq(T)
           /\ PickedAt(PickedFrom(q, places), q, places)
<1> DEFINE M == Cardinality(places)
           number == [i \in places |-> i]
           at == [n \in 1..M |-> CHOOSE i \in places : Cardinality({j \in places : j < i}) = n - 1]
           r == PickedFrom(q, places)
<1>1. DOMAIN q = 1..Len(q) /\ Len(q) \in Nat /\ \A i \in DOMAIN q : q[i] \in T
  OBVIOUS
<1>2. IsFiniteSet(DOMAIN q)
  BY <1>1, FirstNumbers
<1>3. IsFiniteSet(places) /\ M \in Nat
  BY <1>2, Fewer, Zenon
<1>4. \A i \in places : number[i] \in Int /\ number[i] = i /\ i \in DOMAIN q
  BY <1>1
<1>5. \A i, j \in places : number[i] = number[j] => i = j
  BY <1>4
<1>6. \A i \in places : RankIn(places, number, i) = Cardinality({j \in places : j < i})
  <2>1. \A i \in places : {j \in places : number[j] < number[i]} = {j \in places : j < i}
    BY <1>4
  <2> QED BY <2>1 DEF RankIn
<1> HIDE DEF number, M
<1>7. RankedApart(places, number)
  BY <1>3, <1>4, <1>5, RanksFill
<1>8. /\ \A i \in places : RankIn(places, number, i) \in 0..(M - 1)
      /\ \A i, j \in places : RankIn(places, number, i) = RankIn(places, number, j) => i = j
      /\ \A n \in 1..M : \E i \in places : RankIn(places, number, i) = n - 1
  BY <1>7 DEF RankedApart, M
<1>9. \A n \in 1..M : at[n] \in places /\ RankIn(places, number, at[n]) = n - 1
  <2> TAKE n \in 1..M
  <2>1. \E i \in places : Cardinality({j \in places : j < i}) = n - 1
    BY <1>6, <1>8
  <2>2. at[n] \in places /\ Cardinality({j \in places : j < at[n]}) = n - 1
    BY <2>1
  <2> QED BY <1>6, <2>2
<1>10. r = [n \in 1..M |-> q[at[n]]]
  BY DEF PickedFrom, M
<1> HIDE DEF at, r
<1>11. r \in Seq(T) /\ DOMAIN r = 1..M
  <2>1. r \in [1..M -> T]
    BY <1>4, <1>1, <1>9, <1>10
  <2> QED BY <1>3, <2>1
<1>12. at \in [DOMAIN r -> places]
  BY <1>9, <1>11 DEF at
<1>13. \A m, n \in 1..M : at[m] = at[n] => m = n
  BY <1>3, <1>9
<1>14. ASSUME NEW i \in places PROVE \E n \in 1..M : at[n] = i
  <2> DEFINE n == RankIn(places, number, i) + 1
  <2>1. n \in 1..M /\ RankIn(places, number, i) = n - 1
    BY <1>3, <1>8
  <2> HIDE DEF n
  <2> QED BY <1>8, <1>9, <2>1
<1> QED BY <1>10, <1>11, <1>12, <1>13, <1>14 DEF PickedAt, r

(* What is left without some members.                                       *)
LeftOf(r, q, gone) ==
    Range(r) = Range(q) \ gone /\ PickedAt(r, q, {i \in DOMAIN q : q[i] \notin gone})

LEMMA WithoutFacts ==
    ASSUME NEW T, NEW q \in Seq(T), NEW gone
    PROVE  Without(q, gone) \in Seq(T) /\ LeftOf(Without(q, gone), q, gone)
<1> DEFINE places == {i \in DOMAIN q : q[i] \notin gone}
           r == Without(q, gone)
<1>1. r \in Seq(T) /\ PickedAt(r, q, places)
  BY PickedFacts DEF Without
<1> HIDE DEF r
<1>2. PICK at \in [DOMAIN r -> places] :
        /\ \A n \in DOMAIN r : r[n] = q[at[n]]
        /\ \A i \in places : \E n \in DOMAIN r : at[n] = i
  BY <1>1 DEF PickedAt
<1>3. Range(r) = Range(q) \ gone
  BY <1>2 DEF Range
<1> QED BY <1>1, <1>3 DEF LeftOf, r

(* Nothing stands twice in what is picked of a line in which nothing does.  *)
LEMMA PickedOnce ==
    ASSUME NEW r, NEW q, NEW places \in SUBSET DOMAIN q, PickedAt(r, q, places),
           \A i, j \in places : q[i] = q[j] => i = j
    PROVE  IsInjective(r)
BY DEF PickedAt, IsInjective

-----------------------------------------------------------------------------
(* The batches.                                                            *)

Members(b) == UNION {Range(b[i]) : i \in DOMAIN b}

(* No series is twice in the batches.                                       *)
Apart(b) ==
    /\ \A i \in DOMAIN b : IsInjective(b[i])
    /\ \A i, j \in DOMAIN b : i # j => Range(b[i]) \cap Range(b[j]) = {}

LEMMA MemberOf == \A b, x : x \in Members(b) <=> \E i \in DOMAIN b : x \in Range(b[i])
BY DEF Members

(* Batches picked of batches that are apart are apart.                      *)
LEMMA PickedApart ==
    ASSUME NEW r, NEW q, Apart(q), NEW places \in SUBSET DOMAIN q, PickedAt(r, q, places)
    PROVE  Apart(r) /\ Members(r) \subseteq Members(q)
<1>1. PICK at \in [DOMAIN r -> places] :
        /\ \A n \in DOMAIN r : r[n] = q[at[n]]
        /\ \A m, n \in DOMAIN r : at[m] = at[n] => m = n
  BY DEF PickedAt
<1>2. \A n \in DOMAIN r : at[n] \in DOMAIN q
  BY <1>1
<1>3. Apart(r)
  BY <1>1, <1>2 DEF Apart
<1>4. ASSUME NEW x \in Members(r) PROVE x \in Members(q)
  <2>1. PICK n \in DOMAIN r : x \in Range(r[n])
    BY MemberOf
  <2>2. x \in Range(q[at[n]]) /\ at[n] \in DOMAIN q
    BY <1>1, <1>2, <2>1
  <2> QED BY <2>2, MemberOf
<1> QED BY <1>3, <1>4

(* The batches that are left when those that are empty go.                  *)
LEMMA NoneEmpty ==
    ASSUME NEW T, NEW b \in Seq(Seq(T)), Apart(b)
    PROVE  LET r == Without(b, {<<>>})
           IN  /\ r \in Seq(Seq(T)) /\ Apart(r) /\ Members(r) = Members(b)
               /\ \A i \in DOMAIN r : r[i] # <<>>
<1> DEFINE none == {<<>>}
           r == Without(b, none)
           places == {i \in DOMAIN b : b[i] \notin none}
<1> HIDE DEF none
<1>1. r \in Seq(Seq(T)) /\ Range(r) = Range(b) \ none /\ PickedAt(r, b, places)
  <2>1. r \in Seq(Seq(T)) /\ LeftOf(r, b, none)
    BY WithoutFacts
  <2> QED BY <2>1 DEF LeftOf
<1> HIDE DEF r
<1>2. Apart(r) /\ Members(r) \subseteq Members(b)
  <2>1. places \in SUBSET DOMAIN b
    OBVIOUS
  <2> HIDE DEF places
  <2> QED BY <1>1, <2>1, PickedApart
<1>3. ASSUME NEW x \in Members(b) PROVE x \in Members(r)
  <2>1. PICK i \in DOMAIN b : x \in Range(b[i])
    BY MemberOf
  <2>2. b[i] # <<>>
    BY <2>1 DEF Range
  <2>3. b[i] \in Range(r)
    BY <1>1, <2>2 DEF Range, none
  <2>4. PICK n \in DOMAIN r : r[n] = b[i]
    BY <2>3 DEF Range
  <2> QED BY <2>1, <2>4, MemberOf
<1>4. \A i \in DOMAIN r : r[i] # <<>>
  BY <1>1 DEF Range, none
<1> QED BY <1>1, <1>2, <1>3, <1>4 DEF r, none

LEMMA JoinedApart ==
    ASSUME NEW T, NEW a \in Seq(T), NEW b \in Seq(T), Apart(a), Apart(b),
           Members(a) \cap Members(b) = {}
    PROVE  Apart(a \o b) /\ Members(a \o b) = Members(a) \cup Members(b)
<1> DEFINE n == Len(a)
           c == a \o b
<1>1. /\ n \in Nat /\ DOMAIN c \subseteq Int /\ Range(c) = Range(a) \cup Range(b)
      /\ \A i \in DOMAIN c : \/ i \in DOMAIN a /\ c[i] = a[i]
                             \/ i \notin DOMAIN a /\ i - n \in DOMAIN b /\ c[i] = b[i - n]
  BY JoinedFacts
<1> HIDE DEF n, c
<1>2. \A i \in DOMAIN a, j \in DOMAIN b : Range(a[i]) \cap Range(b[j]) = {}
  BY MemberOf
<1>3. \A i, j \in DOMAIN c : i - n = j - n => i = j
  BY <1>1
<1>4. \A i \in DOMAIN c : IsInjective(c[i])
  BY <1>1 DEF Apart
<1>5. ASSUME NEW i \in DOMAIN c, NEW j \in DOMAIN c, i # j PROVE Range(c[i]) \cap Range(c[j]) = {}
  <2>1. CASE i \in DOMAIN a /\ j \in DOMAIN a
    BY <1>1, <1>5, <2>1 DEF Apart
  <2>2. CASE i \notin DOMAIN a /\ j \notin DOMAIN a
    BY <1>1, <1>3, <1>5, <2>2 DEF Apart
  <2>3. CASE i \in DOMAIN a /\ j \notin DOMAIN a
    BY <1>1, <1>2, <2>3
  <2>4. CASE i \notin DOMAIN a /\ j \in DOMAIN a
    BY <1>1, <1>2, <2>4
  <2> QED BY <2>1, <2>2, <2>3, <2>4
<1>6. \A x : x \in Members(c) <=> \E y \in Range(c) : x \in Range(y)
  BY MemberOf DEF Range
<1>7. \A x : /\ x \in Members(a) <=> \E y \in Range(a) : x \in Range(y)
             /\ x \in Members(b) <=> \E y \in Range(b) : x \in Range(y)
  BY MemberOf DEF Range
<1>8. Members(c) = Members(a) \cup Members(b)
  BY <1>1, <1>6, <1>7
<1> QED BY <1>4, <1>5, <1>8 DEF Apart, c

(* What is left of the batches without some series.                         *)
LEMMA EachWithout ==
    ASSUME NEW T, NEW b \in Seq(Seq(T)), Apart(b), NEW gone
    PROVE  LET r == [i \in DOMAIN b |-> Without(b[i], gone)]
           IN  r \in Seq(Seq(T)) /\ Apart(r) /\ Members(r) = Members(b) \ gone
<1> DEFINE r == [i \in DOMAIN b |-> Without(b[i], gone)]
<1>1. DOMAIN b = 1..Len(b) /\ Len(b) \in Nat /\ \A i \in DOMAIN b : b[i] \in Seq(T)
  OBVIOUS
<1>2. \A i \in DOMAIN b : r[i] \in Seq(T) /\ LeftOf(r[i], b[i], gone)
  BY <1>1, WithoutFacts
<1>3. r \in Seq(Seq(T)) /\ DOMAIN r = DOMAIN b
  BY <1>1, <1>2
<1> HIDE DEF r
<1>4. \A i \in DOMAIN b : Range(r[i]) = Range(b[i]) \ gone
  BY <1>2 DEF LeftOf
<1>5. ASSUME NEW i \in DOMAIN b PROVE IsInjective(r[i])
  <2> DEFINE q == b[i]
             places == {j \in DOMAIN q : q[j] \notin gone}
  <2>1. PickedAt(r[i], q, places) /\ IsInjective(q)
    BY <1>2 DEF LeftOf, Apart
  <2>2. places \in SUBSET DOMAIN q /\ \A j, k \in places : q[j] = q[k] => j = k
    BY <2>1 DEF IsInjective
  <2> HIDE DEF places, q
  <2> QED BY <2>1, <2>2, PickedOnce
<1>6. Apart(r)
  BY <1>3, <1>4, <1>5 DEF Apart
<1>7. Members(r) = Members(b) \ gone
  BY <1>3, <1>4, MemberOf
<1> QED BY <1>3, <1>6, <1>7 DEF r

(* One batch more.                                                         *)
LEMMA AppendedApart ==
    ASSUME NEW T, NEW b \in Seq(Seq(T)), Apart(b), NEW x \in Seq(T), IsInjective(x),
           Range(x) \cap Members(b) = {}
    PROVE  LET r == Append(b, x)
           IN  r \in Seq(Seq(T)) /\ Apart(r) /\ Members(r) = Members(b) \cup Range(x)
<1> DEFINE r == Append(b, x)
           n == Len(b)
<1>1. /\ r \in Seq(Seq(T)) /\ DOMAIN r = 1..(n + 1) /\ n \in Nat /\ DOMAIN b = 1..n
      /\ r[n + 1] = x /\ \A i \in 1..n : r[i] = b[i]
  OBVIOUS
<1> HIDE DEF r, n
<1>2. DOMAIN r = DOMAIN b \cup {n + 1} /\ n + 1 \notin DOMAIN b /\ \A i \in DOMAIN b : r[i] = b[i]
  BY <1>1
<1>3. \A i \in DOMAIN b : Range(b[i]) \cap Range(x) = {}
  BY MemberOf
<1>4. Apart(r)
  BY <1>1, <1>2, <1>3 DEF Apart
<1>5. Members(r) = Members(b) \cup Range(x)
  BY <1>1, <1>2, MemberOf
<1> QED BY <1>1, <1>4, <1>5 DEF r

-----------------------------------------------------------------------------
(* The lanes.                                                              *)

(* QueueMatches, as the lemmas have it.                                     *)
LanesOK ==
    /\ singles \in Seq(Series) /\ batches \in Seq(Seq(Series))
    /\ queued = Range(singles) \cup Members(batches)
    /\ Range(singles) \cap Members(batches) = {}
    /\ IsInjective(singles) /\ Apart(batches)
    /\ \A i \in DOMAIN batches : batches[i] # <<>>

LEMMA LanesMatch == LanesOK => QueueMatches
<1> SUFFICES ASSUME LanesOK PROVE QueueMatches
  OBVIOUS
<1>1. Members(batches) = Batched
  BY DEF Members, Batched
<1>2. \A i \in DOMAIN batches : batches[i] \in Seq(Series)
  BY DEF LanesOK
<1>3. queued \subseteq Series
  <2>1. Range(singles) \subseteq Series
    BY DEF LanesOK, Range
  <2>2. \A i \in DOMAIN batches : Range(batches[i]) \subseteq Series
    BY <1>2 DEF Range
  <2>3. Members(batches) \subseteq Series
    BY <2>2, MemberOf
  <2> QED BY <2>1, <2>3 DEF LanesOK
<1>4. ASSUME NEW i \in DOMAIN batches, NEW j \in DOMAIN batches, NEW m \in DOMAIN batches[i],
             NEW n \in DOMAIN batches[j], batches[i][m] = batches[j][n]
      PROVE  i = j /\ m = n
  <2>1. batches[i][m] \in Range(batches[i]) \cap Range(batches[j])
    BY <1>4 DEF Range
  <2>2. i = j
    BY <2>1 DEF LanesOK, Apart
  <2> QED BY <1>4, <2>2 DEF LanesOK, Apart, IsInjective
<1> QED BY <1>1, <1>3, <1>4 DEF LanesOK, QueueMatches, IsInjective

(* A title opened leaves the batches for the singles.                       *)
LEMMA SingleKeepsLanes ==
    ASSUME LanesOK, NEW s \in Series, EnqueueSingle(s)
    PROVE  LanesOK'
<1>1. CASE s \in Range(singles)
  BY <1>1 DEF EnqueueSingle, foregroundVars, LanesOK
<1>2. CASE s \notin Range(singles)
  <2> DEFINE only == [i \in DOMAIN batches |-> Without(batches[i], {s})]
             left == Without(only, {<<>>})
  <2>1. /\ singles \in Seq(Series) /\ IsInjective(singles)
        /\ batches \in Seq(Seq(Series)) /\ Apart(batches)
    BY DEF LanesOK
  <2>2. only \in Seq(Seq(Series)) /\ Apart(only) /\ Members(only) = Members(batches) \ {s}
    BY <2>1, EachWithout
  <2>3. singles' = Append(singles, s) /\ batches' = left /\ queued' = queued \cup {s}
    BY <1>2 DEF EnqueueSingle
  <2> HIDE DEF only
  <2>4. /\ left \in Seq(Seq(Series)) /\ Apart(left) /\ Members(left) = Members(only)
        /\ \A i \in DOMAIN left : left[i] # <<>>
    BY <2>2, NoneEmpty
  <2>5. s \notin ToSet(singles)
    BY <1>2 DEF ToSet, Range
  <2>6. /\ Append(singles, s) \in Seq(Series) /\ IsInjective(Append(singles, s))
        /\ ToSet(Append(singles, s)) = ToSet(singles) \cup {s}
    BY <2>1, <2>5, AppendToQueue
  <2>7. Range(singles') = Range(singles) \cup {s}
    BY <2>3, <2>6 DEF ToSet, Range
  <2> HIDE DEF left
  <2>8. /\ queued = Range(singles) \cup Members(batches)
        /\ Range(singles) \cap Members(batches) = {}
    BY DEF LanesOK
  <2>9. /\ queued' = Range(singles') \cup Members(batches')
        /\ Range(singles') \cap Members(batches') = {}
    BY <1>2, <2>2, <2>3, <2>4, <2>7, <2>8
  <2> QED BY <2>3, <2>4, <2>6, <2>9 DEF LanesOK
<1> QED BY <1>1, <1>2

(* A following's batch holds what no lane holds yet, each once.             *)
LEMMA BatchKeepsLanes ==
    ASSUME LanesOK, NEW sweep, sweep.asks \in Seq(Series), EnqueueBatch(sweep)
    PROVE  LanesOK'
<1> DEFINE asks == sweep.asks
           places == {i \in DOMAIN asks : /\ asks[i] \in sweep.pending \ queued
                                          /\ \A j \in 1..(i - 1) : asks[j] # asks[i]}
           once == PickedFrom(asks, places)
<1>1. /\ batches' = IF once = <<>> THEN batches ELSE Append(batches, once)
      /\ queued' = queued \cup Range(once) /\ singles' = singles
  BY DEF EnqueueBatch
<1>2. asks \in Seq(Series) /\ DOMAIN asks = 1..Len(asks) /\ Len(asks) \in Nat
  OBVIOUS
<1>3. \A i \in places : i \in DOMAIN asks /\ asks[i] \notin queued
  OBVIOUS
<1>4. ASSUME NEW i \in places, NEW j \in places, asks[i] = asks[j] PROVE i = j
  <2>1. i \in Int /\ j \in Int /\ i >= 1 /\ j >= 1
    BY <1>2
  <2>2. ~(i < j) /\ ~(j < i)
    BY <1>4, <2>1
  <2> QED BY <2>1, <2>2
<1> HIDE DEF asks, places
<1>5. places \in SUBSET DOMAIN asks
  BY <1>3
<1>6. once \in Seq(Series) /\ PickedAt(once, asks, places)
  BY <1>2, <1>5, PickedFacts
<1> HIDE DEF once
<1>7. IsInjective(once)
  BY <1>4, <1>5, <1>6, PickedOnce
<1>8. Range(once) \cap queued = {}
  BY <1>3, <1>6 DEF PickedAt, Range
<1>9. /\ batches \in Seq(Seq(Series)) /\ Apart(batches) /\ \A i \in DOMAIN batches : batches[i] # <<>>
      /\ queued = Range(singles) \cup Members(batches)
      /\ Range(singles) \cap Members(batches) = {}
  BY DEF LanesOK
<1>10. CASE once = <<>>
  <2>1. Range(once) = {}
    BY <1>10 DEF Range
  <2> QED BY <1>1, <1>10, <2>1 DEF LanesOK
<1>11. CASE once # <<>>
  <2> DEFINE more == Append(batches, once)
  <2>1. Range(once) \cap Members(batches) = {}
    BY <1>8, <1>9
  <2>2. more \in Seq(Seq(Series)) /\ Apart(more) /\ Members(more) = Members(batches) \cup Range(once)
    BY <1>6, <1>7, <1>9, <2>1, AppendedApart
  <2>3. \A i \in DOMAIN more : more[i] # <<>>
    <3>1. /\ DOMAIN more = 1..(Len(batches) + 1) /\ more[Len(batches) + 1] = once
          /\ \A i \in 1..Len(batches) : more[i] = batches[i]
      BY <1>6, <1>9, AppendIsLonger
    <3>2. \A i \in DOMAIN more : i \in DOMAIN batches \/ i = Len(batches) + 1
      BY <1>9, <3>1
    <3> HIDE DEF more
    <3> QED BY <1>9, <1>11, <3>1, <3>2
  <2>4. batches' = more
    BY <1>1, <1>11
  <2> HIDE DEF more
  <2>5. /\ queued' = Range(singles') \cup Members(batches')
        /\ Range(singles') \cap Members(batches') = {}
    BY <1>1, <1>8, <1>9, <2>2, <2>4
  <2> QED BY <1>1, <2>2, <2>3, <2>4, <2>5 DEF LanesOK
<1> QED BY <1>10, <1>11

(* A lane is looked through from its head to the first job, or past its end. *)
LEMMA ReadyFacts ==
    ASSUME NEW q \in Seq(Series)
    PROVE  ReadyAt(q) \in 1..(Len(q) + 1)
<1> DEFINE ready == {i \in 1..Len(q) : FirstJob(kept, q[i]) \notin {Nothing} \cup pass.tried}
<1>1. Len(q) \in Nat /\ ready \subseteq 1..Len(q)
  OBVIOUS
<1>2. ReadyAt(q) = IF ready = {} THEN Len(q) + 1 ELSE CHOOSE i \in ready : \A j \in ready : i <= j
  BY DEF ReadyAt
<1> HIDE DEF ready
<1>3. ready # {} => \E i \in ready : \A j \in ready : i <= j
  BY <1>1, LeastOf
<1>4. ready # {} => ReadyAt(q) \in ready
  BY <1>2, <1>3
<1>5. ready = {} => ReadyAt(q) = Len(q) + 1
  BY <1>2
<1>6. 1..Len(q) \subseteq 1..(Len(q) + 1) /\ Len(q) + 1 \in 1..(Len(q) + 1)
  BY <1>1
<1> HIDE DEF ready
<1> QED BY <1>1, <1>4, <1>5, <1>6

(* The singles lose what is answered of those looked through.               *)
LEMMA SinglesTurnedFacts ==
    ASSUME LanesOK
    PROVE  /\ SinglesTurned \in Seq(Series) /\ IsInjective(SinglesTurned)
           /\ Range(SinglesTurned) = Range(singles) \ Answered("single")
           /\ Answered("single") \subseteq Range(singles)
<1> DEFINE i == ReadyAt(singles)
           a == SubSeq(singles, 1, i - 1)
           b == SubSeq(singles, i, Len(singles))
           gone == {s \in Series : Done(s)}
           left == Without(a, gone)
<1>1. singles \in Seq(Series) /\ IsInjective(singles) /\ i \in 1..(Len(singles) + 1)
  BY ReadyFacts DEF LanesOK
<1>2. SinglesTurned = b \o left
  BY DEF SinglesTurned
<1>3. Answered("single") = {s \in Range(a) : Done(s)}
  BY DEF Answered, Heads
<1>4. Len(singles) \in Nat /\ DOMAIN singles = 1..Len(singles)
  BY <1>1
<1> HIDE DEF i
<1>5. /\ a \in Seq(Series) /\ DOMAIN a = 1..(i - 1)
      /\ \A j \in 1..(i - 1) : j \in DOMAIN singles /\ a[j] = singles[j]
      /\ Range(a) = {singles[j] : j \in 1..(i - 1)}
  BY <1>1, CutFacts
<1>6. /\ b \in Seq(Series) /\ DOMAIN b = 1..(Len(singles) - i + 1)
      /\ \A j \in 1..(Len(singles) - i + 1) : j + i - 1 \in DOMAIN singles /\ b[j] = singles[j + i - 1]
      /\ Range(b) = {singles[j] : j \in i..Len(singles)}
  BY <1>1, CutFacts
<1> HIDE DEF a, b
<1>7. Range(a) \cap Range(b) = {} /\ Range(a) \cup Range(b) = Range(singles)
  <2>1. \A j \in 1..(i - 1), k \in i..Len(singles) :
           j \in DOMAIN singles /\ k \in DOMAIN singles /\ j # k
    BY <1>1, <1>4
  <2>2. \A j \in DOMAIN singles : j \in 1..(i - 1) \/ j \in i..Len(singles)
    BY <1>1, <1>4
  <2>3. \A j : j \in 1..(i - 1) \/ j \in i..Len(singles) => j \in DOMAIN singles
    BY <1>1, <1>4
  <2>4. Range(a) \cap Range(b) = {}
    BY <1>1, <1>5, <1>6, <2>1 DEF IsInjective
  <2>5. Range(a) \cup Range(b) = Range(singles)
    BY <1>5, <1>6, <2>2, <2>3 DEF Range
  <2> QED BY <2>4, <2>5
<1>8. IsInjective(a)
  BY <1>1, <1>5 DEF IsInjective
<1>9. IsInjective(b)
  <2>1. \A j, k \in DOMAIN b : j + i - 1 = k + i - 1 => j = k
    BY <1>1, <1>6
  <2> QED BY <1>1, <1>6, <2>1 DEF IsInjective
<1>10. left \in Seq(Series) /\ LeftOf(left, a, gone)
  BY <1>5, WithoutFacts
<1> HIDE DEF left
<1>11. Range(left) = Range(a) \ gone
  BY <1>10 DEF LeftOf
<1>12. IsInjective(left)
  <2> DEFINE places == {j \in DOMAIN a : a[j] \notin gone}
  <2>1. PickedAt(left, a, places)
    BY <1>10 DEF LeftOf
  <2>2. places \in SUBSET DOMAIN a /\ \A j, k \in places : a[j] = a[k] => j = k
    BY <1>8 DEF IsInjective
  <2> HIDE DEF places
  <2> QED BY <2>1, <2>2, PickedOnce
<1>13. Range(a) \subseteq Series
  BY <1>5, RangeWithin
<1>14. Range(b) \cap Range(left) = {}
  BY <1>7, <1>11
<1>15. b \o left \in Seq(Series) /\ Range(b \o left) = Range(b) \cup Range(left)
  BY <1>6, <1>10, JoinedFacts
<1>16. IsInjective(b \o left)
  BY <1>6, <1>9, <1>10, <1>12, <1>14, JoinedOnce
<1>17. Answered("single") = Range(a) \cap gone
  BY <1>3, <1>13
<1>18. Range(b \o left) = Range(singles) \ Answered("single") /\ Answered("single") \subseteq Range(singles)
  BY <1>7, <1>11, <1>15, <1>17
<1> QED BY <1>2, <1>15, <1>16, <1>18

(* A batch without its head.                                               *)
LEMMA HeadTaken ==
    ASSUME NEW q \in Seq(Series), q # <<>>, IsInjective(q)
    PROVE  /\ Head(q) \in Range(q) /\ Tail(q) \in Seq(Series) /\ IsInjective(Tail(q))
           /\ Range(Tail(q)) = Range(q) \ {Head(q)}
<1>1. /\ Tail(q) \in Seq(Series) /\ IsInjective(Tail(q))
      /\ ToSet(Tail(q)) = ToSet(q) \ {Head(q)}
  BY TailOfQueue
<1>2. Head(q) \in ToSet(q)
  BY HeadOfQueue
<1>3. \A r : ToSet(r) = Range(r)
  BY DEF ToSet, Range
<1> QED BY <1>1, <1>2, <1>3

(* The batches looked through lose the heads that are answered.             *)
LEMMA BatchesTurnedFacts ==
    ASSUME LanesOK
    PROVE  /\ BatchesTurned \in Seq(Seq(Series)) /\ Apart(BatchesTurned)
           /\ \A i \in DOMAIN BatchesTurned : BatchesTurned[i] # <<>>
           /\ Members(BatchesTurned) = Members(batches) \ Answered("batch")
           /\ Answered("batch") \subseteq Members(batches)
<1> DEFINE heads == Heads("batch")
           i == ReadyAt(heads)
           n == Len(batches)
           b == SubSeq(batches, i, n)
           turned(x) == IF Done(Head(x)) THEN Tail(x) ELSE x
           passed == [j \in 1..(i - 1) |-> turned(batches[j])]
           left == Without(passed, {<<>>})
<1>1. /\ batches \in Seq(Seq(Series)) /\ Apart(batches) /\ n \in Nat /\ DOMAIN batches = 1..n
      /\ \A j \in DOMAIN batches : batches[j] # <<>> /\ batches[j] \in Seq(Series)
  BY DEF LanesOK
<1>2. \A j \in DOMAIN batches :
        /\ IsInjective(batches[j])
        /\ Head(batches[j]) \in Range(batches[j]) /\ Tail(batches[j]) \in Seq(Series)
        /\ IsInjective(Tail(batches[j]))
        /\ Range(Tail(batches[j])) = Range(batches[j]) \ {Head(batches[j])}
  <2> SUFFICES ASSUME NEW j \in DOMAIN batches
               PROVE  /\ IsInjective(batches[j])
                      /\ Head(batches[j]) \in Range(batches[j]) /\ Tail(batches[j]) \in Seq(Series)
                      /\ IsInjective(Tail(batches[j]))
                      /\ Range(Tail(batches[j])) = Range(batches[j]) \ {Head(batches[j])}
    OBVIOUS
  <2>1. batches[j] \in Seq(Series) /\ batches[j] # <<>> /\ IsInjective(batches[j])
    BY <1>1 DEF Apart
  <2> QED BY <2>1, HeadTaken
<1>3. heads \in Seq(Series) /\ Len(heads) = n /\ \A j \in 1..n : heads[j] = Head(batches[j])
  <2>1. heads = [j \in 1..n |-> Head(batches[j])]
    BY <1>1 DEF Heads
  <2>2. \A j \in 1..n : Head(batches[j]) \in Series
    <3>1. \A j \in 1..n : Range(batches[j]) \subseteq Series
      BY <1>1, RangeWithin
    <3> QED BY <1>1, <1>2, <3>1
  <2> QED BY <1>1, <2>1, <2>2
<1>4. i \in 1..(n + 1)
  BY <1>3, ReadyFacts
<1>5. BatchesTurned = b \o left
  BY DEF BatchesTurned
<1>6. Answered("batch") = {s \in {heads[j] : j \in 1..(i - 1)} : Done(s)}
  <2>1. Range(SubSeq(heads, 1, i - 1)) = {heads[j] : j \in 1..(i - 1)}
    <3> HIDE DEF heads, i
    <3> QED BY <1>3, <1>4, CutFacts
  <2> QED BY <2>1 DEF Answered
<1> HIDE DEF heads, i, n
<1>7. /\ b \in Seq(Seq(Series)) /\ DOMAIN b = 1..(n - i + 1)
      /\ \A j \in 1..(n - i + 1) : j + i - 1 \in DOMAIN batches /\ b[j] = batches[j + i - 1]
      /\ Range(b) = {batches[j] : j \in i..n}
  BY <1>1, <1>4, CutFacts DEF n
<1>8. \A j \in 1..(i - 1) : j \in DOMAIN batches
  BY <1>1, <1>4
<1>9. \A j \in 1..(i - 1) :
        /\ passed[j] \in Seq(Series) /\ IsInjective(passed[j])
        /\ Range(passed[j]) = IF Done(Head(batches[j])) THEN Range(batches[j]) \ {Head(batches[j])}
                              ELSE Range(batches[j])
  BY <1>1, <1>2, <1>8
<1>10. passed \in Seq(Seq(Series)) /\ DOMAIN passed = 1..(i - 1)
  <2>1. i - 1 \in Nat
    BY <1>1, <1>4
  <2>2. \A j \in 1..(i - 1) : passed[j] \in Seq(Series)
    BY <1>9
  <2>3. passed = [j \in 1..(i - 1) |-> passed[j]]
    OBVIOUS
  <2> HIDE DEF passed
  <2> QED BY <2>1, <2>2, <2>3
<1> HIDE DEF passed, b
<1>11. Apart(passed)
  <2>1. \A j \in 1..(i - 1) : Range(passed[j]) \subseteq Range(batches[j])
    BY <1>9
  <2>2. \A j, k \in 1..(i - 1) : j # k => Range(batches[j]) \cap Range(batches[k]) = {}
    BY <1>1, <1>8 DEF Apart
  <2>3. \A j, k \in 1..(i - 1) : j # k => Range(passed[j]) \cap Range(passed[k]) = {}
    BY <2>1, <2>2
  <2> QED BY <1>9, <1>10, <2>3 DEF Apart
<1>12. /\ left \in Seq(Seq(Series)) /\ Apart(left) /\ Members(left) = Members(passed)
       /\ \A j \in DOMAIN left : left[j] # <<>>
  BY <1>10, <1>11, NoneEmpty
<1> HIDE DEF left
<1>13. Apart(b)
  <2>1. \A j, k \in DOMAIN b : j + i - 1 = k + i - 1 => j = k
    BY <1>4, <1>7
  <2> QED BY <1>1, <1>7, <2>1 DEF Apart
<1>14. \A j \in DOMAIN b : b[j] # <<>>
  BY <1>1, <1>7
<1>15. \A x : x \in Members(b) <=> \E j \in i..n : x \in Range(batches[j])
  <2>1. \A x : x \in Members(b) <=> \E y \in Range(b) : x \in Range(y)
    BY MemberOf DEF Range
  <2> QED BY <1>7, <2>1
<1>16. \A x : x \in Members(passed) <=>
              \E j \in 1..(i - 1) : /\ x \in Range(batches[j])
                                    /\ Done(Head(batches[j])) => x # Head(batches[j])
  BY <1>9, <1>10, MemberOf
<1>17. \A j \in 1..(i - 1), k \in i..n : j \in DOMAIN batches /\ k \in DOMAIN batches /\ j # k
  BY <1>1, <1>4
<1>18. Members(b) \cap Members(left) = {}
  BY <1>1, <1>12, <1>15, <1>16, <1>17 DEF Apart
<1>19. /\ b \o left \in Seq(Seq(Series)) /\ Range(b \o left) = Range(b) \cup Range(left)
  BY <1>7, <1>12, JoinedFacts
<1>20. Apart(b \o left) /\ Members(b \o left) = Members(b) \cup Members(left)
  BY <1>7, <1>12, <1>13, <1>18, JoinedApart
<1>21. \A j \in DOMAIN (b \o left) : (b \o left)[j] # <<>>
  BY <1>12, <1>14, <1>19 DEF Range
<1>22. \A s : s \in Answered("batch") <=> \E j \in 1..(i - 1) : s = Head(batches[j]) /\ Done(s)
  <2>1. \A j \in 1..(i - 1) : heads[j] = Head(batches[j])
    BY <1>1, <1>3, <1>8
  <2> QED BY <1>6, <2>1
<1>23. Answered("batch") \subseteq Members(batches)
  BY <1>2, <1>8, <1>22, MemberOf
<1>24. Members(b \o left) = Members(batches) \ Answered("batch")
  <2>1. ASSUME NEW x \in Members(b \o left) PROVE x \in Members(batches) /\ x \notin Answered("batch")
    <3>1. CASE x \in Members(b)
      <4>1. PICK k \in i..n : x \in Range(batches[k])
        BY <1>15, <3>1
      <4>2. \A j \in 1..(i - 1) : x \notin Range(batches[j])
        BY <1>1, <1>17, <4>1 DEF Apart
      <4>3. k \in DOMAIN batches
        BY <1>1, <1>4
      <4> QED BY <1>2, <1>8, <1>22, <4>1, <4>2, <4>3, MemberOf
    <3>2. CASE x \in Members(left)
      <4>1. PICK k \in 1..(i - 1) : /\ x \in Range(batches[k])
                                    /\ Done(Head(batches[k])) => x # Head(batches[k])
        BY <1>12, <1>16, <3>2
      <4>2. \A j \in 1..(i - 1) : x = Head(batches[j]) => j = k
        BY <1>1, <1>2, <1>8, <4>1 DEF Apart
      <4> QED BY <1>8, <1>22, <4>1, <4>2, MemberOf
    <3> QED BY <1>20, <3>1, <3>2
  <2>2. ASSUME NEW x \in Members(batches), x \notin Answered("batch") PROVE x \in Members(b \o left)
    <3>1. PICK j \in DOMAIN batches : x \in Range(batches[j])
      BY MemberOf
    <3>2. j \in 1..(i - 1) \/ j \in i..n
      BY <1>1, <1>4
    <3>3. CASE j \in i..n
      BY <1>15, <1>20, <3>1, <3>3
    <3>4. CASE j \in 1..(i - 1)
      <4>1. Done(Head(batches[j])) => x # Head(batches[j])
        BY <1>22, <2>2, <3>4
      <4> QED BY <1>12, <1>16, <1>20, <3>1, <3>4, <4>1
    <3> QED BY <3>2, <3>3, <3>4
  <2> QED BY <2>1, <2>2
<1> QED BY <1>5, <1>19, <1>20, <1>21, <1>23, <1>24

LEMMA TurnKeepsLanes ==
    ASSUME LanesOK, NEW lanes \in SUBSET Lanes, TurnLanes(lanes)
    PROVE  LanesOK'
<1> DEFINE one == IF "single" \in lanes THEN Answered("single") ELSE {}
           two == IF "batch" \in lanes THEN Answered("batch") ELSE {}
<1>1. UNION {Answered(lane) : lane \in lanes} = one \cup two
  BY DEF Lanes
<1>2. /\ singles' \in Seq(Series) /\ IsInjective(singles')
      /\ Range(singles') = Range(singles) \ one /\ one \subseteq Range(singles)
  BY SinglesTurnedFacts DEF TurnLanes, LanesOK
<1>3. /\ batches' \in Seq(Seq(Series)) /\ Apart(batches')
      /\ \A i \in DOMAIN batches' : batches'[i] # <<>>
      /\ Members(batches') = Members(batches) \ two /\ two \subseteq Members(batches)
  <2>1. CASE "batch" \in lanes
    BY <2>1, BatchesTurnedFacts DEF TurnLanes
  <2>2. CASE "batch" \notin lanes
    BY <2>2 DEF TurnLanes, LanesOK
  <2> QED BY <2>1, <2>2
<1>4. queued' = queued \ (one \cup two)
  BY <1>1 DEF TurnLanes
<1> HIDE DEF one, two
<1>5. /\ queued' = Range(singles') \cup Members(batches')
      /\ Range(singles') \cap Members(batches') = {}
  BY <1>2, <1>3, <1>4 DEF LanesOK
<1> QED BY <1>2, <1>3, <1>5 DEF LanesOK

LEMMA SameLanes == LanesOK /\ UNCHANGED foregroundVars => LanesOK'
BY DEF LanesOK, foregroundVars

LEMMA ChooseKeepsLanes == ASSUME IInv, LanesOK, Choose PROVE LanesOK'
<1>1. {pass.prefer} \in SUBSET Lanes /\ Lanes \in SUBSET Lanes
  BY DEF IInv, TypeOK, PassType
<1>2. ASSUME ChooseJob PROVE TurnLanes({pass.prefer}) \/ TurnLanes(Lanes)
  BY <1>2 DEF ChooseJob
<1>3. UNCHANGED foregroundVars \/ ChooseJob
  BY DEF Choose, Continue
<1> QED BY <1>1, <1>2, <1>3, TurnKeepsLanes, SameLanes

LEMMA EnqueueKeepsLanes ==
    ASSUME IInv, LanesOK, NEW c \in Caller, Enqueue(c)
    PROVE  LanesOK'
<1>1. call[c].asks \in Seq(Series) /\ call[c].asks # <<>>
  BY DEF IInv, TypeOK, CallType, Enqueue
<1>2. Head(call[c].asks) \in Series
  BY <1>1
<1> QED BY <1>1, <1>2, SingleKeepsLanes, BatchKeepsLanes DEF Enqueue

(* Only so many series are wanted.                                          *)
FewWanted == IsFiniteSet(DOMAIN kept.wanted) /\ IsFiniteSet(DOMAIN file.wanted)

(* What a restart finds unanswered is one batch.                            *)
LEMMA RestartKeepsLanes ==
    ASSUME IInv, FewWanted, Restart
    PROVE  LanesOK' /\ FewWanted'
<1>1. PICK k \in {file, kept} :
        /\ kept' = k /\ file' = k
        /\ batches' = IF LeftOver(k) = <<>> THEN <<>> ELSE <<LeftOver(k)>>
        /\ queued' = Range(LeftOver(k))
  BY DEF Restart
<1>2. singles' = <<>>
  BY DEF Restart
<1>3. IsFiniteSet(DOMAIN k.wanted) /\ DOMAIN k.wanted \subseteq Series
  BY DEF FewWanted, IInv, TypeOK, KeptOK
<1> DEFINE S == {s \in DOMAIN k.wanted : Unanswered(k, s)}
           q == LeftOver(k)
<1>4. S \subseteq DOMAIN k.wanted
  OBVIOUS
<1>5. q = SetToSeq(S)
  BY DEF LeftOver
<1> HIDE DEF S, q
<1>6. IsFiniteSet(S) /\ S \subseteq Series
  BY <1>3, <1>4, Fewer
<1>7. q \in Seq(S) /\ IsInjective(q) /\ Range(q) = S
  BY <1>5, <1>6, ListedOnce
<1>8. q \in Seq(Series)
  BY <1>6, <1>7
<1>9. Range(singles') = {} /\ singles' \in Seq(Series) /\ IsInjective(singles')
  BY <1>2 DEF Range, IsInjective
<1>10. CASE q = <<>>
  <2>1. batches' = <<>> /\ queued' = {} /\ Range(q) = {}
    BY <1>1, <1>10 DEF q, Range
  <2>2. DOMAIN batches' = {} /\ batches' \in Seq(Seq(Series))
    BY <2>1
  <2>3. Members(batches') = {} /\ Apart(batches')
    BY <2>2 DEF Members, Apart
  <2> QED BY <1>1, <1>3, <1>9, <2>1, <2>2, <2>3 DEF LanesOK, FewWanted
<1>11. CASE q # <<>>
  <2>1. batches' = <<q>> /\ queued' = Range(q)
    BY <1>1, <1>11 DEF q
  <2>2. DOMAIN batches' = {1} /\ batches'[1] = q /\ batches' \in Seq(Seq(Series))
    BY <1>8, <2>1
  <2>3. Members(batches') = Range(q) /\ Apart(batches')
    BY <1>7, <2>2 DEF Members, Apart
  <2> QED BY <1>1, <1>3, <1>9, <1>11, <2>1, <2>2, <2>3 DEF LanesOK, FewWanted
<1> QED BY <1>10, <1>11

LEMMA PassKeepsWanted ==
    ASSUME IInv, PassStep \/ AskStep
    PROVE  /\ DOMAIN kept'.wanted \subseteq DOMAIN kept.wanted
           /\ file' \in {file, kept}
<1>1. KeptOK(kept)
  BY DEF IInv, TypeOK
<1>2. CASE PassBegins
  <2> DEFINE left == Pruned(kept, day)
             seen == IF DOMAIN left.shows = {} THEN day ELSE left.updates
  <2>1. KeptOK(left) /\ DOMAIN left.wanted \subseteq DOMAIN kept.wanted
    BY <1>1, PrunedKeeps
  <2>2. kept' = [left EXCEPT !.updates = seen] /\ file' = file
    BY <1>2 DEF PassBegins
  <2> HIDE DEF left, seen
  <2>3. kept'.wanted = left.wanted
    BY <2>1, <2>2 DEF KeptOK
  <2> QED BY <2>1, <2>2, <2>3
<1>3. CASE FeedRead
  <2> DEFINE read == [kept EXCEPT !.updates = pass.now]
  <2>1. read = [ids |-> kept.ids, shows |-> kept.shows, wanted |-> kept.wanted, updates |-> pass.now]
    BY <1>1 DEF KeptOK
  <2>2. \E named \in SUBSET DOMAIN kept.shows :
          kept' = [read EXCEPT !.shows = [w \in DOMAIN @ |-> IF w \in named THEN Changed ELSE @[w]]]
    BY <1>3 DEF FeedRead
  <2> HIDE DEF read
  <2>3. kept'.wanted = read.wanted
    BY <2>1, <2>2
  <2> QED BY <1>3, <2>1, <2>3 DEF FeedRead
<1>4. CASE FeedFails \/ Choose \/ Tell \/ PassEnds
  BY <1>4 DEF FeedFails, Choose, Tell, PassEnds, keptVars
<1>5. CASE FetchUnreadable \/ AskFails
  BY <1>5 DEF FetchUnreadable, AskFails, keptVars
<1>6. ASSUME NEW s, LookupAnswered(s)
      PROVE  kept'.wanted = kept.wanted /\ file' = file
  <2>1. \E ids : kept' = [kept EXCEPT !.ids = ids]
    BY <1>6 DEF LookupAnswered
  <2> QED BY <1>1, <1>6, <2>1 DEF KeptOK, LookupAnswered
<1>7. ASSUME NEW w, FetchAnswered(w)
      PROVE  kept'.wanted = kept.wanted /\ file' = file
  <2>1. \E ids, shows : kept' = [kept EXCEPT !.ids = ids, !.shows = shows]
    <3>1. CASE kept' = [kept EXCEPT !.shows = Put(@, w, pass.now)]
      <4>1. [kept EXCEPT !.shows = Put(kept.shows, w, pass.now)] =
              [kept EXCEPT !.ids = kept.ids, !.shows = Put(kept.shows, w, pass.now)]
        BY <1>1 DEF KeptOK
      <4> QED BY <3>1, <4>1
    <3>2. CASE ~(kept' = [kept EXCEPT !.shows = Put(@, w, pass.now)])
      BY <1>7, <3>2 DEF FetchAnswered
    <3> QED BY <3>1, <3>2
  <2> QED BY <1>1, <1>7, <2>1 DEF KeptOK, FetchAnswered
<1>8. CASE \E job \in Job : JobAnswered(job)
  BY <1>6, <1>7, <1>8 DEF JobAnswered
<1> QED BY <1>2, <1>3, <1>4, <1>5, <1>8 DEF PassStep, AskStep

LEMMA NoteKeepsFewWanted ==
    ASSUME IInv, FewWanted, NEW c \in Caller, NEW asks \in Seq(Series), NEW alone, Note(c, asks, alone)
    PROVE  FewWanted' /\ UNCHANGED foregroundVars
<1>1. KeptOK(kept) /\ day \in Day /\ kept' = Wanting(kept, Range(asks)) /\ file' = file
  BY DEF Note, IInv, TypeOK
<1>2. DOMAIN kept'.wanted = DOMAIN kept.wanted \cup Range(asks)
  BY <1>1, RangeWithin, WantingKeeps
<1>3. IsFiniteSet(DOMAIN kept.wanted \cup Range(asks))
  BY FinitelyMany, FS_Union DEF FewWanted
<1> QED BY <1>1, <1>2, <1>3 DEF FewWanted, Note

LEMMA LanesInit == Init => LanesOK /\ FewWanted
<1> SUFFICES ASSUME Init PROVE LanesOK /\ FewWanted
  OBVIOUS
<1>1. singles = <<>> /\ batches = <<>> /\ queued = {}
  BY DEF Init
<1>2. Range(singles) = {} /\ Members(batches) = {}
  BY <1>1 DEF Range, Members
<1>3. singles \in Seq(Series) /\ batches \in Seq(Seq(Series)) /\ DOMAIN batches = {} /\ DOMAIN singles = {}
  BY <1>1
<1>4. IsInjective(singles) /\ Apart(batches)
  BY <1>3 DEF IsInjective, Apart
<1>5. kept.wanted = Empty /\ file.wanted = Empty
  BY DEF Init, NewKept
<1>6. IsFiniteSet(DOMAIN kept.wanted) /\ IsFiniteSet(DOMAIN file.wanted)
  BY <1>5, EmptyFunction, FS_EmptySet
<1> QED BY <1>1, <1>2, <1>3, <1>4, <1>6 DEF LanesOK, FewWanted

LEMMA LanesNext ==
    ASSUME IInv, LanesOK, FewWanted, [Next]_vars
    PROVE  LanesOK' /\ FewWanted'
<1>1. CASE PassStep \/ AskStep
  <2>1. FewWanted'
    BY <1>1, PassKeepsWanted, Fewer DEF FewWanted
  <2>2. Choose \/ UNCHANGED foregroundVars
    BY <1>1 DEF PassStep, AskStep, PassBegins, FeedRead, FeedFails, Tell, PassEnds, AskFails,
                FetchUnreadable, JobAnswered, LookupAnswered, FetchAnswered
  <2> QED BY <2>1, <2>2, ChooseKeepsLanes, SameLanes
<1>2. ASSUME NEW c \in Caller, Open(c) \/ Sweep(c) PROVE LanesOK' /\ FewWanted'
  <2>1. \E asks \in Seq(Series), alone \in BOOLEAN : Note(c, asks, alone)
    <3>1. \A s \in Title : <<s>> \in Seq(Series)
      BY TvmazeAssumption
    <3> QED BY <1>2, <3>1, TvmazeAssumption DEF Open, Sweep
  <2> QED BY <2>1, NoteKeepsFewWanted, SameLanes
<1>3. ASSUME NEW c \in Caller, CallStep(c) \/ GiveUp(c) PROVE LanesOK' /\ FewWanted'
  <2>1. FewWanted'
    BY <1>3 DEF CallStep, Enqueue, Listen, Look, Wait, GiveUp, keptVars, FewWanted
  <2>2. Enqueue(c) \/ UNCHANGED foregroundVars
    BY <1>3 DEF CallStep, Listen, Look, Wait, GiveUp
  <2> QED BY <2>1, <2>2, EnqueueKeepsLanes, SameLanes
<1>4. CASE PauseEnds \/ DayPasses \/ UNCHANGED vars
  <2>1. UNCHANGED <<kept, file>> /\ UNCHANGED foregroundVars
    BY <1>4 DEF PauseEnds, DayPasses, vars, keptVars, foregroundVars
  <2> QED BY <2>1, SameLanes DEF FewWanted
<1>5. CASE Restart
  BY <1>5, RestartKeepsLanes
<1> QED BY <1>1, <1>2, <1>3, <1>4, <1>5 DEF Next

(* Every queued series has one place, in one lane, whatever the order in    *)
(* which requests queue, the pass turns its lanes and the process restarts. *)
THEOREM EachSeriesHasOnePlace == Spec => []QueueMatches
<1>1. Init => LanesOK /\ FewWanted
  BY LanesInit
<1>2. IInv /\ (LanesOK /\ FewWanted) /\ [Next]_vars => (LanesOK /\ FewWanted)'
  BY LanesNext
<1>3. Spec => []IInv
  BY Invariance
<1>4. Spec => [](LanesOK /\ FewWanted)
  BY <1>1, <1>2, <1>3, PTL DEF Spec
<1> QED BY <1>4, LanesMatch, PTL
=============================================================================
