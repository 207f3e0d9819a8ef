--------------------------- MODULE CatalogRowsProofs ---------------------------
(***************************************************************************)
(* For every number of rows, services, tasks, permits and dropped requests: *)
(* calls in flight stay within their ceiling, one task at a time fills a    *)
(* row, what is called fresh is whole, and a whole row stays and is served  *)
(* until another replaces it (RowFetch).  The requests and the refresher run *)
(* nothing but steps of RowFetch, so that this holds of the rows kept ahead, *)
(* of which none is remembered twice or past the cap (CatalogRows).         *)
(***************************************************************************)
EXTENDS CatalogRows, CommonTheorems, FiniteSetTheorems

-----------------------------------------------------------------------------
(* RowFetch.  Most steps of a fetch either end it or turn from one kind of *)
(* call to the next; `StepShape` sorts them so, and each part of the       *)
(* invariant is then shown over the few shapes there are.                  *)

(* The fetch ends: it stores a complete body, degrades, or is absent. *)
Ends(t) == \/ \E body \in {"lead", "whole"} :
                (body = "lead" => row[t] \in Led) /\ Store(t, body)
           \/ \E body \in {"none", "part"} : Degrade(t, body)
           \/ Absent(t)

(* The fetch goes on to ask some services. *)
Queues(t) ==
    /\ pc' = [pc EXCEPT ![t] = "calling"]
    /\ \E new \in SUBSET Service :
         calls' = [calls EXCEPT ![t] = [c \in Call |-> IF c \in new THEN "queued" ELSE "none"]]
    /\ UNCHANGED <<cacheVars, refresher, row, force, reply, leads, ok>>

(* The calls made so far are over, and their permits are back. *)
Turns(t) ==
    /\ Holding(t)
    /\ Ends(t) \/ Queues(t)
    /\ permits' = permits + Cardinality(Asking(t))
    /\ orphans' = orphans
    /\ packages' \in [Country -> SUBSET Service]
    /\ blocked' \in [Country -> BOOLEAN]

LEMMA ConstantTypes ==
    /\ Led \subseteq Row
    /\ RowCountry \in [Row -> Country]
    /\ IsFiniteSet(Task) /\ IsFiniteSet(Call)
    /\ MaxPermits \in Nat /\ MaxAge \in Nat /\ Ttl \in Nat /\ 0 < Ttl /\ Ttl <= MaxAge
<1>1. IsFiniteSet(Call)
  BY RowAssumption, FS_AddElement DEF Call
<1> QED BY <1>1, TaskAssumption, RowAssumption, BoundAssumption

LEMMA AnswerEnds ==
    ASSUME TypeOK, NEW t \in Task, NEW heard \in {"none", "part", "whole"}, Answer(t, heard)
    PROVE  Ends(t)
<1>1. row[t] \in leads => row[t] \in Led
  BY DEF TypeOK
<1> QED BY <1>1 DEF Answer, LedBy, Complete, Ends

LEMMA AskTurns ==
    ASSUME TypeOK, NEW t \in Task, NEW list \in SUBSET Service, Ask(t, list)
    PROVE  Ends(t) \/ Queues(t)
<1>1. CASE Carried(t, list) # {} /\ pc' = [pc EXCEPT ![t] = "calling"]
  <2>1. Carried(t, list) \in SUBSET Service
    BY RowAssumption DEF Carried, TypeOK
  <2> QED BY <1>1, <2>1 DEF Ask, Queues, Answer, Store, Degrade, Absent, Leave
<1>2. CASE Answer(t, "none")
  BY <1>2, AnswerEnds
<1>3. CASE Absent(t)
  BY <1>3 DEF Ends
<1> QED BY <1>1, <1>2, <1>3 DEF Ask

(* Who asks for a list is listing, and has no other call. *)
LEMMA OnlyTheList ==
    ASSUME TypeOK, CallsInPlace, NEW t \in Task, calls[t][List] = "asking"
    PROVE  pc[t] = "listing" /\ Cardinality(Asking(t)) = 1
<1>1. pc[t] = "listing"
  BY DEF CallsInPlace, NoCalls, Call, TypeOK
<1>2. Asking(t) = {List}
  BY <1>1 DEF CallsInPlace, Asking, Call
<1> QED BY <1>1, <1>2, FS_Singleton

LEMMA NoneAsked ==
    ASSUME NEW t, Asking(t) = {}
    PROVE  Cardinality(Asking(t)) = 0
BY FS_EmptySet

LEMMA StepShape ==
    ASSUME IInv, NEW t \in Task, Step(t)
    PROVE  \/ FilledMeanwhile(t) \/ Lock(t) \/ LookUpList(t) \/ Turns(t)
           \/ \E c \in Call : AcquirePermit(t, c)
           \/ \E s \in Service, end \in {"answered", "failed"} : CallEnds(t, s, end)
<1> USE ConstantTypes DEF IInv, permitVars, packageVars
<1>0. permits \in Nat /\ orphans \in Nat /\ RowCountry[row[t]] \in Country
      /\ packages \in [Country -> SUBSET Service] /\ blocked \in [Country -> BOOLEAN]
  BY DEF TypeOK
<1>1. CASE ListKnown(t) \/ ListBlocked(t)
  <2>1. Cardinality(Asking(t)) = 0
    BY <1>1, NoneAsked DEF ListKnown, ListBlocked, CallsInPlace, Asking, NoCalls
  <2>2. Ends(t) \/ Queues(t)
    BY <1>0, <1>1, AskTurns, AnswerEnds DEF ListKnown, ListBlocked
  <2> QED BY <1>0, <1>1, <2>1, <2>2 DEF ListKnown, ListBlocked, Turns, Holding
<1>2. ASSUME NEW list \in PackageLists, ListArrives(t, list)
      PROVE  Turns(t)
  <2>1. list \in SUBSET Service
    BY RowAssumption
  <2>2. Ends(t) \/ Queues(t)
    BY <1>2, <2>1, AskTurns, AnswerEnds DEF ListArrives
  <2>3. packages' \in [Country -> SUBSET Service] /\ blocked' \in [Country -> BOOLEAN]
    BY <1>0, <1>2, <2>1 DEF ListArrives
  <2> QED BY <1>0, <1>2, <2>2, <2>3, OnlyTheList DEF ListArrives, Turns, Holding
<1>3. CASE ListFails(t)
  <2>1. Ends(t)
    BY <1>3, AnswerEnds DEF ListFails
  <2> QED BY <1>0, <1>3, <2>1, OnlyTheList DEF ListFails, Turns, Holding
<1>4. CASE AllEnded(t)
  <2>1. Cardinality(Asking(t)) = 0
    BY <1>4, NoneAsked DEF AllEnded, CallsInPlace, Asking, Call
  <2>2. Ends(t)
    <3>1. Heard(t) \in {"none", "part", "whole"}
      BY DEF Heard
    <3> QED BY <1>4, <3>1, AnswerEnds DEF AllEnded
  <2> QED BY <1>0, <1>4, <2>1, <2>2 DEF AllEnded, Turns, Holding
<1> QED BY <1>1, <1>2, <1>3, <1>4 DEF Step, UpstreamAnswers, UpstreamFails

(* What every end of a fetch does. *)
LEMMA EndsShape ==
    ASSUME TypeOK, NEW t \in Task, Ends(t)
    PROVE  /\ pc' = [pc EXCEPT ![t] = "out"]
           /\ calls' = [calls EXCEPT ![t] = NoCalls]
           /\ row' = row /\ force' = force /\ leads' = leads
           /\ refresher' = [refresher EXCEPT ![row[t]] = NoTask]
           /\ ok' \in BOOLEAN
           /\ \E answer \in Reply :
                /\ reply' = [reply EXCEPT ![t] = answer]
                /\ answer.fresh /\ row[t] \notin Led => answer.body = "whole"
           /\ \/ UNCHANGED cacheVars
              \/ \E body \in {"lead", "whole"} :
                   /\ body = "lead" => row[t] \in Led
                   /\ cached' = [cached EXCEPT ![row[t]] = body]
                   /\ age' = [age EXCEPT ![row[t]] = 0]
                   /\ older' \in SUBSET (Row \X Row)
<1>1. row[t] \in Row /\ cached[row[t]] \in Kept
  BY DEF TypeOK
<1>2. ASSUME NEW body \in {"lead", "whole"}, body = "lead" => row[t] \in Led, Store(t, body)
      PROVE  /\ [body |-> body, fresh |-> TRUE] \in Reply
             /\ reply' = [reply EXCEPT ![t] = [body |-> body, fresh |-> TRUE]]
             /\ older' \in SUBSET (Row \X Row)
  BY <1>1, <1>2 DEF Store, Leave, Reply, Kept, TypeOK
<1>3. ASSUME NEW body \in {"none", "part"}, Degrade(t, body)
      PROVE  \E answer \in Reply : reply' = [reply EXCEPT ![t] = answer] /\ ~answer.fresh
  <2> DEFINE served == IF cached[row[t]] # "none" THEN cached[row[t]]
                       ELSE IF body = "none" THEN "empty" ELSE body
  <2>1. [body |-> served, fresh |-> FALSE] \in Reply
    BY <1>1 DEF Reply, Kept
  <2> QED BY <1>3, <2>1 DEF Degrade, Leave
<1>4. CASE Absent(t)
  <2>1. [body |-> "absent", fresh |-> FALSE] \in Reply
    BY DEF Reply
  <2> QED BY <1>4, <2>1 DEF Absent, Leave, Gate!Finish, TypeOK
<1>5. ASSUME NEW body \in {"lead", "whole"}, body = "lead" => row[t] \in Led, Store(t, body)
      PROVE  /\ pc' = [pc EXCEPT ![t] = "out"]
             /\ calls' = [calls EXCEPT ![t] = NoCalls]
             /\ row' = row /\ force' = force /\ leads' = leads
             /\ refresher' = [refresher EXCEPT ![row[t]] = NoTask]
             /\ ok' = TRUE
             /\ cached' = [cached EXCEPT ![row[t]] = body]
             /\ age' = [age EXCEPT ![row[t]] = 0]
  BY <1>5 DEF Store, Leave, Gate!Finish
<1>6. ASSUME NEW body \in {"none", "part"}, Degrade(t, body)
      PROVE  /\ pc' = [pc EXCEPT ![t] = "out"]
             /\ calls' = [calls EXCEPT ![t] = NoCalls]
             /\ row' = row /\ force' = force /\ leads' = leads
             /\ refresher' = [refresher EXCEPT ![row[t]] = NoTask]
             /\ ok' = FALSE
             /\ UNCHANGED cacheVars
  BY <1>6 DEF Degrade, Leave, Gate!Finish
<1> QED BY <1>2, <1>3, <1>4, <1>5, <1>6, Zenon DEF Ends

LEMMA NextTypeOK ==
    ASSUME IInv, [FetchNext]_fetchVars
    PROVE  TypeOK'
<1> USE ConstantTypes
    DEF IInv, TypeOK, cacheVars, requestVars, packageVars, permitVars
<1>1. ASSUME NEW t \in Task, NEW r \in Row, NEW f \in BOOLEAN, FetchRow(t, r, f)
      PROVE  TypeOK'
  <2>1. NoReply \in Reply /\ [body |-> cached[r], fresh |-> TRUE] \in Reply
    BY DEF Reply, NoReply, Kept
  <2>2. reply' \in [Task -> Reply]
    BY <1>1, <2>1 DEF FetchRow
  <2>3. row' \in [Task -> Row] /\ force' \in [Task -> BOOLEAN]
    BY <1>1 DEF FetchRow
  <2>4. pc' \in [Task -> {"out", "waiting", "resolving", "listing", "calling"}]
    BY <1>1 DEF FetchRow
  <2> QED BY <1>1, <2>2, <2>3, <2>4 DEF FetchRow
<1>2. ASSUME NEW t \in Task, NEW r \in Row, ServeStale(t, r)
      PROVE  TypeOK'
  BY <1>2 DEF ServeStale, Reply, Kept
<1>3. ASSUME NEW t \in Task, FilledMeanwhile(t)
      PROVE  TypeOK'
  BY <1>3 DEF FilledMeanwhile, Reply, Kept
<1>4. ASSUME NEW t \in Task, Lock(t)
      PROVE  TypeOK'
  BY <1>4 DEF Lock, Gate!Start
<1>5. ASSUME NEW t \in Task, LookUpList(t)
      PROVE  TypeOK'
  BY <1>5 DEF LookUpList
<1>6. ASSUME NEW t \in Task, Turns(t)
      PROVE  TypeOK'
  <2>1. permits' \in Nat /\ orphans' \in Nat
    <3>1. IsFiniteSet(Asking(t))
      BY FS_Subset DEF Asking
    <3> QED BY <1>6, <3>1, FS_CardinalityType DEF Turns
  <2>2. CASE Ends(t)
    <3>1. calls' \in [Task -> [Call -> {"none", "queued", "asking", "answered", "failed"}]]
      <4>1. NoCalls \in [Call -> {"none", "queued", "asking", "answered", "failed"}]
        BY DEF NoCalls
      <4>2. calls' = [calls EXCEPT ![t] = NoCalls]
        BY <2>2, EndsShape
      <4> QED BY <4>1, <4>2
    <3>2. pc' \in [Task -> {"out", "waiting", "resolving", "listing", "calling"}]
      BY <2>2, EndsShape
    <3>3. refresher' \in [Row -> Task \cup {NoTask}]
      BY <2>2, EndsShape
    <3>4. reply' \in [Task -> Reply]
      BY <2>2, EndsShape
    <3>5. cached' \in [Row -> Kept] /\ age' \in [Row -> 0..MaxAge] /\ older' \in SUBSET (Row \X Row)
      <4>1. CASE UNCHANGED cacheVars
        BY <4>1
      <4>2. ASSUME NEW body \in {"lead", "whole"},
                   cached' = [cached EXCEPT ![row[t]] = body],
                   age' = [age EXCEPT ![row[t]] = 0],
                   older' \in SUBSET (Row \X Row)
            PROVE  cached' \in [Row -> Kept] /\ age' \in [Row -> 0..MaxAge]
                   /\ older' \in SUBSET (Row \X Row)
        BY <4>2 DEF Kept
      <4> QED BY <2>2, <4>1, <4>2, EndsShape
    <3>6. row' = row /\ force' = force /\ leads' = leads /\ ok' \in BOOLEAN
      BY <2>2, EndsShape
    <3> QED BY <1>6, <2>1, <3>1, <3>2, <3>3, <3>4, <3>5, <3>6 DEF Turns
  <2>3. CASE Queues(t)
    BY <1>6, <2>1, <2>3 DEF Turns, Queues
  <2> QED BY <1>6, <2>2, <2>3 DEF Turns
<1>7. ASSUME NEW t \in Task, NEW c \in Call, AcquirePermit(t, c)
      PROVE  TypeOK'
  BY <1>7 DEF AcquirePermit
<1>8. ASSUME NEW t \in Task, NEW s \in Service, NEW end \in {"answered", "failed"}, CallEnds(t, s, end)
      PROVE  TypeOK'
  <2>1. s \in Call
    BY DEF Call
  <2>2. calls' \in [Task -> [Call -> {"none", "queued", "asking", "answered", "failed"}]]
    BY <1>8, <2>1 DEF CallEnds
  <2> QED BY <1>8, <2>2 DEF CallEnds
<1>9. ASSUME NEW t \in Task, Cancel(t)
      PROVE  TypeOK'
  <2>1. IsFiniteSet(Asking(t) \ Spawned(t)) /\ IsFiniteSet(Spawned(t))
    BY FS_Subset DEF Asking, Spawned
  <2>2. permits' \in Nat /\ orphans' \in Nat
    BY <1>9, <2>1, FS_CardinalityType DEF Cancel
  <2>3. refresher' \in [Row -> Task \cup {NoTask}]
    BY <1>9 DEF Cancel, Gate!Finish
  <2> QED BY <1>9, <2>2, <2>3 DEF Cancel, NoCalls
<1>10. CASE OrphanDrops
  BY <1>10 DEF OrphanDrops
<1>11. CASE TimePasses
  BY <1>11 DEF TimePasses
<1>12. ASSUME NEW c \in Country, BlockLapses(c)
       PROVE  TypeOK'
  BY <1>12 DEF BlockLapses
<1>13. ASSUME NEW r \in Led, LeadChanges(r)
       PROVE  TypeOK'
  BY <1>13 DEF LeadChanges
<1>14. CASE UNCHANGED fetchVars
  BY <1>14 DEF fetchVars
<1> QED BY <1>1, <1>2, <1>3, <1>4, <1>5, <1>6, <1>7, <1>8, <1>9, <1>10, <1>11, <1>12, <1>13,
           <1>14, StepShape DEF FetchNext, Around

(* The steps of a fetch, sorted. *)
LEMMA NextShape ==
    ASSUME IInv, [FetchNext]_fetchVars
    PROVE  \/ \E t \in Task : \/ \E r \in Row : \/ ServeStale(t, r)
                                               \/ \E f \in BOOLEAN : FetchRow(t, r, f)
                              \/ FilledMeanwhile(t) \/ Lock(t) \/ LookUpList(t)
                              \/ Turns(t) \/ Cancel(t)
                              \/ \E c \in Call :
                                   \/ AcquirePermit(t, c)
                                   \/ \E end \in {"answered", "failed"} : CallEnds(t, c, end)
           \/ TimePasses
           \/ \/ OrphanDrops \/ UNCHANGED fetchVars
              \/ \E c \in Country : BlockLapses(c)
              \/ \E r \in Led : LeadChanges(r)
<1>1. Service \subseteq Call
  BY DEF Call
<1> QED BY <1>1, StepShape DEF FetchNext, Around

(* A task takes the gate of the row it fetches, and only lets go of that.  *)
LEMMA NextHoldersRefresh ==
    ASSUME IInv, [FetchNext]_fetchVars
    PROVE  HoldersRefresh'
<1> USE ConstantTypes
    DEF IInv, TypeOK, cacheVars, requestVars, packageVars, permitVars, HoldersRefresh, Holding
<1>1. ASSUME NEW t \in Task, NEW r \in Row, NEW f \in BOOLEAN, FetchRow(t, r, f)
      PROVE  HoldersRefresh'
  <2>1. pc[t] = "out" /\ (pc' = pc \/ pc' = [pc EXCEPT ![t] = "waiting"])
        /\ row' = [row EXCEPT ![t] = r] /\ refresher' = refresher
    BY <1>1 DEF FetchRow
  <2>2. \A q \in Row : refresher[q] # t
    BY <2>1, TaskAssumption
  <2> QED BY <2>1, <2>2
<1>2. ASSUME NEW t \in Task, NEW r \in Row, ServeStale(t, r)
      PROVE  HoldersRefresh'
  BY <1>2 DEF ServeStale
<1>3. ASSUME NEW t \in Task, FilledMeanwhile(t)
      PROVE  HoldersRefresh'
  BY <1>3 DEF FilledMeanwhile
<1>4. ASSUME NEW t \in Task, Lock(t)
      PROVE  HoldersRefresh'
  <2>1. /\ pc[t] = "waiting" /\ pc' = [pc EXCEPT ![t] = "resolving"] /\ row' = row
        /\ refresher[row[t]] = NoTask
        /\ refresher' = [refresher EXCEPT ![row[t]] = t]
    BY <1>4 DEF Lock, Gate!Start
  <2>2. row[t] \in Row /\ t # NoTask
    BY TaskAssumption
  <2>3. \A u \in Task : Holding(u) => row[u] # row[t]
    BY <2>1, TaskAssumption
  <2>4. \A u \in Task : pc'[u] \in {"resolving", "listing", "calling"} => refresher'[row'[u]] = u
    BY <2>1, <2>2, <2>3
  <2>5. \A r \in Row : refresher'[r] # NoTask => 
           pc'[refresher'[r]] \in {"resolving", "listing", "calling"} /\ row'[refresher'[r]] = r
    BY <2>1, <2>2
  <2> QED BY <2>4, <2>5
<1>5. ASSUME NEW t \in Task, LookUpList(t)
      PROVE  HoldersRefresh'
  BY <1>5 DEF LookUpList
<1>6. ASSUME NEW t \in Task, Turns(t)
      PROVE  HoldersRefresh'
  <2>1. refresher[row[t]] = t /\ row[t] \in Row /\ t # NoTask
    BY <1>6, TaskAssumption DEF Turns
  <2>2. CASE Ends(t)
    <3>1. /\ pc' = [pc EXCEPT ![t] = "out"] /\ row' = row
          /\ refresher' = [refresher EXCEPT ![row[t]] = NoTask]
      BY <2>2, EndsShape
    <3> QED BY <2>1, <3>1, TaskAssumption
  <2>3. CASE Queues(t)
    BY <1>6, <2>1, <2>3 DEF Turns, Queues
  <2> QED BY <1>6, <2>2, <2>3 DEF Turns
<1>7. ASSUME NEW t \in Task, NEW c \in Call,
           AcquirePermit(t, c) \/ \E end \in {"answered", "failed"} : CallEnds(t, c, end)
      PROVE  HoldersRefresh'
  BY <1>7 DEF AcquirePermit, CallEnds
<1>8. ASSUME NEW t \in Task, Cancel(t)
      PROVE  HoldersRefresh'
  <2>1. CASE refresher[row[t]] = t
    BY <1>8, <2>1, TaskAssumption DEF Cancel, Gate!Finish
  <2>2. CASE refresher[row[t]] # t
    BY <1>8, <2>2, TaskAssumption DEF Cancel
  <2> QED BY <2>1, <2>2
<1>9. CASE TimePasses
  BY <1>9 DEF TimePasses
<1>10. CASE \/ OrphanDrops \/ UNCHANGED fetchVars
           \/ \E c \in Country : BlockLapses(c)
           \/ \E r \in Led : LeadChanges(r)
  BY <1>10 DEF OrphanDrops, BlockLapses, LeadChanges, fetchVars
<1> HIDE DEF IInv, TypeOK, cacheVars, requestVars, packageVars, permitVars, HoldersRefresh, Holding
<1> QED BY <1>1, <1>2, <1>3, <1>4, <1>5, <1>6, <1>7, <1>8, <1>9, <1>10, NextShape

LEMMA NextCallsInPlace ==
    ASSUME IInv, [FetchNext]_fetchVars
    PROVE  CallsInPlace'
<1> USE ConstantTypes
    DEF IInv, TypeOK, cacheVars, requestVars, packageVars, permitVars, CallsInPlace, NoCalls
<1>1. ASSUME NEW t \in Task, NEW r \in Row, NEW f \in BOOLEAN, FetchRow(t, r, f)
      PROVE  CallsInPlace'
  BY <1>1 DEF FetchRow
<1>2. ASSUME NEW t \in Task, NEW r \in Row, ServeStale(t, r)
      PROVE  CallsInPlace'
  BY <1>2 DEF ServeStale
<1>3. ASSUME NEW t \in Task, FilledMeanwhile(t)
      PROVE  CallsInPlace'
  BY <1>3 DEF FilledMeanwhile
<1>4. ASSUME NEW t \in Task, Lock(t)
      PROVE  CallsInPlace'
  BY <1>4 DEF Lock, Gate!Start
<1>5. ASSUME NEW t \in Task, LookUpList(t)
      PROVE  CallsInPlace'
  <2>1. List \notin Service /\ List \in Call
    BY RowAssumption DEF Call
  <2>2. /\ calls[t] = NoCalls /\ calls' = [calls EXCEPT ![t][List] = "queued"]
        /\ pc' = [pc EXCEPT ![t] = "listing"]
    BY <1>5 DEF LookUpList
  <2>3. \A s \in Service : s \in Call /\ s # List /\ calls[t][s] = "none"
    BY <2>1, <2>2 DEF Call
  <2> QED BY <2>1, <2>2, <2>3
<1>6. ASSUME NEW t \in Task, Turns(t)
      PROVE  CallsInPlace'
  <2>2. CASE Ends(t)
    <3>1. pc' = [pc EXCEPT ![t] = "out"] /\ calls' = [calls EXCEPT ![t] = NoCalls]
      BY <2>2, EndsShape
    <3> QED BY <3>1
  <2>3. CASE Queues(t)
    <3>1. List \notin Service /\ List \in Call
      BY RowAssumption DEF Call
    <3> QED BY <2>3, <3>1 DEF Queues
  <2> QED BY <1>6, <2>2, <2>3 DEF Turns
<1>7. ASSUME NEW t \in Task, NEW c \in Call,
           AcquirePermit(t, c) \/ \E end \in {"answered", "failed"} : CallEnds(t, c, end)
      PROVE  CallsInPlace'
  <2>1. pc' = pc /\ \E end : calls' = [calls EXCEPT ![t][c] = end]
    BY <1>7 DEF AcquirePermit, CallEnds
  <2>2. calls[t][c] # "none"
    BY <1>7 DEF AcquirePermit, CallEnds
  <2>3. pc[t] \in {"listing", "calling"}
    BY <2>2
  <2>4. List \in Call /\ Service \subseteq Call /\ List \notin Service
    BY RowAssumption DEF Call
  <2> QED BY <2>1, <2>2, <2>3, <2>4
<1>8. ASSUME NEW t \in Task, Cancel(t)
      PROVE  CallsInPlace'
  BY <1>8 DEF Cancel, Gate!Finish
<1>9. CASE TimePasses
  BY <1>9 DEF TimePasses
<1>10. CASE \/ OrphanDrops \/ UNCHANGED fetchVars
           \/ \E c \in Country : BlockLapses(c)
           \/ \E r \in Led : LeadChanges(r)
  BY <1>10 DEF OrphanDrops, BlockLapses, LeadChanges, fetchVars
<1> HIDE DEF IInv, TypeOK, cacheVars, requestVars, packageVars, permitVars, CallsInPlace, NoCalls
<1> QED BY <1>1, <1>2, <1>3, <1>4, <1>5, <1>6, <1>7, <1>8, <1>9, <1>10, NextShape

(* Only the holder of a row's gate makes the row fresh.                    *)
LEMMA NextNoFetchOverFresh ==
    ASSUME IInv, [FetchNext]_fetchVars
    PROVE  NoFetchOverFresh'
<1> USE ConstantTypes
    DEF IInv, TypeOK, cacheVars, requestVars, packageVars, permitVars, NoFetchOverFresh, Holding, Fresh, HoldersRefresh
<1>1. ASSUME NEW t \in Task, NEW r \in Row, NEW f \in BOOLEAN, FetchRow(t, r, f)
      PROVE  NoFetchOverFresh'
  BY <1>1 DEF FetchRow
<1>2. ASSUME NEW t \in Task, NEW r \in Row, ServeStale(t, r)
      PROVE  NoFetchOverFresh'
  BY <1>2 DEF ServeStale
<1>3. ASSUME NEW t \in Task, FilledMeanwhile(t)
      PROVE  NoFetchOverFresh'
  BY <1>3 DEF FilledMeanwhile
<1>4. ASSUME NEW t \in Task, Lock(t)
      PROVE  NoFetchOverFresh'
  BY <1>4 DEF Lock, Gate!Start
<1>5. ASSUME NEW t \in Task, LookUpList(t)
      PROVE  NoFetchOverFresh'
  BY <1>5 DEF LookUpList
<1>6. ASSUME NEW t \in Task, Turns(t)
      PROVE  NoFetchOverFresh'
  <2>2. CASE Ends(t)
    <3>1. pc' = [pc EXCEPT ![t] = "out"] /\ row' = row /\ force' = force
      BY <2>2, EndsShape
    <3>2. \A r \in Row : r # row[t] => cached'[r] = cached[r] /\ age'[r] = age[r]
      BY <2>2, EndsShape
    <3>3. \A u \in Task : u # t /\ Holding(u) => row[u] # row[t]
      BY <1>6 DEF Turns
    <3> QED BY <3>1, <3>2, <3>3
  <2>3. CASE Queues(t)
    BY <1>6, <2>3 DEF Turns, Queues
  <2> QED BY <1>6, <2>2, <2>3 DEF Turns
<1>7. ASSUME NEW t \in Task, NEW c \in Call,
           AcquirePermit(t, c) \/ \E end \in {"answered", "failed"} : CallEnds(t, c, end)
      PROVE  NoFetchOverFresh'
  BY <1>7 DEF AcquirePermit, CallEnds
<1>8. ASSUME NEW t \in Task, Cancel(t)
      PROVE  NoFetchOverFresh'
  BY <1>8 DEF Cancel, Gate!Finish
<1>9. CASE TimePasses
  BY <1>9 DEF TimePasses
<1>10. CASE \/ OrphanDrops \/ UNCHANGED fetchVars
           \/ \E c \in Country : BlockLapses(c)
           \/ \E r \in Led : LeadChanges(r)
  BY <1>10 DEF OrphanDrops, BlockLapses, LeadChanges, fetchVars
<1> HIDE DEF IInv, TypeOK, cacheVars, requestVars, packageVars, permitVars, NoFetchOverFresh, Holding, Fresh, HoldersRefresh
<1> QED BY <1>1, <1>2, <1>3, <1>4, <1>5, <1>6, <1>7, <1>8, <1>9, <1>10, NextShape

LEMMA NextKeptComplete ==
    ASSUME IInv, [FetchNext]_fetchVars
    PROVE  KeptComplete'
<1> USE ConstantTypes
    DEF IInv, TypeOK, cacheVars, requestVars, packageVars, permitVars, KeptComplete
<1>1. ASSUME NEW t \in Task, NEW r \in Row, NEW f \in BOOLEAN, FetchRow(t, r, f)
      PROVE  KeptComplete'
  BY <1>1 DEF FetchRow
<1>2. ASSUME NEW t \in Task, NEW r \in Row, ServeStale(t, r)
      PROVE  KeptComplete'
  BY <1>2 DEF ServeStale
<1>3. ASSUME NEW t \in Task, FilledMeanwhile(t)
      PROVE  KeptComplete'
  BY <1>3 DEF FilledMeanwhile
<1>4. ASSUME NEW t \in Task, Lock(t)
      PROVE  KeptComplete'
  BY <1>4 DEF Lock, Gate!Start
<1>5. ASSUME NEW t \in Task, LookUpList(t)
      PROVE  KeptComplete'
  BY <1>5 DEF LookUpList
<1>6. ASSUME NEW t \in Task, Turns(t)
      PROVE  KeptComplete'
  <2>1. CASE Ends(t)
    <3>1. CASE UNCHANGED cacheVars
      BY <3>1
    <3>2. ASSUME NEW body \in {"lead", "whole"}, body = "lead" => row[t] \in Led,
                 cached' = [cached EXCEPT ![row[t]] = body]
          PROVE  KeptComplete'
      BY <3>2
    <3> QED BY <2>1, <3>1, <3>2, EndsShape
  <2>2. CASE Queues(t)
    BY <2>2 DEF Queues
  <2> QED BY <1>6, <2>1, <2>2 DEF Turns
<1>7. ASSUME NEW t \in Task, NEW c \in Call,
           AcquirePermit(t, c) \/ \E end \in {"answered", "failed"} : CallEnds(t, c, end)
      PROVE  KeptComplete'
  BY <1>7 DEF AcquirePermit, CallEnds
<1>8. ASSUME NEW t \in Task, Cancel(t)
      PROVE  KeptComplete'
  BY <1>8 DEF Cancel, Gate!Finish
<1>9. CASE TimePasses
  BY <1>9 DEF TimePasses
<1>10. CASE \/ OrphanDrops \/ UNCHANGED fetchVars
           \/ \E c \in Country : BlockLapses(c)
           \/ \E r \in Led : LeadChanges(r)
  BY <1>10 DEF OrphanDrops, BlockLapses, LeadChanges, fetchVars
<1> HIDE DEF IInv, TypeOK, cacheVars, requestVars, packageVars, permitVars, KeptComplete
<1> QED BY <1>1, <1>2, <1>3, <1>4, <1>5, <1>6, <1>7, <1>8, <1>9, <1>10, NextShape

LEMMA NextFreshIsWhole ==
    ASSUME IInv, [FetchNext]_fetchVars
    PROVE  FreshIsWhole'
<1> USE ConstantTypes
    DEF IInv, TypeOK, cacheVars, requestVars, packageVars, permitVars, FreshIsWhole, KeptComplete, Fresh, Reply, NoReply
<1>1. ASSUME NEW t \in Task, NEW r \in Row, NEW f \in BOOLEAN, FetchRow(t, r, f)
      PROVE  FreshIsWhole'
  BY <1>1 DEF FetchRow
<1>2. ASSUME NEW t \in Task, NEW r \in Row, ServeStale(t, r)
      PROVE  FreshIsWhole'
  BY <1>2 DEF ServeStale
<1>3. ASSUME NEW t \in Task, FilledMeanwhile(t)
      PROVE  FreshIsWhole'
  BY <1>3 DEF FilledMeanwhile
<1>4. ASSUME NEW t \in Task, Lock(t)
      PROVE  FreshIsWhole'
  BY <1>4 DEF Lock, Gate!Start
<1>5. ASSUME NEW t \in Task, LookUpList(t)
      PROVE  FreshIsWhole'
  BY <1>5 DEF LookUpList
<1>6. ASSUME NEW t \in Task, Turns(t)
      PROVE  FreshIsWhole'
  <2>1. CASE Ends(t)
    <3>1. row' = row
      BY <2>1, EndsShape
    <3>2. PICK answer \in Reply :
             /\ reply' = [reply EXCEPT ![t] = answer]
             /\ answer.fresh /\ row[t] \notin Led => answer.body = "whole"
      BY <2>1, EndsShape, Zenon
    <3> QED BY <3>1, <3>2
  <2>2. CASE Queues(t)
    BY <2>2 DEF Queues
  <2> QED BY <1>6, <2>1, <2>2 DEF Turns
<1>7. ASSUME NEW t \in Task, NEW c \in Call,
           AcquirePermit(t, c) \/ \E end \in {"answered", "failed"} : CallEnds(t, c, end)
      PROVE  FreshIsWhole'
  BY <1>7 DEF AcquirePermit, CallEnds
<1>8. ASSUME NEW t \in Task, Cancel(t)
      PROVE  FreshIsWhole'
  BY <1>8 DEF Cancel, Gate!Finish
<1>9. CASE TimePasses
  BY <1>9 DEF TimePasses
<1>10. CASE \/ OrphanDrops \/ UNCHANGED fetchVars
           \/ \E c \in Country : BlockLapses(c)
           \/ \E r \in Led : LeadChanges(r)
  BY <1>10 DEF OrphanDrops, BlockLapses, LeadChanges, fetchVars
<1> HIDE DEF IInv, TypeOK, cacheVars, requestVars, packageVars, permitVars, FreshIsWhole, KeptComplete, Fresh, Reply, NoReply
<1> QED BY <1>1, <1>2, <1>3, <1>4, <1>5, <1>6, <1>7, <1>8, <1>9, <1>10, NextShape

LEMMA CallsFinite ==
    /\ IsFiniteSet(InFlight) /\ Cardinality(InFlight) \in Nat
    /\ \A t \in Task : IsFiniteSet(Asking(t)) /\ Cardinality(Asking(t)) \in Nat
<1>1. IsFiniteSet(Task \X Call)
  BY ConstantTypes, FS_Product
<1>2. IsFiniteSet(InFlight)
  BY <1>1, FS_Subset DEF InFlight
<1>3. \A t \in Task : IsFiniteSet(Asking(t))
  BY ConstantTypes, FS_Subset DEF Asking
<1> QED BY <1>2, <1>3, FS_CardinalityType

(* The calls under way when all of one task's are over. *)
LEMMA CallsOver ==
    ASSUME NEW t \in Task,
           \A u \in Task \ {t} : calls'[u] = calls[u],
           \A c \in Call : calls'[t][c] # "asking"
    PROVE  Cardinality(InFlight') = Cardinality(InFlight) - Cardinality(Asking(t))
<1> DEFINE mine == {t} \X Asking(t)
<1>1. InFlight' = InFlight \ mine
  BY DEF InFlight, Asking
<1>2. InFlight \cap mine = mine
  BY DEF InFlight, Asking
<1>3. Cardinality(mine) = Cardinality(Asking(t))
  <2>1. IsFiniteSet({t}) /\ Cardinality({t}) = 1
    BY FS_Singleton
  <2> QED BY <2>1, CallsFinite, FS_Product
<1>4. Cardinality(InFlight \ mine) = Cardinality(InFlight) - Cardinality(InFlight \cap mine)
  BY CallsFinite, FS_Difference
<1> QED BY <1>1, <1>2, <1>3, <1>4

(* One call more, or one call less, under way. *)
LEMMA OneCall ==
    ASSUME NEW t \in Task, NEW c \in Call, TypeOK,
           NEW end, calls' = [calls EXCEPT ![t][c] = end]
    PROVE  /\ calls[t][c] # "asking" /\ end = "asking" =>
                Cardinality(InFlight') = Cardinality(InFlight) + 1
           /\ calls[t][c] = "asking" /\ end # "asking" =>
                Cardinality(InFlight') = Cardinality(InFlight) - 1
           /\ calls[t][c] # "asking" /\ end # "asking" => InFlight' = InFlight
<1> USE DEF TypeOK
<1>1. CASE calls[t][c] # "asking" /\ end = "asking"
  <2>1. InFlight' = InFlight \cup {<<t, c>>} /\ <<t, c>> \notin InFlight
    BY <1>1 DEF InFlight
  <2> QED BY <1>1, <2>1, CallsFinite, FS_AddElement
<1>2. CASE calls[t][c] = "asking" /\ end # "asking"
  <2>1. InFlight' = InFlight \ {<<t, c>>} /\ <<t, c>> \in InFlight
    BY <1>2 DEF InFlight
  <2>2. Cardinality(InFlight \ {<<t, c>>}) = Cardinality(InFlight) - 1
    <3>1. <<t, c>> \in InFlight /\ IsFiniteSet(InFlight)
      BY <2>1, CallsFinite
    <3>2. \A x \in InFlight : Cardinality(InFlight \ {x}) = Cardinality(InFlight) - 1
      BY <3>1, FS_RemoveElement
    <3> QED BY <3>1, <3>2
  <2> QED BY <1>2, <2>1, <2>2
<1>3. CASE calls[t][c] # "asking" /\ end # "asking"
  BY <1>3 DEF InFlight
<1> QED BY <1>1, <1>2, <1>3

(* A permit is in the semaphore, with a call or with an orphan; a step     *)
(* moves it from one to another.                                           *)
LEMMA NextPermitsBalance ==
    ASSUME IInv, [FetchNext]_fetchVars
    PROVE  PermitsBalance'
<1> USE ConstantTypes, CallsFinite
    DEF IInv, cacheVars, requestVars, packageVars, permitVars, PermitsBalance
<1>0. permits \in Nat /\ orphans \in Nat /\ Cardinality(InFlight) \in Nat
      /\ (calls' = calls => InFlight' = InFlight)
  BY DEF TypeOK, InFlight
<1>1. ASSUME NEW t \in Task, NEW r \in Row, NEW f \in BOOLEAN, FetchRow(t, r, f)
      PROVE  PermitsBalance'
  BY <1>0, <1>1 DEF FetchRow
<1>2. ASSUME NEW t \in Task, NEW r \in Row, ServeStale(t, r)
      PROVE  PermitsBalance'
  BY <1>0, <1>2 DEF ServeStale
<1>3. ASSUME NEW t \in Task, FilledMeanwhile(t) \/ Lock(t)
      PROVE  PermitsBalance'
  BY <1>0, <1>3 DEF FilledMeanwhile, Lock
<1>4. ASSUME NEW t \in Task, LookUpList(t)
      PROVE  PermitsBalance'
  <2>1. List \in Call /\ calls[t][List] = "none"
    BY <1>4 DEF LookUpList, CallsInPlace, NoCalls, Call
  <2>2. InFlight' = InFlight
    <3>1. calls' = [calls EXCEPT ![t][List] = "queued"]
      BY <1>4 DEF LookUpList
    <3> QED BY <2>1, <3>1 DEF InFlight, TypeOK
  <2> QED BY <1>0, <1>4, <2>2 DEF LookUpList
<1>5. ASSUME NEW t \in Task, Turns(t)
      PROVE  PermitsBalance'
  <2>1. \A u \in Task \ {t} : calls'[u] = calls[u]
    BY <1>5, EndsShape DEF Turns, Queues, TypeOK
  <2>2. \A c \in Call : calls'[t][c] # "asking"
    <3>1. CASE Ends(t)
      <4>1. calls' = [calls EXCEPT ![t] = NoCalls]
        BY <3>1, EndsShape
      <4> QED BY <4>1 DEF NoCalls, TypeOK
    <3>2. CASE Queues(t)
      BY <3>2 DEF Queues, TypeOK
    <3> QED BY <1>5, <3>1, <3>2 DEF Turns
  <2> QED BY <1>0, <1>5, <2>1, <2>2, CallsOver DEF Turns
<1>6. ASSUME NEW t \in Task, NEW c \in Call, AcquirePermit(t, c)
      PROVE  PermitsBalance'
  <2>1. Cardinality(InFlight') = Cardinality(InFlight) + 1
    BY <1>6, OneCall DEF AcquirePermit
  <2> QED BY <1>0, <1>6, <2>1 DEF AcquirePermit
<1>7. ASSUME NEW t \in Task, NEW c \in Call, NEW end \in {"answered", "failed"}, CallEnds(t, c, end)
      PROVE  PermitsBalance'
  <2>1. Cardinality(InFlight') = Cardinality(InFlight) - 1
    BY <1>7, OneCall DEF CallEnds
  <2> QED BY <1>0, <1>7, <2>1 DEF CallEnds
<1>8. ASSUME NEW t \in Task, Cancel(t)
      PROVE  PermitsBalance'
  <2>1. calls' = [calls EXCEPT ![t] = NoCalls]
    BY <1>8 DEF Cancel
  <2>2. Cardinality(InFlight') = Cardinality(InFlight) - Cardinality(Asking(t))
    <3>1. \A u \in Task \ {t} : calls'[u] = calls[u]
      BY <2>1 DEF TypeOK
    <3>2. \A c \in Call : calls'[t][c] # "asking"
      BY <2>1 DEF TypeOK, NoCalls
    <3> QED BY <3>1, <3>2, CallsOver
  <2>3. /\ Cardinality(Spawned(t)) \in Nat
        /\ Cardinality(Asking(t) \ Spawned(t)) = Cardinality(Asking(t)) - Cardinality(Spawned(t))
    <3>1. Spawned(t) \in SUBSET Asking(t) /\ Asking(t) \cap Spawned(t) = Spawned(t)
      BY DEF Spawned
    <3>2. IsFiniteSet(Spawned(t)) /\ Cardinality(Spawned(t)) \in Nat
      BY <3>1, FS_Subset, FS_CardinalityType
    <3> QED BY <3>1, <3>2, FS_Difference
  <2> QED BY <1>0, <1>8, <2>2, <2>3 DEF Cancel
<1>9. CASE TimePasses
  BY <1>0, <1>9 DEF TimePasses
<1>10. CASE \/ OrphanDrops \/ UNCHANGED fetchVars
           \/ \E c \in Country : BlockLapses(c)
           \/ \E r \in Led : LeadChanges(r)
  BY <1>0, <1>10 DEF OrphanDrops, BlockLapses, LeadChanges, fetchVars
<1> HIDE DEF IInv, PermitsBalance
<1> QED BY <1>1, <1>2, <1>3, <1>4, <1>5, <1>6, <1>7, <1>8, <1>9, <1>10, NextShape

LEMMA InitIInv == FetchInit => IInv
<1> SUFFICES ASSUME FetchInit PROVE IInv
  OBVIOUS
<1> USE ConstantTypes DEF FetchInit, StartsWith
<1>1. TypeOK
  <2>1. \A r \in Row : [t \in Task |-> r] \in [Task -> Row]
    OBVIOUS
  <2>2. NoReply \in Reply /\ NoCalls \in [Call -> {"none", "queued", "asking", "answered", "failed"}]
    BY DEF NoReply, Reply, Kept, NoCalls
  <2>3. MaxPermits \in Nat /\ 0 \in 0..MaxAge
    BY BoundAssumption
  <2> QED BY <2>1, <2>2, <2>3 DEF TypeOK, Kept
<1>2. HoldersRefresh /\ CallsInPlace /\ NoFetchOverFresh /\ KeptComplete /\ FreshIsWhole
  <2>1. HoldersRefresh /\ CallsInPlace /\ NoFetchOverFresh /\ KeptComplete
    BY DEF HoldersRefresh, Holding, CallsInPlace, NoFetchOverFresh, KeptComplete
  <2>2. FreshIsWhole
    BY DEF FreshIsWhole, NoReply
  <2> QED BY <2>1, <2>2
<1>3. PermitsBalance
  <2>1. InFlight = {}
    BY DEF InFlight, NoCalls
  <2> QED BY <2>1, FS_EmptySet DEF PermitsBalance
<1> QED BY <1>1, <1>2, <1>3 DEF IInv

(* The parts of the invariant hold whatever requests, upstream and time    *)
(* do: who holds a gate, where a call may be, where the permits are, and   *)
(* what is kept and called fresh.                                          *)
THEOREM Invariance == FetchSpec => []IInv
<1>1. IInv /\ [FetchNext]_fetchVars => IInv'
  BY NextTypeOK, NextHoldersRefresh, NextCallsInPlace, NextPermitsBalance, NextNoFetchOverFresh,
     NextKeptComplete, NextFreshIsWhole DEF IInv
<1> QED BY <1>1, InitIInv, PTL DEF FetchSpec

(* `upstream` caps the calls of all rows, aggregates and abandoned         *)
(* requests together.                                                      *)
THEOREM CeilingHolds == FetchSpec => []UpstreamCapped
<1>1. IInv => UpstreamCapped
  BY CallsFinite, ConstantTypes DEF IInv, TypeOK, PermitsBalance, UpstreamCapped
<1> QED BY <1>1, Invariance, PTL

(* A burst of requests for a row costs one refresh: none of them spends    *)
(* calls on a row that was filled while it waited.                         *)
THEOREM OneRefreshFills == FetchSpec => []NoFetchOverFresh
<1>1. IInv => NoFetchOverFresh
  BY DEF IInv
<1> QED BY <1>1, Invariance, PTL

(* A row that may be kept by clients is whole. *)
THEOREM FreshRowsAreWhole == FetchSpec => []FreshIsWhole
<1>1. IInv => FreshIsWhole
  BY DEF IInv
<1> QED BY <1>1, Invariance, PTL

(* No failure replaces a whole row that no list leads. *)
THEOREM GoodRowsStay == FetchSpec => LastGoodKept
<1>1. ASSUME IInv, [FetchNext]_fetchVars, NEW r \in Row \ Led, cached[r] = "whole"
      PROVE  cached'[r] = "whole"
  <2> USE DEF cacheVars
  <2>1. ASSUME NEW t \in Task, Turns(t)
        PROVE  cached'[r] = "whole"
    <3>1. CASE Ends(t)
      <4>1. CASE UNCHANGED cacheVars
        BY <1>1, <4>1
      <4>2. ASSUME NEW body \in {"lead", "whole"}, body = "lead" => row[t] \in Led,
                   cached' = [cached EXCEPT ![row[t]] = body]
            PROVE  cached'[r] = "whole"
        BY <1>1, <4>2 DEF IInv, TypeOK
      <4> QED BY <1>1, <3>1, <4>1, <4>2, EndsShape DEF IInv
    <3>2. CASE Queues(t)
      BY <1>1, <3>2 DEF Queues
    <3> QED BY <2>1, <3>1, <3>2 DEF Turns
  <2>2. \/ cached' = cached \/ \E t \in Task : Turns(t)
    BY <1>1, NextShape DEF FetchRow, ServeStale, FilledMeanwhile, Lock, LookUpList, AcquirePermit,
       CallEnds, Cancel, TimePasses, OrphanDrops, BlockLapses, LeadChanges, fetchVars
  <2> QED BY <1>1, <2>1, <2>2
<1>2. IInv /\ [FetchNext]_fetchVars
        => [\A r \in Row \ Led : cached[r] = "whole" => cached'[r] = "whole"]_fetchVars
  BY <1>1
<1> QED BY <1>2, Invariance, PTL DEF FetchSpec, LastGoodKept

(* What a fetch of such a row answers at its end while a whole one is kept. *)
LEMMA EndsWhole ==
    ASSUME TypeOK, NEW t \in Task, row[t] \notin Led, cached[row[t]] = "whole", Ends(t)
    PROVE  reply'[t].body \in {"whole", "absent"}
<1> USE DEF TypeOK, Leave
<1>1. ASSUME NEW body \in {"lead", "whole"}, body = "lead" => row[t] \in Led, Store(t, body)
      PROVE  reply'[t].body = "whole"
  BY <1>1 DEF Store
<1>2. ASSUME NEW body \in {"none", "part"}, Degrade(t, body)
      PROVE  reply'[t].body = "whole"
  BY <1>2 DEF Degrade
<1>3. CASE Absent(t)
  BY <1>3 DEF Absent
<1> QED BY <1>1, <1>2, <1>3 DEF Ends

(* While a whole row is kept, a refresh of it is answered with a whole one, *)
(* whatever upstream made of it.                                           *)
THEOREM GoodRowsServed == FetchSpec => LastGoodServed
<1>1. ASSUME IInv, [FetchNext]_fetchVars, NEW t \in Task, Holding(t),
             row[t] \notin Led, cached[row[t]] = "whole", reply'[t] # reply[t]
      PROVE  reply'[t].body \in {"whole", "absent"}
  <2> USE DEF IInv, requestVars, Holding
  <2>1. ASSUME NEW u \in Task, NEW r \in Row,
               ServeStale(u, r) \/ \E f \in BOOLEAN : FetchRow(u, r, f)
        PROVE  FALSE
    BY <1>1, <2>1 DEF ServeStale, FetchRow, TypeOK
  <2>2. ASSUME NEW u \in Task, FilledMeanwhile(u)
        PROVE  FALSE
    BY <1>1, <2>2 DEF FilledMeanwhile, TypeOK
  <2>3. ASSUME NEW u \in Task, Turns(u)
        PROVE  reply'[t].body \in {"whole", "absent"}
    <3>1. CASE Queues(u)
      BY <1>1, <3>1 DEF Queues
    <3>2. CASE Ends(u)
      <4>1. u = t
        BY <1>1, <3>2, EndsShape DEF TypeOK
      <4> QED BY <1>1, <3>2, <4>1, EndsWhole
    <3> QED BY <2>3, <3>1, <3>2 DEF Turns
  <2>4. \/ reply' = reply
        \/ \E u \in Task : \/ FilledMeanwhile(u) \/ Turns(u)
                           \/ \E r \in Row : ServeStale(u, r) \/ \E f \in BOOLEAN : FetchRow(u, r, f)
    BY <1>1, NextShape DEF Lock, LookUpList, AcquirePermit, CallEnds, Cancel, TimePasses,
       OrphanDrops, BlockLapses, LeadChanges, fetchVars
  <2> QED BY <1>1, <2>1, <2>2, <2>3, <2>4
<1>2. IInv /\ [FetchNext]_fetchVars
        => [ServesGood]_fetchVars
  BY <1>1 DEF ServesGood
<1> QED BY <1>2, Invariance, PTL DEF FetchSpec, LastGoodServed

-----------------------------------------------------------------------------
(* CatalogRows.                                                            *)

(* A pass is a line of due rows, none twice, and no longer than the cap.    *)
LEMMA PassesAreLines ==
    ASSUME NEW rows \in SUBSET Row, NEW pass \in PassesOver(rows)
    PROVE  pass \in Seq(Row) /\ IsInjective(pass) /\ Len(pass) <= PerPass
<1> DEFINE n == IF Cardinality(rows) < PerPass THEN Cardinality(rows) ELSE PerPass
<1>1. Cardinality(rows) \in Nat
  BY RefresherAssumption, FS_Subset, FS_CardinalityType
<1>2. n \in Nat /\ n <= PerPass
  BY <1>1, RefresherAssumption
<1>3. pass \in Injection(1..n, rows)
  BY DEF PassesOver
<1>4. pass \in [1..n -> Row] /\ IsInjective(pass)
  BY <1>3 DEF Injection
<1> HIDE DEF n
<1>5. pass \in Seq(Row) /\ Len(pass) = n
  BY <1>2, <1>4, SeqDef
<1> QED BY <1>2, <1>4, <1>5

RowLines ==
    /\ asked \in Seq(Row) /\ due \in Seq(Row) /\ ahead \in BOOLEAN
    /\ IsInjective(asked) /\ IsInjective(due) /\ AskedBounded

(* The row asked for leaves its old place first, so that the line has room *)
(* or gives up its first.                                                  *)
LEMMA NotedIsLine ==
    ASSUME RowLines, NEW r \in Row
    PROVE  Noted(r) \in Seq(Row) /\ IsInjective(Noted(r)) /\ Len(Noted(r)) <= MaxAsked
<1> DEFINE others == IF r \in ToSet(asked)
                     THEN RemoveAt(asked, CHOOSE i \in DOMAIN asked : asked[i] = r) ELSE asked
           room == IF Len(others) >= MaxAsked THEN Tail(others) ELSE others
<1>1. asked \in Seq(Row) /\ IsInjective(asked) /\ Len(asked) <= MaxAsked /\ MaxAsked \in Nat \ {0}
  BY RefresherAssumption DEF RowLines, AskedBounded
<1>2. others \in Seq(Row) /\ IsInjective(others) /\ Len(others) <= MaxAsked /\ r \notin ToSet(others)
  <2>1. CASE r \in ToSet(asked)
    <3>1. PICK i \in DOMAIN asked : i = (CHOOSE k \in DOMAIN asked : asked[k] = r) /\ asked[i] = r
      BY <2>1 DEF ToSet
    <3>2. others = RemoveAt(asked, i)
      BY <2>1, <3>1
    <3> QED BY <1>1, <3>1, <3>2, RemoveFromQueue
  <2>2. CASE r \notin ToSet(asked)
    BY <1>1, <2>2
  <2> QED BY <2>1, <2>2
<1> HIDE DEF others
<1>3. room \in Seq(Row) /\ IsInjective(room) /\ Len(room) < MaxAsked /\ r \notin ToSet(room)
  <2>1. CASE Len(others) >= MaxAsked
    <3>1. others # <<>> /\ room = Tail(others)
      BY <1>1, <1>2, <2>1
    <3> QED BY <1>1, <1>2, <3>1, TailOfQueue
  <2>2. CASE Len(others) < MaxAsked
    BY <1>1, <1>2, <2>2
  <2> QED BY <1>1, <1>2, <2>1, <2>2
<1> HIDE DEF room
<1>4. Append(room, r) \in Seq(Row) /\ Len(Append(room, r)) = Len(room) + 1 /\ IsInjective(Append(room, r))
  BY <1>3, AppendToQueue
<1>5. Noted(r) = Append(room, r)
  BY DEF Noted, others, room
<1> QED BY <1>1, <1>3, <1>4, <1>5

LEMMA LinesStay == RowLines /\ [Next]_vars => RowLines'
<1> SUFFICES ASSUME RowLines, [Next]_vars
             PROVE  RowLines'
  OBVIOUS
<1>1. ASSUME NEW t \in Task, NEW r \in Row, Request(t, r)
      PROVE  RowLines'
  <2>1. due' = due /\ ahead' = ahead /\ asked' \in {Noted(r), asked}
    BY <1>1 DEF Request
  <2> QED BY <2>1, NotedIsLine DEF RowLines, AskedBounded
<1>2. CASE StartPass
  <2>1. PICK lapsed \in 0..Len(asked) : asked' = SubSeq(asked, lapsed + 1, Len(asked))
    BY <1>2 DEF StartPass
  <2>2. asked' \in Seq(Row) /\ IsInjective(asked') /\ Len(asked') <= MaxAsked
    <3>1. /\ asked' \in Seq(Row) /\ IsInjective(asked') /\ Len(asked') = Len(asked) - lapsed
      BY <2>1, RestOfQueue DEF RowLines, AskedBounded
    <3> QED BY <3>1, RefresherAssumption DEF RowLines, AskedBounded
  <2>3. PICK rows \in SUBSET Row : due' \in PassesOver(rows)
    BY <1>2 DEF StartPass
  <2>4. due' \in Seq(Row) /\ IsInjective(due') /\ Len(due') <= PerPass /\ ahead' = TRUE
    BY <1>2, <2>3, PassesAreLines DEF StartPass
  <2> QED BY <2>2, <2>4 DEF RowLines, AskedBounded
<1>3. CASE RefreshNext
  <2>1. due # <<>> /\ due' = Tail(due) /\ asked' = asked /\ ahead' = ahead
    BY <1>3 DEF RefreshNext
  <2>2. due' \in Seq(Row) /\ IsInjective(due') /\ Len(due') = Len(due) - 1
    BY <2>1, TailOfQueue DEF RowLines, AskedBounded
  <2> QED BY <2>1, <2>2, RefresherAssumption DEF RowLines, AskedBounded
<1>4. CASE UNCHANGED <<asked, ahead, due>>
  BY <1>4 DEF RowLines, AskedBounded
<1> QED BY <1>1, <1>2, <1>3, <1>4 DEF Next, AroundStep, FetchStep, RequestCancelled, vars

LEMMA LinesHold == Spec => []RowLines
<1>1. Init => RowLines
  <2> SUFFICES ASSUME Init PROVE RowLines
    OBVIOUS
  <2>1. asked = <<>> /\ due = <<>> /\ ahead = FALSE
    BY DEF Init
  <2>2. <<>> \in Seq(Row) /\ Len(<<>>) = 0
    OBVIOUS
  <2>3. IsInjective(<<>>)
    BY <2>2, HeadOfQueue
  <2>4. 0 <= MaxAsked /\ 0 <= PerPass
    BY RefresherAssumption
  <2> QED BY <2>1, <2>2, <2>3, <2>4 DEF RowLines, AskedBounded
<1> QED BY <1>1, LinesStay, PTL DEF Spec

(* Every step of a request or of the refresher is one of RowFetch or none  *)
(* of its business.                                                        *)
THEOREM RowsAreFetched == Spec => FetchSpec
<1>1. RowLines /\ [Next]_vars => [FetchNext]_fetchVars
  <2> SUFFICES ASSUME RowLines, [Next]_vars
               PROVE  FetchNext \/ UNCHANGED fetchVars
    OBVIOUS
  <2> USE RefresherAssumption
  <2>1. ASSUME NEW t \in Task, NEW r \in Row, Request(t, r)
        PROVE  FetchNext
    <3>1. ServeStale(t, r) \/ FetchRow(t, r, FALSE)
      BY <2>1 DEF Request
    <3> QED BY <3>1 DEF FetchNext
  <2>2. ASSUME NEW t \in Task, FetchStep(t) \/ RequestCancelled(t)
        PROVE  FetchNext
    BY <2>2 DEF FetchStep, RequestCancelled, FetchNext
  <2>3. CASE RefreshNext
    <3>1. due # <<>> /\ FetchRow(Refresher, Head(due), TRUE)
      BY <2>3 DEF RefreshNext
    <3>2. Head(due) \in Row
      BY <3>1, HeadTailProperties DEF RowLines
    <3> QED BY <3>1, <3>2 DEF FetchNext
  <2>4. CASE AroundStep
    BY <2>4 DEF AroundStep, FetchNext
  <2>5. CASE StartPass \/ UNCHANGED vars
    BY <2>5 DEF StartPass, vars
  <2> QED BY <2>1, <2>2, <2>3, <2>4, <2>5 DEF Next
<1>2. Init => FetchInit
  BY DEF Init
<1> QED BY <1>1, <1>2, LinesHold, PTL DEF Spec, FetchSpec

(* With the requests and the refresher that there are, the ceiling holds   *)
(* and what is called fresh is whole.                                      *)
COROLLARY RowsKeepCeiling == Spec => [](UpstreamCapped /\ FreshIsWhole)
BY RowsAreFetched, CeilingHolds, FreshRowsAreWhole, PTL

(* ASKED_ROWS and REFRESHES_PER_PASS: however many rows are asked for, and *)
(* again, at most the cap are remembered, each once, and a pass refreshes  *)
(* at most as many as it may, none twice.                                  *)
THEOREM RowsAreBounded == Spec => []RowsInv
<1>1. IInv /\ RowLines => RowsInv
  BY DEF IInv, RowLines, RowsInv, TypeOKRows
<1> QED BY <1>1, RowsAreFetched, Invariance, LinesHold, PTL

=============================================================================
