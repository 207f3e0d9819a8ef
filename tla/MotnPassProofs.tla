----------------------------- MODULE MotnPassProofs -----------------------------
(***************************************************************************)
(* Whatever the services, the wants, the pages and the days: no day sees   *)
(* more requests than its budget, though the process may end at any step.  *)
(*                                                                         *)
(* The count in the file is never behind what went on the wire; all steps  *)
(* but a request's own leave the counts alone (`CountsKept`).              *)
(***************************************************************************)
EXTENDS MotnPass, TLAPS

SameCount(k, l) == k.spentDay = l.spentDay /\ k.spent = l.spent

LEMMA ReadsAreJobs ==
    ASSUME NEW j \in Jobs
    PROVE  /\ j # NoJob
           /\ j \in Reads => j[1] \in {"market", "country", "leaving", "coming"}
           /\ j[1] \in {"market", "country", "leaving", "coming"} => j \in Reads
           /\ j[1] = "market" => j[2] \in Service
BY DEF Jobs, Reads, NoJob

LEMMA KeptFields ==
    ASSUME NEW k \in Kept
    PROVE  /\ k.spentDay \in Date /\ k.spent \in 0..Daily
           /\ k.servicesAt \in Time /\ k.top \in [Service -> Time]
           /\ k.until \in Time /\ k.covered \in [Service -> Time]
           /\ k.added \in [Service -> SUBSET Date]
           /\ k.changes \in [Reads -> Progress]
           /\ k.soonAt \in Time /\ k.soonMarkets \in SUBSET Service /\ k.leavingFrom \in Int
BY DEF Kept

LEMMA ProgressFields ==
    ASSUME NEW read \in Progress
    PROVE  /\ read.from \in Int /\ read.to \in Date /\ read.catalogs \in SUBSET Service
           /\ read.pages \in 0..MaxPages
           /\ read.state \in {"none", "open", "complete", "quarantined"}
BY DEF Progress

LEMMA NoReadType == NoRead \in Progress /\ NoRead.state = "none"
BY MotnAssumption DEF NoRead, Progress, Date

(* A read in k's place at j. *)
LEMMA ReadKept ==
    ASSUME NEW k \in Kept, NEW j \in Reads, NEW read \in Progress
    PROVE  LET l == [k EXCEPT !.changes[j] = read]
           IN  /\ l \in Kept /\ SameCount(l, k)
               /\ l.changes = [k.changes EXCEPT ![j] = read]
BY DEF Kept, SameCount

LEMMA ReadKeptOpen ==
    ASSUME NEW k \in Kept, OpenReads(k), NEW j \in Reads, NEW read \in Progress,
           read.state = "open" => read.pages < MaxPages
    PROVE  OpenReads([k EXCEPT !.changes[j] = read])
<1>1. [k EXCEPT !.changes[j] = read].changes = [k.changes EXCEPT ![j] = read]
  BY ReadKept
<1>2. k.changes \in [Reads -> Progress]
  BY KeptFields
<1> QED BY <1>1, <1>2 DEF OpenReads

LEMMA AddingType ==
    ASSUME NEW k \in Kept, NEW markets, NEW read \in Progress
    PROVE  LET l == Adding(k, markets, read)
           IN  l \in Kept /\ SameCount(l, k) /\ l.changes = k.changes
<1>1. read.to \in Time /\ k.added \in [Service -> SUBSET Date] /\ k.covered \in [Service -> Time]
  BY KeptFields, ProgressFields DEF Time
<1>2. Days(read) \subseteq Date
  BY DEF Days
<1> DEFINE A == [s \in Service |->
                 {d \in k.added[s] \cup (IF s \in read.catalogs THEN Days(read) ELSE {}) : now - d < KeepAdded}]
           C == [s \in Service |-> IF s \in markets THEN read.to ELSE k.covered[s]]
<1>3. A \in [Service -> SUBSET Date] /\ C \in [Service -> Time]
  BY <1>1, <1>2
<1>4. Adding(k, markets, read) = [k EXCEPT !.added = A, !.covered = C]
  BY DEF Adding
<1> HIDE DEF A, C
<1> QED BY <1>3, <1>4 DEF Kept, SameCount

LEMMA FoldedType ==
    ASSUME NEW k \in Kept, NEW j \in Reads, OpenReads(k)
    PROVE  LET l == Folded(k, j)
           IN  l \in Kept /\ SameCount(l, k) /\ OpenReads(l)
<1> DEFINE read == k.changes[j]
<1>1. read \in Progress /\ read.to \in Time
  BY KeptFields, ProgressFields DEF Time
<1>2. \A l \in Kept : SameCount(l, k) /\ l.changes = k.changes => OpenReads(l)
  BY DEF OpenReads
<1>3. CASE j[1] = "market"
  <2> DEFINE l == Adding(k, {j[2]}, read)
  <2>1. l \in Kept /\ SameCount(l, k) /\ l.changes = k.changes
    BY <1>1, AddingType
  <2>2. Folded(k, j) = [l EXCEPT !.changes[j] = NoRead]
    BY <1>3 DEF Folded
  <2> HIDE DEF l
  <2> QED BY <1>2, <2>1, <2>2, NoReadType, ReadKept, ReadKeptOpen DEF SameCount
<1>4. CASE j[1] = "country"
  <2> DEFINE l == Adding(k, read.catalogs, read)
             m == [l EXCEPT !.until = read.to]
  <2>1. l \in Kept /\ SameCount(l, k) /\ l.changes = k.changes
    BY <1>1, AddingType
  <2>2. m \in Kept /\ SameCount(m, k) /\ m.changes = k.changes
    BY <1>1, <2>1 DEF Kept, SameCount
  <2>3. Folded(k, j) = [l EXCEPT !.until = read.to, !.changes[j] = NoRead]
    BY <1>4 DEF Folded
  <2> HIDE DEF l
  <2>4. Folded(k, j) = [m EXCEPT !.changes[j] = NoRead]
    BY <2>1, <2>3 DEF Kept
  <2> HIDE DEF m
  <2> QED BY <1>2, <2>2, <2>4, NoReadType, ReadKept, ReadKeptOpen DEF SameCount
<1>5. CASE j[1] \notin {"market", "country"}
  BY <1>5 DEF Folded, SameCount
<1> QED BY <1>3, <1>4, <1>5

LEMMA AskedType ==
    ASSUME MotnTypeOK, now # Never, NEW j \in Reads, Needed(j)
    PROVE  Asked(j) \in Progress /\ Asked(j).state = "open" /\ Asked(j).pages < MaxPages
<1>1. now \in Date /\ now \in Int
  BY DEF MotnTypeOK, Time, Date
<1>2. held.until \in Time /\ held.covered \in [Service -> Time]
  BY KeptFields DEF MotnTypeOK
<1>3. \A kind : Wanted(kind) \subseteq Service
  BY DEF Wanted, Offered
<1>4. ASSUME NEW from \in Int, NEW to \in Date, NEW catalogs \in SUBSET Service
      PROVE  New(from, to, catalogs) \in Progress /\ New(from, to, catalogs).state = "open"
               /\ New(from, to, catalogs).pages < MaxPages
  BY MotnAssumption DEF New, Progress
<1>5. Time \subseteq Int
  BY DEF Time, Date, Never
<1>6. now - LookBack \in Int
  BY <1>1, MotnAssumption
<1>7. CASE j[1] = "market"
  <2>1. j[2] \in Service
    BY <1>7 DEF Reads
  <2>2. held.until \in Date
    BY <1>2, <1>7 DEF Needed, UpToDate, Time
  <2>3. held.covered[j[2]] \in Int
    BY <1>2, <1>5, <2>1
  <2>4. EarliestOf(now - LookBack, held.until) \in Int
    BY <1>5, <1>6, <2>2 DEF EarliestOf, Time
  <2> QED BY <1>4, <1>7, <2>1, <2>2, <2>3, <2>4 DEF Asked
<1>8. CASE j[1] = "country"
  <2>1. Since \in Int
    BY <1>2, <1>5, <1>6 DEF Since, LatestOf
  <2>2. {s \in Wanted("added") : UpToDate(s)} \in SUBSET Service
    BY <1>3
  <2> QED BY <1>1, <1>4, <1>8, <2>1, <2>2 DEF Asked
<1>9. CASE j[1] \in {"leaving", "coming"}
  <2>1. Wanted("soon") \in SUBSET Service /\ Wanted("soon") \cap Upcoming \in SUBSET Service
    BY <1>3
  <2> QED BY <1>1, <1>4, <1>9, <2>1 DEF Asked
<1>10. j[1] \in {"market", "country", "leaving", "coming"}
  BY DEF Reads
<1> QED BY <1>7, <1>8, <1>9, <1>10

LEMMA ResumedType ==
    ASSUME MotnTypeOK, OpenReads(held), now # Never, NEW j \in Reads, Needed(j)
    PROVE  /\ Resumed(j) \in Progress
           /\ Resumed(j).state = "open" => Resumed(j).pages < MaxPages
           /\ Resumed(j).state \in {"open", "complete", "quarantined"}
<1>1. held.changes \in [Reads -> Progress]
  BY KeptFields DEF MotnTypeOK
<1>2. held.changes[j] \in Progress
  BY <1>1
<1>3. held.changes[j].state \in {"none", "open", "complete", "quarantined"}
  BY <1>2, ProgressFields
<1> QED BY <1>2, <1>3, AskedType DEF Resumed, OpenReads

-----------------------------------------------------------------------------
(* What every step but a request's own does to the counts.                 *)
CountsKept == /\ SameCount(held', held)
              /\ disk' = disk \/ SameCount(disk', held)
              /\ wire' = wire /\ clock' = clock

LEMMA CountTypes ==
    ASSUME MotnTypeOK
    PROVE  /\ held.spentDay \in Int /\ held.spent \in Int
           /\ disk.spentDay \in Int /\ disk.spent \in Int
           /\ clock \in Int /\ wire \in Int /\ 0 <= held.spent /\ 0 <= disk.spent
BY KeptFields, MotnAssumption DEF MotnTypeOK, Date

LEMMA Counted ==
    ASSUME MotnTypeOK, RecordedFirst, CountsKept
    PROVE  RecordedFirst'
<1>1. CASE disk' = disk
  BY <1>1 DEF RecordedFirst, CountsKept, SameCount
<1>2. CASE SameCount(disk', held)
  <2>1. /\ disk'.spentDay = held.spentDay /\ disk'.spent = held.spent
        /\ held'.spentDay = held.spentDay /\ held'.spent = held.spent
        /\ wire' = wire /\ clock' = clock
    BY <1>2 DEF CountsKept, SameCount
  <2> QED BY <2>1, CountTypes DEF RecordedFirst
<1> QED BY <1>1, <1>2 DEF CountsKept

(* The count of a request. *)
LEMMA SpentType ==
    ASSUME MotnTypeOK, RecordedFirst
    PROVE  /\ Today \in Kept /\ Today.spentDay = clock /\ Today.changes = held.changes
           /\ Today.spent = IF held.spentDay = clock THEN held.spent ELSE 0
           /\ Today.spent < Daily =>
                /\ Spent \in Kept /\ Spent.spentDay = clock /\ Spent.spent = Today.spent + 1
                /\ Spent.changes = held.changes
<1>1. /\ Today \in Kept /\ Today.spentDay = clock /\ Today.changes = held.changes
      /\ Today.spent = IF held.spentDay = clock THEN held.spent ELSE 0
  <2>1. 0 \in 0..Daily /\ clock \in Date /\ held \in Kept
    BY MotnAssumption DEF MotnTypeOK
  <2>2. [held EXCEPT !.spentDay = clock, !.spent = 0] \in Kept
    BY <2>1 DEF Kept
  <2> QED BY <2>1, <2>2 DEF Today, Kept
<1>2. ASSUME Today.spent < Daily
      PROVE  /\ Spent \in Kept /\ Spent.spentDay = clock /\ Spent.spent = Today.spent + 1
             /\ Spent.changes = held.changes
  <2>1. Today.spent + 1 \in 0..Daily
    BY <1>1, <1>2, KeptFields, MotnAssumption
  <2> QED BY <1>1, <2>1 DEF Spent, Kept
<1> QED BY <1>1, <1>2

LEMMA Initially == MotnInit => PassInv
<1> SUFFICES ASSUME MotnInit PROVE PassInv
  OBVIOUS
<1>1. 0 \in Date /\ Never \in Time /\ Never \in Int
  BY MotnAssumption DEF Date, Time, Never
<1>2. Blank \in Kept
  BY <1>1, NoReadType, MotnAssumption DEF Blank, Kept
<1>3. Blank.changes = [r \in Reads |-> NoRead] /\ Blank.spentDay = 0 /\ Blank.spent = 0
  BY DEF Blank
<1>4. MotnTypeOK
  <2>1. 0 \in 0..MaxFaults
    BY MotnAssumption
  <2> QED BY <1>1, <1>2, <2>1, Zenon DEF MotnInit, MotnTypeOK
<1>5. RecordedFirst
  BY <1>3 DEF MotnInit, RecordedFirst
<1>6. OpenReads(held) /\ OpenReads(disk)
  BY <1>3, NoReadType DEF MotnInit, OpenReads
<1>7. UnderWay
  BY ReadsAreJobs DEF MotnInit, UnderWay, NoJob, Reads
<1> QED BY <1>4, <1>5, <1>6, <1>7 DEF PassInv

-----------------------------------------------------------------------------
(* The steps.                                                              *)

LEMMA NothingAsked ==
    ASSUME job' = NoJob, sent' = FALSE, now' = Never => plan' = {}
    PROVE  UnderWay'
BY DEF UnderWay, NoJob, Reads

(* j's turn comes within a pass. *)
LEMMA TurnWithin ==
    ASSUME PassInv, NEW j, UpNext(j)
    PROVE  /\ j \in Jobs /\ now \in Date /\ now # Never /\ now \in Time
           /\ plan' \subseteq Jobs /\ job = NoJob /\ ~sent /\ Needed(j)
BY DEF PassInv, MotnTypeOK, UnderWay, UpNext, Time

LEMMA FaultType == ASSUME MotnTypeOK, Fault \/ UNCHANGED faults PROVE faults' \in 0..MaxFaults
BY MotnAssumption DEF MotnTypeOK, Fault

LEMMA StartSteps == ASSUME PassInv, StartPass PROVE PassInv'
<1>1. /\ held' = held /\ (disk' = disk \/ disk' = held) /\ clock' = clock /\ wire' = wire
      /\ skipped' = skipped /\ (Fault \/ UNCHANGED faults)
  BY DEF StartPass, EndSave, Saves, SaveFails
<1>2. /\ now' \in Time /\ wants' \in Wants \cup {{}} /\ plan' \subseteq Jobs
      /\ sent' = sent /\ job' = job /\ left' = left /\ got' = got
      /\ now' = Never => plan' = {}
      /\ job' # NoJob => now' # Never
  BY DEF StartPass, PassInv, MotnTypeOK, UnderWay, Time, Never, Date, work
<1>3. CountsKept /\ MotnTypeOK /\ RecordedFirst
  BY <1>1 DEF PassInv, CountsKept, SameCount
<1>4. MotnTypeOK'
  BY <1>1, <1>2, <1>3, FaultType DEF MotnTypeOK
<1>5. OpenReads(held)' /\ OpenReads(disk)'
  BY <1>1 DEF PassInv, OpenReads
<1>6. UnderWay'
  BY <1>1, <1>2 DEF PassInv, UnderWay
<1> QED BY <1>3, <1>4, <1>5, <1>6, Counted DEF PassInv

LEMMA EndSteps == ASSUME PassInv, EndPass PROVE PassInv'
<1>1. /\ held' = held /\ (disk' = disk \/ disk' = held) /\ clock' = clock /\ wire' = wire
      /\ skipped' = skipped /\ (Fault \/ UNCHANGED faults)
  BY DEF EndPass, EndSave, Saves, SaveFails
<1>2. CountsKept /\ MotnTypeOK /\ RecordedFirst
  BY <1>1 DEF PassInv, CountsKept, SameCount
<1>3. MotnTypeOK'
  BY <1>1, <1>2, FaultType DEF MotnTypeOK, EndPass, NoPass, Time
<1>4. OpenReads(held)' /\ OpenReads(disk)'
  BY <1>1 DEF PassInv, OpenReads
<1>5. UnderWay'
  BY NothingAsked DEF EndPass, NoPass
<1> QED BY <1>2, <1>3, <1>4, <1>5, Counted DEF PassInv

LEMMA AskOneSteps == ASSUME PassInv, NEW j, AskOne(j) PROVE PassInv'
<1>1. /\ j \in Jobs /\ now # Never /\ ~sent /\ plan' \subseteq Jobs
      /\ j \notin Reads /\ j # NoJob
  BY TurnWithin, ReadsAreJobs DEF AskOne
<1>2. CountsKept /\ MotnTypeOK /\ RecordedFirst
  BY DEF PassInv, CountsKept, SameCount, AskOne
<1>3. MotnTypeOK'
  BY <1>1, <1>2 DEF AskOne, MotnTypeOK
<1>4. OpenReads(held)' /\ OpenReads(disk)'
  BY DEF PassInv, OpenReads, AskOne
<1>5. UnderWay'
  BY <1>1 DEF UnderWay, AskOne
<1> QED BY <1>2, <1>3, <1>4, <1>5, Counted DEF PassInv

LEMMA BeginReadSteps == ASSUME PassInv, NEW j, BeginRead(j) PROVE PassInv'
<1> DEFINE read == Resumed(j)
           k == [held EXCEPT !.changes[j] = read]
<1>1. /\ j \in Jobs /\ j \in Reads /\ j # NoJob /\ now \in Date /\ now # Never
      /\ job = NoJob /\ ~sent /\ plan' \subseteq Jobs /\ Needed(j)
  BY TurnWithin, ReadsAreJobs DEF BeginRead
<1>2. MotnTypeOK /\ RecordedFirst /\ held \in Kept /\ OpenReads(held) /\ OpenReads(disk)
  BY DEF PassInv, MotnTypeOK
<1>3. read \in Progress /\ (read.state = "open" => read.pages < MaxPages)
  BY <1>1, <1>2, ResumedType
<1>4. k \in Kept /\ SameCount(k, held) /\ k.changes[j] = read /\ OpenReads(k)
  <2>1. k.changes = [held.changes EXCEPT ![j] = read] /\ held.changes \in [Reads -> Progress]
    BY <1>1, <1>2, <1>3, ReadKept, KeptFields
  <2> QED BY <1>1, <1>2, <1>3, <2>1, ReadKept, ReadKeptOpen
<1>5. Folded(k, j) \in Kept /\ SameCount(Folded(k, j), k) /\ OpenReads(Folded(k, j))
  BY <1>1, <1>4, FoldedType
<1>6. held' \in Kept /\ SameCount(held', held) /\ OpenReads(held')
      /\ disk' = disk /\ clock' = clock /\ wire' = wire
  <2>1. held' \in {held, k, Folded(k, j)} /\ disk' = disk /\ clock' = clock /\ wire' = wire
    BY DEF BeginRead, Unsaved
  <2> HIDE DEF k
  <2> QED BY <1>2, <1>4, <1>5, <2>1 DEF SameCount
<1>7. MotnTypeOK'
  <2>1. skipped' \subseteq Date
    BY <1>2 DEF BeginRead, Passed, MotnTypeOK
  <2>2. job' \in Jobs \cup {NoJob} /\ left' \in Nat
    BY <1>1, <1>2, MotnAssumption DEF BeginRead, MotnTypeOK
  <2>3. got' \subseteq {"leaving", "coming"}
    BY <1>2 DEF BeginRead, Whole, MotnTypeOK
  <2> QED BY <1>1, <1>2, <1>6, <2>1, <2>2, <2>3 DEF BeginRead, MotnTypeOK
<1>8. UnderWay'
  <2>1. sent' = FALSE /\ now' = now
    BY <1>1, <1>2 DEF BeginRead, MotnTypeOK
  <2>2. CASE job' = NoJob
    BY <1>1, <2>1, <2>2, NothingAsked
  <2>3. CASE read.state = "open" /\ held' = k /\ job' = j
             /\ left' = IF j[1] \in {"leaving", "coming"} THEN SoonPages ELSE AddedPages
    BY <1>1, <1>4, <2>1, <2>3, MotnAssumption DEF UnderWay
  <2> QED BY <1>1, <2>2, <2>3 DEF BeginRead, Unsaved
<1> QED BY <1>2, <1>6, <1>7, <1>8, Counted DEF PassInv, CountsKept

LEMMA NothingComingSteps == ASSUME PassInv, NEW j, NothingComing(j) PROVE PassInv'
<1>1. /\ plan' \subseteq Jobs /\ job = NoJob /\ ~sent /\ now # Never
  BY TurnWithin DEF NothingComing
<1>2. CountsKept /\ MotnTypeOK /\ RecordedFirst
  BY DEF PassInv, CountsKept, SameCount, NothingComing
<1>3. MotnTypeOK'
  BY <1>1, <1>2 DEF NothingComing, MotnTypeOK
<1>4. OpenReads(held)' /\ OpenReads(disk)'
  BY DEF PassInv, OpenReads, NothingComing
<1>5. UnderWay'
  BY <1>1, <1>2, NothingAsked DEF NothingComing, MotnTypeOK
<1> QED BY <1>2, <1>3, <1>4, <1>5, Counted DEF PassInv

LEMMA PublishSteps == ASSUME PassInv, NEW j, Publish(j) PROVE PassInv'
<1> DEFINE read == held.changes[<<"leaving", All>>]
           gone == {<<"leaving", All>>} \cup
                     (IF Wanted("soon") \cap Upcoming = {} THEN {} ELSE {<<"coming", All>>})
           rest == [r \in Reads |-> IF r \in gone THEN NoRead ELSE held.changes[r]]
<1>1. plan' \subseteq Jobs /\ job = NoJob /\ ~sent /\ now # Never /\ now \in Time
  BY TurnWithin DEF Publish
<1>2. MotnTypeOK /\ RecordedFirst /\ held \in Kept /\ OpenReads(held) /\ OpenReads(disk)
  BY DEF PassInv, MotnTypeOK
<1>3. held' = [held EXCEPT !.soonAt = now, !.soonMarkets = read.catalogs,
                           !.leavingFrom = read.from, !.changes = rest] /\ disk' = disk
  BY DEF Publish, Unsaved
<1>4. read \in Progress /\ rest \in [Reads -> Progress]
  BY <1>2, KeptFields, NoReadType DEF Reads
<1>5. read.from \in Int /\ read.catalogs \in SUBSET Service
  BY <1>4, ProgressFields
<1>6. \A r \in Reads : rest[r].state = "open" => rest[r].pages < MaxPages
  BY <1>2, NoReadType DEF OpenReads
<1>7. held' \in Kept /\ SameCount(held', held) /\ held'.changes = rest
  <2> HIDE DEF rest, read
  <2> QED BY <1>1, <1>2, <1>3, <1>4, <1>5 DEF Kept, SameCount
<1>8. OpenReads(held') /\ OpenReads(disk)'
  <2> HIDE DEF rest
  <2> QED BY <1>2, <1>3, <1>6, <1>7 DEF OpenReads
<1>9. CountsKept
  BY <1>3, <1>7 DEF CountsKept, Publish
<1>10. MotnTypeOK'
  <2> HIDE DEF rest, read
  <2> QED BY <1>1, <1>2, <1>3, <1>7 DEF Publish, MotnTypeOK
<1>11. UnderWay'
  <2>1. job' = NoJob /\ sent' = FALSE /\ now' = now
    BY <1>1, <1>2 DEF Publish, MotnTypeOK
  <2> QED BY <1>1, <2>1, NothingAsked
<1> QED BY <1>2, <1>8, <1>9, <1>10, <1>11, Counted DEF PassInv

(* What goes on while a request is to be made or on the wire. *)
LEMMA Asking ==
    ASSUME PassInv, job # NoJob \/ sent
    PROVE  /\ MotnTypeOK /\ RecordedFirst /\ held \in Kept /\ disk \in Kept
           /\ OpenReads(held) /\ OpenReads(disk)
           /\ job \in Jobs /\ job # NoJob /\ now # Never /\ now \in Time /\ left \in Nat /\ left > 0
           /\ job \in Reads => held.changes[job].state = "open"
BY DEF PassInv, MotnTypeOK, UnderWay

LEMMA ReserveSteps == ASSUME PassInv, Reserve PROVE PassInv'
<1>1. /\ MotnTypeOK /\ RecordedFirst /\ OpenReads(held)
      /\ job # NoJob /\ now # Never /\ left > 0
      /\ job \in Reads => held.changes[job].state = "open"
  BY Asking DEF Reserve
<1>2. /\ Spent \in Kept /\ Spent.spentDay = clock /\ Spent.spent = Today.spent + 1
      /\ Spent.changes = held.changes
      /\ Today.spent = IF held.spentDay = clock THEN held.spent ELSE 0
  BY <1>1, SpentType DEF Reserve
<1>3. held' = Spent /\ disk' = Spent /\ wire' = wire + 1 /\ clock' = clock
  BY DEF Reserve, Saves
<1>4. MotnTypeOK'
  <2>1. held' \in Kept /\ disk' \in Kept /\ wire' \in Nat /\ sent' \in BOOLEAN
    BY <1>1, <1>2, <1>3 DEF Reserve, MotnTypeOK
  <2> QED BY <1>1, <2>1 DEF Reserve, MotnTypeOK
<1>5. RecordedFirst'
  <2>1. wire <= Today.spent
    BY <1>1, <1>2, CountTypes DEF RecordedFirst
  <2>2. Today.spent \in Int
    BY <1>1, <1>2, CountTypes
  <2>3. /\ held'.spentDay = clock' /\ disk'.spentDay = clock' /\ disk'.spent = held'.spent
        /\ disk'.spent = Today.spent + 1
    BY <1>2, <1>3
  <2>4. clock' \in Int /\ wire' <= disk'.spent /\ disk'.spent \in Int
    BY <1>1, <1>3, <2>1, <2>2, <2>3, CountTypes
  <2> QED BY <2>3, <2>4 DEF RecordedFirst
<1>6. OpenReads(held') /\ OpenReads(disk')
  BY <1>1, <1>2, <1>3 DEF OpenReads
<1>7. UnderWay'
  BY <1>1, <1>2, <1>3 DEF Reserve, UnderWay
<1> QED BY <1>4, <1>5, <1>6, <1>7 DEF PassInv

LEMMA NotAskedSteps == ASSUME PassInv, NotAsked PROVE PassInv'
<1>1. /\ MotnTypeOK /\ RecordedFirst /\ held \in Kept /\ disk \in Kept
      /\ OpenReads(held) /\ OpenReads(disk) /\ now # Never
  BY Asking DEF NotAsked
<1>2. /\ Today \in Kept /\ Today.spentDay = clock /\ Today.changes = held.changes
      /\ Today.spent = IF held.spentDay = clock THEN held.spent ELSE 0
  BY <1>1, SpentType
<1>3. \/ held' = held /\ disk' = disk
      \/ held' = Today /\ disk' = disk
      \/ Today.spent < Daily /\ held' = Spent /\ disk' \in {disk, Spent}
  BY DEF NotAsked, Unsaved, SaveFails
<1>4. Today.spent < Daily => /\ Spent \in Kept /\ Spent.spentDay = clock
                             /\ Spent.spent = Today.spent + 1 /\ Spent.changes = held.changes
  BY <1>1, SpentType
<1>5. /\ held' \in Kept /\ disk' \in Kept
      /\ held'.changes = held.changes
      /\ disk'.changes \in {disk.changes, held.changes}
  BY <1>1, <1>2, <1>3, <1>4
<1>6. MotnTypeOK'
  <2>1. faults' \in 0..MaxFaults
    BY <1>1, FaultType DEF NotAsked
  <2> QED BY <1>1, <1>5, <2>1 DEF NotAsked, GivesUp, MotnTypeOK
<1>7. RecordedFirst'
  <2> DEFINE spent == Today.spent
  <2>1. spent \in Int /\ wire <= spent /\ clock' = clock /\ wire' = wire
        /\ (disk.spentDay = clock => disk.spent <= spent)
    BY <1>1, <1>2, CountTypes DEF RecordedFirst, NotAsked
  <2>2. CASE held' = held /\ disk' = disk
    BY <1>1, <2>1, <2>2 DEF RecordedFirst
  <2>3. CASE held' = Today /\ disk' = disk
    BY <1>1, <1>2, <2>1, <2>3, CountTypes DEF RecordedFirst
  <2>4. CASE Today.spent < Daily /\ held' = Spent /\ disk' = disk
    BY <1>1, <1>4, <2>1, <2>4, CountTypes DEF RecordedFirst
  <2>5. CASE Today.spent < Daily /\ held' = Spent /\ disk' = Spent
    BY <1>1, <1>4, <2>1, <2>5, CountTypes DEF RecordedFirst
  <2> QED BY <1>3, <2>2, <2>3, <2>4, <2>5
<1>8. OpenReads(held') /\ OpenReads(disk')
  BY <1>1, <1>5 DEF OpenReads
<1>9. UnderWay'
  BY <1>1, NothingAsked DEF NotAsked, GivesUp
<1> QED BY <1>6, <1>7, <1>8, <1>9 DEF PassInv

LEMMA FailSteps == ASSUME PassInv, Fails PROVE PassInv'
<1>1. MotnTypeOK /\ RecordedFirst /\ now # Never
  BY Asking DEF Fails
<1>2. CountsKept
  BY DEF CountsKept, SameCount, Fails
<1>3. MotnTypeOK'
  BY <1>1, FaultType DEF Fails, GivesUp, MotnTypeOK
<1>4. OpenReads(held)' /\ OpenReads(disk)'
  BY DEF PassInv, OpenReads, Fails
<1>5. UnderWay'
  BY <1>1, NothingAsked DEF Fails, GivesUp
<1> QED BY <1>1, <1>2, <1>3, <1>4, <1>5, Counted DEF PassInv

LEMMA AnswerSteps == ASSUME PassInv, OneAnswered PROVE PassInv'
<1>1. /\ MotnTypeOK /\ RecordedFirst /\ held \in Kept /\ now # Never /\ now \in Time
      /\ OpenReads(held) /\ OpenReads(disk)
  BY Asking DEF OneAnswered
<1>2. /\ held' = [held EXCEPT !.servicesAt = now] \/ held' = [held EXCEPT !.top[job[2]] = now]
      /\ disk' = disk
  BY DEF OneAnswered, Unsaved
<1>3. held' \in Kept /\ SameCount(held', held) /\ held'.changes = held.changes
  BY <1>1, <1>2 DEF Kept, SameCount
<1>4. CountsKept
  BY <1>2, <1>3 DEF CountsKept, OneAnswered
<1>5. MotnTypeOK'
  BY <1>1, <1>2, <1>3 DEF OneAnswered, GivesUp, MotnTypeOK
<1>6. OpenReads(held') /\ OpenReads(disk')
  BY <1>1, <1>2, <1>3 DEF OpenReads
<1>7. UnderWay'
  BY <1>1, NothingAsked DEF OneAnswered, GivesUp
<1> QED BY <1>1, <1>4, <1>5, <1>6, <1>7, Counted DEF PassInv

LEMMA PageSteps == ASSUME PassInv, PageArrives PROVE PassInv'
<1>1. /\ MotnTypeOK /\ RecordedFirst /\ held \in Kept /\ disk \in Kept
      /\ OpenReads(held) /\ OpenReads(disk) /\ now # Never /\ left \in Nat /\ left > 0
      /\ job \in Reads /\ job \in Jobs /\ held.changes[job].state = "open"
  BY Asking DEF PageArrives
<1> DEFINE old == held.changes[job]
<1>2. old \in Progress /\ old.state = "open" /\ old.pages < MaxPages
  BY <1>1, KeptFields DEF OpenReads
<1>3. PICK read \in Page(old) :
        LET k == [held EXCEPT !.changes[job] = read] IN
        \/ SaveFails(k) /\ Fault /\ GivesUp /\ UNCHANGED got
        \/ /\ held' = Folded(k, job) /\ disk' = k
           /\ got' = Whole(job) /\ GivesUp /\ UNCHANGED faults
        \/ Saves(k) /\ Fault /\ GivesUp /\ UNCHANGED got
        \/ /\ read.state = "open" /\ Saves(k)
           /\ left' = left - 1 /\ sent' = FALSE
           /\ job' = IF left > 1 THEN job ELSE NoJob
           /\ UNCHANGED <<got, faults>>
  BY DEF PageArrives
<1> DEFINE k == [held EXCEPT !.changes[job] = read]
<1>4. read \in Progress /\ (read.state = "open" => read.pages < MaxPages)
  <2>1. old.pages + 1 \in 0..MaxPages /\ old.pages \in Nat
    BY <1>2, ProgressFields, MotnAssumption
  <2> HIDE DEF old
  <2> QED BY <1>2, <1>3, <2>1, MotnAssumption DEF Page, Progress
<1>5. k \in Kept /\ SameCount(k, held) /\ k.changes[job] = read /\ OpenReads(k)
  <2>1. k.changes = [held.changes EXCEPT ![job] = read] /\ held.changes \in [Reads -> Progress]
    BY <1>1, <1>4, ReadKept, KeptFields
  <2> QED BY <1>1, <1>4, <2>1, ReadKept, ReadKeptOpen
<1>6. Folded(k, job) \in Kept /\ SameCount(Folded(k, job), k) /\ OpenReads(Folded(k, job))
  BY <1>1, <1>5, FoldedType
<1>7. held' \in {k, Folded(k, job)} /\ disk' \in {k, disk}
  BY <1>3 DEF Saves, SaveFails
<1>8. UNCHANGED <<clock, plan, now, wants, wire, skipped>>
  BY DEF PageArrives
<1>9. /\ held' \in Kept /\ disk' \in Kept /\ OpenReads(held') /\ OpenReads(disk') /\ CountsKept
  <2> HIDE DEF k
  <2> QED BY <1>1, <1>5, <1>6, <1>7, <1>8 DEF CountsKept, SameCount
<1>10. MotnTypeOK'
  <2>1. faults' \in 0..MaxFaults
    BY <1>1, <1>3, FaultType
  <2>2. got' \subseteq {"leaving", "coming"}
    BY <1>1, <1>3 DEF Whole, MotnTypeOK
  <2>3. job' \in Jobs \cup {NoJob} /\ left' \in Nat /\ sent' \in BOOLEAN
    <3>1. \/ GivesUp
          \/ left' = left - 1 /\ sent' = FALSE /\ job' \in {job, NoJob}
      BY <1>3
    <3>2. left - 1 \in Nat
      BY <1>1
    <3>3. CASE GivesUp
      BY <3>3, Zenon DEF GivesUp, NoJob
    <3>4. CASE left' = left - 1 /\ sent' = FALSE /\ job' \in {job, NoJob}
      BY <1>1, <3>2, <3>4, Zenon
    <3> QED BY <3>1, <3>3, <3>4
  <2> QED BY <1>1, <1>8, <1>9, <2>1, <2>2, <2>3 DEF MotnTypeOK
<1>11. UnderWay'
  <2>1. CASE job' = NoJob /\ sent' = FALSE
    BY <1>1, <1>8, <2>1, NothingAsked
  <2>2. CASE read.state = "open" /\ held' = k /\ left > 1 /\ left' = left - 1 /\ job' = job /\ sent' = FALSE
    BY <1>1, <1>5, <1>8, <2>2 DEF UnderWay
  <2> QED BY <1>3, <2>1, <2>2 DEF GivesUp, Saves
<1> QED BY <1>1, <1>9, <1>10, <1>11, Counted DEF PassInv

LEMMA DaySteps == ASSUME PassInv, DayEnds PROVE PassInv'
<1>1. MotnTypeOK /\ RecordedFirst /\ UnderWay
  BY DEF PassInv
<1>2. /\ clock' = clock + 1 /\ clock' \in Date /\ wire' = 0 /\ held' = held /\ disk' = disk
  BY <1>1, MotnAssumption DEF DayEnds, MotnTypeOK, Date
<1>3. MotnTypeOK'
  BY <1>1, <1>2 DEF DayEnds, MotnTypeOK, work
<1>4. RecordedFirst'
  BY <1>1, <1>2, CountTypes DEF RecordedFirst
<1>5. OpenReads(held)' /\ OpenReads(disk)' /\ UnderWay'
  BY <1>1 DEF PassInv, OpenReads, UnderWay, DayEnds, work
<1> QED BY <1>3, <1>4, <1>5 DEF PassInv

LEMMA RestartSteps == ASSUME PassInv, StartOver PROVE PassInv'
<1>1. MotnTypeOK /\ RecordedFirst /\ OpenReads(disk)
  BY DEF PassInv
<1>2. held' = disk /\ disk' = disk /\ clock' = clock /\ wire' = wire
  BY DEF StartOver
<1>3. MotnTypeOK'
  BY <1>1, <1>2, FaultType DEF StartOver, NoPass, MotnTypeOK, Time
<1>4. RecordedFirst'
  BY <1>1, <1>2, CountTypes DEF RecordedFirst
<1>5. OpenReads(held') /\ OpenReads(disk)'
  BY <1>1, <1>2 DEF OpenReads
<1>6. UnderWay'
  BY NothingAsked DEF StartOver, NoPass
<1> QED BY <1>3, <1>4, <1>5, <1>6 DEF PassInv

LEMMA Steps == PassInv /\ [MotnNext]_motnVars => PassInv'
<1> SUFFICES ASSUME PassInv, [MotnNext]_motnVars PROVE PassInv'
  OBVIOUS
<1>1. ASSUME NEW j, AskOne(j) \/ BeginRead(j) \/ NothingComing(j) \/ Publish(j)
      PROVE  PassInv'
  BY <1>1, AskOneSteps, BeginReadSteps, NothingComingSteps, PublishSteps
<1>2. CASE UNCHANGED motnVars
  BY <1>2 DEF motnVars, PassInv, MotnTypeOK, RecordedFirst, OpenReads, UnderWay
<1>3. CASE StartPass \/ EndPass \/ DayEnds \/ StartOver
  BY <1>3, StartSteps, EndSteps, DaySteps, RestartSteps
<1>4. CASE Reserve \/ NotAsked \/ Fails \/ OneAnswered \/ PageArrives
  BY <1>4, ReserveSteps, NotAskedSteps, FailSteps, AnswerSteps, PageSteps
<1> QED BY <1>1, <1>2, <1>3, <1>4 DEF MotnNext

-----------------------------------------------------------------------------
(* The lists: what a snapshot k has read, but for the days in gap.         *)

ListInv(k, gap) == Cursors(k, gap) /\ Unbroken(k, gap)

Country == <<"country", All>>
Market(s) == <<"market", s>>
Listed    == {Country} \cup {Market(s) : s \in Service}

(* The read at j of k and of l begins and ends alike. *)
SameBounds(k, l, j) ==
    LET read == k.changes[j]
        was  == l.changes[j]
    IN  /\ read.from = was.from /\ read.to = was.to /\ read.catalogs = was.catalogs
        /\ read.state # "none" => was.state # "none"

(* k has read what l has, and is at the same reads or fewer. *)
SameLists(k, l) ==
    /\ k.until = l.until /\ k.covered = l.covered /\ k.added = l.added
    /\ \A j \in Listed : k.changes[j].state = "none" \/ SameBounds(k, l, j)

LEMMA ReadNames == /\ Country \in Reads /\ Country \in Listed
                   /\ \A s \in Service :
                        Market(s) \in Reads /\ Market(s) \in Listed /\ Market(s) # Country
                   /\ \A s, t \in Service : s # t => Market(s) # Market(t)
                   /\ <<"leaving", All>> \notin Listed /\ <<"coming", All>> \notin Listed
                   /\ \A j \in Reads : j \in Listed => j[1] \in {"market", "country"}
                   /\ Listed \subseteq Reads
BY DEF Country, Market, Reads, Listed

LEMMA ListsKept ==
    ASSUME NEW k, NEW l, NEW gap, NEW more, gap \subseteq more,
           ListInv(l, gap), SameLists(k, l)
    PROVE  ListInv(k, more)
<1>1. \A s \in Service : k.changes[Market(s)].state = "none" \/ SameBounds(k, l, Market(s))
  BY ReadNames DEF SameLists
<1>2. k.changes[Country].state = "none" \/ SameBounds(k, l, Country)
  BY ReadNames DEF SameLists
<1>3. k.until = l.until /\ k.covered = l.covered /\ k.added = l.added
  BY DEF SameLists
<1>4. Cursors(k, more)
  <2>1. ASSUME NEW s \in Service
        PROVE  /\ k.covered[s] <= k.until
               /\ \A d \in k.added[s] : d <= k.covered[s]
    BY <1>3 DEF ListInv, Cursors
  <2>2. ASSUME NEW s \in Service, k.changes[<<"market", s>>].state # "none"
        PROVE  LET read == k.changes[<<"market", s>>] IN
               /\ read.catalogs = {s}
               /\ k.covered[s] < k.until /\ k.covered[s] <= read.to /\ read.to <= k.until
               /\ k.covered[s] # Never => read.from = k.covered[s]
    BY <1>1, <1>3, <2>2 DEF ListInv, Cursors, SameBounds, Market
  <2>3. ASSUME k.changes[<<"country", All>>].state # "none"
        PROVE  LET read == k.changes[<<"country", All>>] IN
               /\ k.until <= read.to
               /\ \A s \in read.catalogs : k.covered[s] = k.until
               /\ k.until # Never => \A d \in Date : k.until < d /\ d <= read.from => d \in more
    BY <1>2, <1>3, <2>3 DEF ListInv, Cursors, SameBounds, Country
  <2> QED BY <2>1, <2>2, <2>3 DEF Cursors
<1>5. Unbroken(k, more)
  BY <1>3 DEF ListInv, Unbroken
<1> QED BY <1>4, <1>5 DEF ListInv

(* Nothing but what a read says of itself changes. *)
LEMMA UntouchedLists ==
    ASSUME NEW k, NEW l, NEW gap, ListInv(l, gap),
           k.until = l.until, k.covered = l.covered, k.added = l.added, k.changes = l.changes
    PROVE  ListInv(k, gap)
<1>1. SameLists(k, l)
  BY DEF SameLists, SameBounds
<1> QED BY <1>1, ListsKept

(* The days a service has once a read, of it or not, is folded in. *)
DaysWith(old, read, s) ==
    {d \in old \cup (IF s \in read.catalogs THEN Days(read) ELSE {}) : now - d < KeepAdded}

LEMMA AddingLists ==
    ASSUME NEW k \in Kept, NEW markets \in SUBSET Service, NEW read \in Progress,
           NEW l, l = Adding(k, markets, read), NEW s \in Service
    PROVE  /\ l.until = k.until /\ l.changes = k.changes
           /\ l.covered[s] = IF s \in markets THEN read.to ELSE k.covered[s]
           /\ l.added[s] = DaysWith(k.added[s], read, s)
BY DEF Adding, Kept, DaysWith

(* The days a service has once a whole read of it is folded in. *)
FoldedDays(old, read) == {d \in old \cup Days(read) : now - d < KeepAdded}

LEMMA FoldUnbroken ==
    ASSUME NEW old \in SUBSET Date, NEW covered \in Time, NEW read \in Progress, NEW gap,
           now \in Date,
           \A d \in old : d <= covered,
           \A d \in old, e \in Date : d < e /\ e <= covered => e \in old \cup gap,
           \A e \in Date : covered # Never /\ covered < e /\ e <= read.from => e \in gap,
           covered <= read.to
    PROVE  /\ \A d \in FoldedDays(old, read) : d <= read.to
           /\ \A d \in FoldedDays(old, read), e \in Date :
                d < e /\ e <= read.to => e \in FoldedDays(old, read) \cup gap
<1> DEFINE new == {d \in old \cup Days(read) : now - d < KeepAdded}
<1>1. /\ \A d \in Date : d \in Int /\ 0 <= d
      /\ covered \in Int /\ read.to \in Int /\ read.from \in Int /\ now \in Int /\ KeepAdded \in Int
  BY ProgressFields, MotnAssumption DEF Date, Time, Never
<1>2. Days(read) = {d \in Date : read.from < d /\ d <= read.to}
  BY DEF Days
<1>3. ASSUME NEW d \in new PROVE d <= read.to /\ d \in Date
  BY <1>1, <1>2
<1>4. ASSUME NEW d \in new, NEW e \in Date, d < e, e <= read.to, e \notin gap
      PROVE  e \in old \cup Days(read)
  <2>1. CASE d \in Days(read)
    BY <1>1, <1>2, <1>4, <2>1
  <2>2. CASE d \in old /\ e <= covered
    BY <1>4, <2>2
  <2>3. CASE d \in old /\ covered < e
    <3>1. covered # Never
      BY <1>1, <2>3 DEF Never
    <3>2. ~(e <= read.from)
      BY <1>4, <2>3, <3>1
    <3> QED BY <1>1, <1>2, <1>4, <3>2
  <2> QED BY <1>1, <2>1, <2>2, <2>3
<1>5. ASSUME NEW d \in new, NEW e \in Date, d < e
      PROVE  now - e < KeepAdded
  <2>1. d \in Int /\ e \in Int /\ now - d < KeepAdded
    BY <1>1, <1>3
  <2> QED BY <1>1, <1>5, <2>1
<1> QED BY <1>3, <1>4, <1>5 DEF FoldedDays

(* m is k with a whole read of the services in `markets` folded in. *)
FoldsIn(m, k, read, markets) ==
    \A s \in Service :
      /\ m.covered[s] = IF s \in markets THEN read.to ELSE k.covered[s]
      /\ m.added[s] = {d \in k.added[s] \cup (IF s \in markets THEN Days(read) ELSE {}) :
                         now - d < KeepAdded}

(* Those services were read as far as the read begins, or to a gap, and    *)
(* have no other under way.                                                *)
Follows(m, k, read, markets, gap) ==
    /\ \A s \in markets :
         /\ k.covered[s] <= read.to
         /\ k.covered[s] # Never =>
              \A d \in Date : k.covered[s] < d /\ d <= read.from => d \in gap
         /\ m.changes[Market(s)].state = "none"
    /\ m.changes[Country].state # "none" =>
         /\ m.until = k.until
         /\ markets \cap m.changes[Country].catalogs = {}

LEMMA FoldLists ==
    ASSUME NEW k \in Kept, NEW m \in Kept, NEW gap, now \in Date, ListInv(k, gap),
           NEW j \in Reads, NEW read \in Progress, k.changes[j] = read,
           m.changes = [k.changes EXCEPT ![j] = NoRead],
           NEW markets \in SUBSET Service, read.catalogs = markets,
           FoldsIn(m, k, read, markets), Follows(m, k, read, markets, gap),
           k.until <= m.until, read.to <= m.until
    PROVE  ListInv(m, gap)
<1> USE DEF FoldsIn, Follows
<1>1. /\ k.changes \in [Reads -> Progress] /\ k.covered \in [Service -> Time]
      /\ k.added \in [Service -> SUBSET Date] /\ k.until \in Time
      /\ m.covered \in [Service -> Time] /\ m.added \in [Service -> SUBSET Date] /\ m.until \in Time
  BY KeptFields
<1>2. Time \subseteq Int /\ Date \subseteq Int
  BY DEF Time, Date, Never
<1>3. NoRead.state = "none"
  BY NoReadType
<1>4. \A i \in Reads : m.changes[i].state # "none" => m.changes[i] = k.changes[i]
  BY <1>1, <1>3
<1>5. ASSUME NEW s \in Service
      PROVE  /\ k.covered[s] <= k.until /\ k.covered[s] \in Time
             /\ k.added[s] \in SUBSET Date /\ \A d \in k.added[s] : d <= k.covered[s]
             /\ \A d \in k.added[s], e \in Date :
                  d < e /\ e <= k.covered[s] => e \in k.added[s] \cup gap
  BY <1>1 DEF ListInv, Cursors, Unbroken
<1>6. ASSUME NEW s \in Service
      PROVE  /\ m.covered[s] <= m.until
             /\ \A d \in m.added[s] : d <= m.covered[s]
             /\ \A d \in m.added[s], e \in Date :
                  d < e /\ e <= m.covered[s] => e \in m.added[s] \cup gap
  <2>1. CASE s \in markets
    <3>1. m.covered[s] = read.to /\ m.added[s] = {d \in k.added[s] \cup Days(read) : now - d < KeepAdded}
      BY <2>1
    <3>2. \A d \in Date : k.covered[s] # Never /\ k.covered[s] < d /\ d <= read.from => d \in gap
      BY <2>1
    <3>3. k.covered[s] <= read.to
      BY <2>1
    <3> DEFINE old == k.added[s]
               covered == k.covered[s]
    <3>4. /\ old \in SUBSET Date /\ covered \in Time
          /\ \A d \in old : d <= covered
          /\ \A d \in old, e \in Date : d < e /\ e <= covered => e \in old \cup gap
          /\ \A e \in Date : covered # Never /\ covered < e /\ e <= read.from => e \in gap
          /\ covered <= read.to
      BY <1>5, <3>2, <3>3
    <3>5. m.added[s] = FoldedDays(old, read)
      BY <3>1 DEF FoldedDays
    <3> HIDE DEF old, covered
    <3>6. /\ \A d \in FoldedDays(old, read) : d <= read.to
          /\ \A d \in FoldedDays(old, read), e \in Date :
               d < e /\ e <= read.to => e \in FoldedDays(old, read) \cup gap
      BY <3>4, FoldUnbroken
    <3> QED BY <3>1, <3>5, <3>6
  <2>2. CASE s \notin markets
    <3>1. m.covered[s] = k.covered[s] /\ m.added[s] = {d \in k.added[s] : now - d < KeepAdded}
      BY <2>2
    <3>2. m.covered[s] <= m.until
      <4>1. /\ k.covered[s] \in Int /\ k.until \in Int /\ m.until \in Int
            /\ k.covered[s] <= k.until /\ k.until <= m.until
        BY <1>1, <1>2, <1>5
      <4> QED BY <3>1, <4>1
    <3>3. ASSUME NEW d \in m.added[s], NEW e \in Date, d < e
          PROVE  d \in k.added[s] /\ now - e < KeepAdded
      <4>1. d \in k.added[s] /\ d \in Int /\ e \in Int /\ now \in Int /\ now - d < KeepAdded
        BY <1>2, <1>5, <3>1
      <4> QED BY <3>3, <4>1, MotnAssumption
    <3> QED BY <1>5, <3>1, <3>2, <3>3
  <2> QED BY <2>1, <2>2
<1>7. ASSUME NEW s \in Service, m.changes[<<"market", s>>].state # "none"
      PROVE  LET r == m.changes[<<"market", s>>] IN
             /\ r.catalogs = {s}
             /\ m.covered[s] < m.until /\ m.covered[s] <= r.to /\ r.to <= m.until
             /\ m.covered[s] # Never => r.from = m.covered[s]
  <2> DEFINE r == m.changes[<<"market", s>>]
  <2>1. r = k.changes[<<"market", s>>] /\ r \in Progress
    BY <1>1, <1>4, <1>7, ReadNames DEF Market
  <2>2. s \notin markets /\ m.covered[s] = k.covered[s]
    BY <1>7 DEF Market
  <2>3. /\ r.catalogs = {s}
        /\ k.covered[s] < k.until /\ k.covered[s] <= r.to /\ r.to <= k.until
        /\ k.covered[s] # Never => r.from = k.covered[s]
    BY <1>7, <2>1 DEF ListInv, Cursors
  <2>4. r.to \in Int /\ k.covered[s] \in Int /\ k.until \in Int /\ m.until \in Int
    BY <1>1, <1>2, <2>1, ProgressFields
  <2> HIDE DEF r
  <2>5. k.covered[s] < m.until /\ r.to <= m.until
    BY <2>3, <2>4
  <2> QED BY <2>2, <2>3, <2>5 DEF r
<1>8. ASSUME m.changes[<<"country", All>>].state # "none"
      PROVE  LET r == m.changes[<<"country", All>>] IN
             /\ m.until <= r.to
             /\ \A s \in r.catalogs : m.covered[s] = m.until
             /\ m.until # Never => \A d \in Date : m.until < d /\ d <= r.from => d \in gap
  <2> DEFINE r == m.changes[<<"country", All>>]
  <2>1. r = k.changes[<<"country", All>>] /\ r \in Progress
    BY <1>1, <1>4, <1>8, ReadNames DEF Country
  <2>2. m.until = k.until /\ markets \cap r.catalogs = {}
    BY <1>8 DEF Country
  <2>3. /\ k.until <= r.to
        /\ \A s \in r.catalogs : k.covered[s] = k.until
        /\ k.until # Never => \A d \in Date : k.until < d /\ d <= r.from => d \in gap
    BY <1>8, <2>1 DEF ListInv, Cursors
  <2>4. r.catalogs \subseteq Service
    BY <2>1, ProgressFields
  <2> HIDE DEF r
  <2>5. \A s \in r.catalogs : m.covered[s] = k.covered[s]
    BY <2>2, <2>4
  <2> QED BY <2>2, <2>3, <2>5 DEF r
<1> QED BY <1>6, <1>7, <1>8 DEF ListInv, Cursors, Unbroken

LEMMA FoldedLists ==
    ASSUME NEW k \in Kept, NEW j \in Reads, NEW gap, now \in Date, ListInv(k, gap),
           k.changes[j].state # "none"
    PROVE  ListInv(Folded(k, j), gap)
<1> DEFINE read == k.changes[j]
<1>1. read \in Progress /\ read.to \in Time /\ read.catalogs \in SUBSET Service /\ NoRead \in Progress
  BY KeptFields, ProgressFields, NoReadType DEF Time
<1>2. k.changes \in [Reads -> Progress] /\ k.covered \in [Service -> Time] /\ k.until \in Time
  BY KeptFields
<1>3. CASE j[1] = "market"
  <2>1. PICK s0 \in Service : j = Market(s0)
    BY <1>3 DEF Reads, Market
  <2>2. /\ read.catalogs = {s0}
        /\ k.covered[s0] < k.until /\ k.covered[s0] <= read.to /\ read.to <= k.until
        /\ k.covered[s0] # Never => read.from = k.covered[s0]
    BY <2>1 DEF ListInv, Cursors, Market
  <2> DEFINE l == Adding(k, {s0}, read)
             m == [l EXCEPT !.changes[j] = NoRead]
  <2>3. Folded(k, j) = m
    BY <1>3, <2>1 DEF Folded, Market
  <2>4. l \in Kept /\ l.changes = k.changes
    BY <1>1, AddingType
  <2>5. m \in Kept /\ m.changes = [k.changes EXCEPT ![j] = NoRead]
        /\ m.until = l.until /\ m.covered = l.covered /\ m.added = l.added
    <3> HIDE DEF l
    <3> QED BY <1>1, <2>4 DEF Kept
  <2>6. ASSUME NEW s \in Service
        PROVE  /\ l.until = k.until
               /\ l.covered[s] = IF s \in {s0} THEN read.to ELSE k.covered[s]
               /\ l.added[s] = {d \in k.added[s] \cup (IF s \in {s0} THEN Days(read) ELSE {}) :
                                  now - d < KeepAdded}
    <3> DEFINE markets == {s0}
    <3>1. read \in Progress /\ markets \in SUBSET Service /\ l = Adding(k, markets, read)
      BY <1>1
    <3> HIDE DEF l, read, markets
    <3>2. /\ l.until = k.until
          /\ l.covered[s] = IF s \in markets THEN read.to ELSE k.covered[s]
          /\ l.added[s] = DaysWith(k.added[s], read, s)
      BY <3>1, AddingLists
    <3> QED BY <2>2, <3>2 DEF markets, DaysWith
  <2>7. m.changes[j] = NoRead /\ NoRead.state = "none" /\ m.changes[Market(s0)].state = "none"
    BY <1>2, <2>1, <2>5, NoReadType
  <2>8. m.changes[Country].state # "none" => {s0} \cap m.changes[Country].catalogs = {}
    <3>1. m.changes[Country] = k.changes[Country]
      <4> HIDE DEF m
      <4> QED BY <1>2, <2>1, <2>5, ReadNames
    <3>2. k.covered[s0] # k.until
      BY <1>2, <2>2 DEF Time, Date, Never
    <3> HIDE DEF m
    <3> QED BY <3>1, <3>2 DEF ListInv, Cursors, Country
  <2>9. k.covered[s0] # Never => \A d \in Date : k.covered[s0] < d /\ d <= read.from => d \in gap
    <3>1. k.covered[s0] \in Int /\ Date \subseteq Int
      BY <1>2 DEF Time, Date, Never
    <3> QED BY <2>2, <3>1
  <2>10. m.until = k.until /\ k.until <= m.until /\ read.to <= m.until
    <3>1. m.until = k.until
      BY <2>5, <2>6
    <3> QED BY <1>2, <2>2, <3>1 DEF Time, Date, Never
  <2>11. /\ m \in Kept /\ read \in Progress /\ k.changes[j] = read
         /\ m.changes = [k.changes EXCEPT ![j] = NoRead]
         /\ {s0} \in SUBSET Service /\ read.catalogs = {s0}
    BY <1>1, <2>2, <2>5
  <2>12. FoldsIn(m, k, read, {s0})
    <3> HIDE DEF m, l, read
    <3> QED BY <2>5, <2>6 DEF FoldsIn
  <2>13. Follows(m, k, read, {s0}, gap)
    <3> HIDE DEF m, l, read
    <3> QED BY <2>2, <2>7, <2>8, <2>9, <2>10 DEF Follows
  <2> HIDE DEF m, l, read
  <2>14. ListInv(m, gap)
    BY <2>10, <2>11, <2>12, <2>13, FoldLists
  <2> QED BY <2>3, <2>14
<1>4. CASE j[1] = "country"
  <2>1. j = Country
    BY <1>4 DEF Reads, Country
  <2>2. /\ k.until <= read.to
        /\ \A s \in read.catalogs : k.covered[s] = k.until
        /\ k.until # Never => \A d \in Date : k.until < d /\ d <= read.from => d \in gap
    BY <2>1 DEF ListInv, Cursors, Country
  <2> DEFINE l == Adding(k, read.catalogs, read)
             m == [l EXCEPT !.until = read.to, !.changes[j] = NoRead]
  <2>3. Folded(k, j) = m
    BY <1>4 DEF Folded
  <2>4. l \in Kept /\ l.changes = k.changes
    BY <1>1, AddingType
  <2>5. m \in Kept /\ m.changes = [k.changes EXCEPT ![j] = NoRead]
        /\ m.until = read.to /\ m.covered = l.covered /\ m.added = l.added
    <3> HIDE DEF l, read
    <3> QED BY <1>1, <2>4 DEF Kept
  <2>6. ASSUME NEW s \in Service
        PROVE  /\ l.covered[s] = IF s \in read.catalogs THEN read.to ELSE k.covered[s]
               /\ l.added[s] = {d \in k.added[s] \cup (IF s \in read.catalogs THEN Days(read) ELSE {}) :
                                  now - d < KeepAdded}
    <3>1. read \in Progress /\ read.catalogs \in SUBSET Service
      BY <1>1
    <3>2. l = Adding(k, read.catalogs, read)
      OBVIOUS
    <3> HIDE DEF l, read
    <3>3. /\ l.covered[s] = IF s \in read.catalogs THEN read.to ELSE k.covered[s]
          /\ l.added[s] = DaysWith(k.added[s], read, s)
      BY <3>1, <3>2, AddingLists
    <3> QED BY <3>3 DEF DaysWith
  <2>7. m.changes[Country].state = "none"
    BY <1>2, <2>1, <2>5, NoReadType
  <2>8. ASSUME NEW s \in read.catalogs
        PROVE  /\ k.covered[s] <= read.to
               /\ k.covered[s] # Never => \A d \in Date : k.covered[s] < d /\ d <= read.from => d \in gap
               /\ m.changes[Market(s)].state = "none"
    <3>1. s \in Service /\ k.covered[s] = k.until
      BY <1>1, <2>2
    <3>2. m.changes[Market(s)] = k.changes[Market(s)]
      <4> HIDE DEF m
      <4> QED BY <1>2, <2>1, <2>5, <3>1, ReadNames
    <3>3. ~(k.covered[s] < k.until)
      BY <1>2, <3>1 DEF Time, Date, Never
    <3>4. k.changes[Market(s)].state = "none"
      BY <3>1, <3>3 DEF ListInv, Cursors, Market
    <3> HIDE DEF m
    <3> QED BY <2>2, <3>1, <3>2, <3>4
  <2>9. k.until <= m.until /\ read.to <= m.until
    BY <1>1, <2>2, <2>5 DEF Time, Date, Never
  <2>10. /\ m \in Kept /\ read \in Progress /\ k.changes[j] = read
         /\ m.changes = [k.changes EXCEPT ![j] = NoRead]
         /\ read.catalogs \in SUBSET Service
    BY <1>1, <2>5
  <2>11. FoldsIn(m, k, read, read.catalogs)
    <3> HIDE DEF m, l, read
    <3> QED BY <2>5, <2>6 DEF FoldsIn
  <2>12. Follows(m, k, read, read.catalogs, gap)
    <3> HIDE DEF m, l, read
    <3> QED BY <2>7, <2>8 DEF Follows
  <2> HIDE DEF m, l, read
  <2>13. ListInv(m, gap)
    BY <2>9, <2>10, <2>11, <2>12, FoldLists
  <2> QED BY <2>3, <2>13
<1>5. CASE j[1] \notin {"market", "country"}
  BY <1>5 DEF Folded
<1> QED BY <1>3, <1>4, <1>5

(* A read that is begun begins where its services end, or at a gap. *)
LEMMA BegunLists ==
    ASSUME PassInv, ListInv(held, skipped), NEW j \in Reads, now \in Date, Needed(j),
           NEW gap, skipped \subseteq gap, j[1] = "country" => Passed \subseteq gap,
           NEW k \in Kept, k = [held EXCEPT !.changes[j] = Asked(j)]
    PROVE  ListInv(k, gap)
<1> DEFINE read == Asked(j)
<1>1. MotnTypeOK /\ now # Never /\ held \in Kept
  BY DEF PassInv, MotnTypeOK, Never, Date
<1>2. /\ held.changes \in [Reads -> Progress] /\ held.until \in Time /\ held.covered \in [Service -> Time]
      /\ read \in Progress
  BY <1>1, KeptFields, AskedType
<1>3. /\ k.changes = [held.changes EXCEPT ![j] = read]
      /\ k.until = held.until /\ k.covered = held.covered /\ k.added = held.added
  BY <1>1 DEF Kept
<1>4. k.changes[j] = read /\ \A i \in Reads : i # j => k.changes[i] = held.changes[i]
  BY <1>2, <1>3
<1>5. \A s \in Service : held.covered[s] <= held.until /\ \A d \in held.added[s] : d <= held.covered[s]
  BY DEF ListInv, Cursors
<1>6. Unbroken(k, gap)
  BY <1>3 DEF ListInv, Unbroken
<1> HIDE DEF read
<1>7. ASSUME NEW s \in Service, k.changes[<<"market", s>>].state # "none"
      PROVE  LET r == k.changes[<<"market", s>>] IN
             /\ r.catalogs = {s}
             /\ k.covered[s] < k.until /\ k.covered[s] <= r.to /\ r.to <= k.until
             /\ k.covered[s] # Never => r.from = k.covered[s]
  <2>1. CASE j = <<"market", s>>
    <3>1. ~UpToDate(s)
      BY <2>1 DEF Needed
    <3>2. held.covered[s] < held.until /\ held.until <= held.until
      <4>1. held.covered[s] \in Int /\ held.until \in Int
        BY <1>2 DEF Time, Date, Never
      <4> QED BY <3>1, <4>1 DEF UpToDate
    <3>3. /\ read.catalogs = {s} /\ read.to = held.until
          /\ held.covered[s] # Never => read.from = held.covered[s]
      BY <2>1 DEF Asked, New, read
    <3>4. held.covered[s] <= held.until
      BY <1>5
    <3>5. k.changes[<<"market", s>>] = read
      BY <1>4, <2>1
    <3>6. k.covered[s] = held.covered[s] /\ k.until = held.until
      BY <1>3
    <3> QED BY <3>2, <3>3, <3>4, <3>5, <3>6
  <2>2. CASE j # <<"market", s>>
    <3>1. k.changes[<<"market", s>>] = held.changes[<<"market", s>>]
      BY <1>4, <2>2, ReadNames DEF Market
    <3> QED BY <1>3, <1>7, <3>1 DEF ListInv, Cursors
  <2> QED BY <2>1, <2>2
<1>8. ASSUME k.changes[<<"country", All>>].state # "none"
      PROVE  LET r == k.changes[<<"country", All>>] IN
             /\ k.until <= r.to
             /\ \A s \in r.catalogs : k.covered[s] = k.until
             /\ k.until # Never => \A d \in Date : k.until < d /\ d <= r.from => d \in gap
  <2>1. CASE j = <<"country", All>>
    <3>1. read.from = Since /\ read.to = now /\ read.catalogs = {s \in Wanted("added") : UpToDate(s)}
      BY <2>1 DEF Asked, New, read
    <3>2. held.until \in Int /\ now \in Int /\ now - LookBack \in Int /\ RefreshAfter \in Nat
      BY <1>2, MotnAssumption DEF Time, Date, Never
    <3>3. now - Since >= RefreshAfter
      BY <2>1 DEF Needed
    <3>4. Since \in Int /\ held.until <= now
      <4>1. CASE held.until = Never
        BY <3>2, <4>1 DEF Since, Never, Date
      <4>2. CASE held.until # Never
        BY <3>2, <3>3, <4>2 DEF Since, LatestOf
      <4> QED BY <4>1, <4>2
    <3>5. ASSUME NEW s \in read.catalogs PROVE held.covered[s] = held.until
      <4>1. s \in Service /\ UpToDate(s)
        BY <3>1, <3>5 DEF Wanted, Offered
      <4>2. held.covered[s] <= held.until /\ held.covered[s] \in Time
        BY <1>2, <1>5, <4>1
      <4> QED BY <1>2, <4>1, <4>2 DEF UpToDate, Time, Date, Never
    <3>6. ASSUME held.until # Never, NEW d \in Date, held.until < d, d <= read.from
          PROVE  d \in gap
      <4>1. d \in Passed
        BY <3>1, <3>6 DEF Passed
      <4> QED BY <2>1, <4>1
    <3> QED BY <1>3, <1>4, <2>1, <3>1, <3>4, <3>5, <3>6
  <2>2. CASE j # <<"country", All>>
    <3>1. k.changes[<<"country", All>>] = held.changes[<<"country", All>>]
      BY <1>4, <2>2, ReadNames DEF Country
    <3> QED BY <1>3, <1>8, <3>1 DEF ListInv, Cursors
  <2> QED BY <2>1, <2>2
<1>9. Cursors(k, gap)
  BY <1>3, <1>5, <1>7, <1>8 DEF Cursors
<1> QED BY <1>6, <1>9 DEF ListInv

LEMMA BeginListSteps ==
    ASSUME PassInv, ListInv(held, skipped), NEW j, BeginRead(j)
    PROVE  ListInv(held', skipped') /\ skipped \subseteq skipped'
<1> DEFINE read == Resumed(j)
           k == [held EXCEPT !.changes[j] = read]
<1>1. j \in Reads /\ now \in Date /\ now # Never /\ Needed(j)
  BY TurnWithin DEF BeginRead
<1>2. MotnTypeOK /\ held \in Kept /\ OpenReads(held)
  BY DEF PassInv, MotnTypeOK
<1>3. read \in Progress /\ read.state \in {"open", "complete", "quarantined"}
  BY <1>1, <1>2, ResumedType
<1>4. k \in Kept /\ k.changes = [held.changes EXCEPT ![j] = read] /\ held.changes \in [Reads -> Progress]
  BY <1>1, <1>2, <1>3, ReadKept, KeptFields
<1>5. skipped' = IF j[1] = "country" /\ read # held.changes[j] THEN skipped \cup Passed ELSE skipped
  BY DEF BeginRead
<1>6. ListInv(k, skipped')
  <2>1. CASE read = held.changes[j]
    <3>1. k.changes = held.changes
      BY <1>1, <1>4, <2>1
    <3>2. k.until = held.until /\ k.covered = held.covered /\ k.added = held.added
      BY <1>2 DEF Kept
    <3>3. skipped' = skipped
      BY <1>5, <2>1
    <3> HIDE DEF k
    <3> QED BY <3>1, <3>2, <3>3, UntouchedLists
  <2>2. CASE read # held.changes[j]
    <3>1. read = Asked(j)
      BY <2>2 DEF Resumed
    <3>2. k = [held EXCEPT !.changes[j] = Asked(j)]
      BY <3>1
    <3>3. skipped \subseteq skipped' /\ (j[1] = "country" => Passed \subseteq skipped')
      BY <1>5, <2>2
    <3> HIDE DEF k, read
    <3> QED BY <1>1, <1>4, <3>2, <3>3, BegunLists
  <2> QED BY <2>1, <2>2
<1>7. ListInv(Folded(k, j), skipped')
  <2>1. k.changes[j].state # "none"
    BY <1>1, <1>3, <1>4
  <2> HIDE DEF k
  <2> QED BY <1>1, <1>4, <1>6, <2>1, FoldedLists
<1>8. \/ held' = Folded(k, j)
      \/ held' = k
      \/ held' = held /\ read.state = "quarantined"
  BY DEF BeginRead, Unsaved
<1>9. skipped \subseteq skipped'
  BY <1>5
<1>10. ListInv(held, skipped')
  <2>1. SameLists(held, held)
    BY DEF SameLists, SameBounds
  <2> QED BY <1>9, <2>1, ListsKept
<1> QED BY <1>6, <1>7, <1>8, <1>9, <1>10

LEMMA PageListSteps ==
    ASSUME PassInv, ListInv(held, skipped), ListInv(disk, skipped), PageArrives
    PROVE  ListInv(held', skipped') /\ ListInv(disk', skipped')
<1>1. /\ MotnTypeOK /\ held \in Kept /\ OpenReads(held) /\ now # Never /\ now \in Time
      /\ job \in Reads /\ held.changes[job].state = "open"
  BY Asking DEF PageArrives
<1> DEFINE old == held.changes[job]
<1>2. PICK read \in Page(old) :
        LET k == [held EXCEPT !.changes[job] = read] IN
        held' \in {k, Folded(k, job)} /\ disk' \in {k, disk}
  BY DEF PageArrives, Saves, SaveFails
<1> DEFINE k == [held EXCEPT !.changes[job] = read]
<1>3. /\ read.from = old.from /\ read.to = old.to /\ read.catalogs = old.catalogs
      /\ read \in Progress /\ read.state # "none"
  <2>1. old \in Progress /\ old.pages < MaxPages
    BY <1>1, KeptFields DEF OpenReads
  <2>2. old.pages + 1 \in 0..MaxPages /\ old.pages \in Nat
    BY <2>1, ProgressFields, MotnAssumption
  <2> HIDE DEF old
  <2> QED BY <1>2, <2>1, <2>2, MotnAssumption DEF Page, Progress
<1>4. /\ k \in Kept /\ k.changes = [held.changes EXCEPT ![job] = read]
      /\ held.changes \in [Reads -> Progress]
      /\ k.until = held.until /\ k.covered = held.covered /\ k.added = held.added
  <2>1. k.until = held.until /\ k.covered = held.covered /\ k.added = held.added
    BY <1>1 DEF Kept
  <2> QED BY <1>1, <1>3, <2>1, ReadKept, KeptFields
<1>5. SameLists(k, held)
  <2>1. ASSUME NEW i \in Listed PROVE SameBounds(k, held, i)
    <3>1. i \in Reads
      BY ReadNames
    <3>2. CASE i = job
      <4> HIDE DEF k
      <4> QED BY <1>1, <1>3, <1>4, <3>2 DEF SameBounds
    <3>3. CASE i # job
      <4> HIDE DEF k
      <4> QED BY <1>4, <3>1, <3>3 DEF SameBounds
    <3> QED BY <3>2, <3>3
  <2> HIDE DEF k
  <2> QED BY <1>4, <2>1 DEF SameLists
<1>6. skipped' = skipped
  BY DEF PageArrives
<1>7. ListInv(k, skipped)
  <2> HIDE DEF k
  <2> QED BY <1>5, ListsKept
<1>8. ListInv(Folded(k, job), skipped)
  <2>1. k.changes[job].state # "none" /\ now \in Date
    BY <1>1, <1>3, <1>4 DEF Time
  <2> HIDE DEF k
  <2> QED BY <1>1, <1>4, <1>7, <2>1, FoldedLists
<1> HIDE DEF k
<1> QED BY <1>2, <1>6, <1>7, <1>8 DEF k

LEMMA OtherListSteps ==
    ASSUME PassInv, ListInv(held, skipped), ListInv(disk, skipped), [MotnNext]_motnVars,
           ~PageArrives, \A j : ~BeginRead(j)
    PROVE  ListInv(held', skipped') /\ ListInv(disk', skipped')
<1>1. MotnTypeOK /\ RecordedFirst /\ held \in Kept
  BY DEF PassInv, MotnTypeOK
<1>2. Today.until = held.until /\ Today.covered = held.covered /\ Today.added = held.added
      /\ Today.changes = held.changes
      /\ Spent.until = held.until /\ Spent.covered = held.covered /\ Spent.added = held.added
      /\ Spent.changes = held.changes
  <2>1. Today \in Kept /\ Today.until = held.until /\ Today.covered = held.covered
        /\ Today.added = held.added /\ Today.changes = held.changes
    BY <1>1, SpentType DEF Today, Kept
  <2> QED BY <2>1 DEF Spent, Kept
<1>3. ListInv(Today, skipped) /\ ListInv(Spent, skipped)
  BY <1>2, UntouchedLists
<1>4. ASSUME NEW j, Publish(j) PROVE ListInv(held', skipped) /\ disk' = disk /\ skipped' = skipped
  <2>1. PICK coming \in {{}, {<<"coming", All>>}} :
          held' = [held EXCEPT
                     !.soonAt = now,
                     !.soonMarkets = held.changes[<<"leaving", All>>].catalogs,
                     !.leavingFrom = held.changes[<<"leaving", All>>].from,
                     !.changes = [r \in Reads |-> IF r \in {<<"leaving", All>>} \cup coming
                                                   THEN NoRead ELSE held.changes[r]]]
    BY <1>4 DEF Publish, Unsaved
  <2>2. /\ held'.until = held.until /\ held'.covered = held.covered /\ held'.added = held.added
        /\ held'.changes = [r \in Reads |-> IF r \in {<<"leaving", All>>} \cup coming
                                             THEN NoRead ELSE held.changes[r]]
    BY <1>1, <2>1 DEF Kept
  <2>3. \A i \in Listed : i \in Reads /\ i \notin {<<"leaving", All>>} \cup coming
    BY ReadNames
  <2>4. \A i \in Listed : held'.changes[i] = held.changes[i]
    BY <2>2, <2>3
  <2>5. SameLists(held', held)
    BY <2>2, <2>4 DEF SameLists, SameBounds
  <2> QED BY <1>4, <2>5, ListsKept DEF Publish, Unsaved
<1>5. ASSUME OneAnswered PROVE ListInv(held', skipped) /\ disk' = disk /\ skipped' = skipped
  <2>1. held' = [held EXCEPT !.servicesAt = now] \/ held' = [held EXCEPT !.top[job[2]] = now]
    BY <1>5 DEF OneAnswered, Unsaved
  <2>2. /\ held'.until = held.until /\ held'.covered = held.covered /\ held'.added = held.added
        /\ held'.changes = held.changes
    BY <1>1, <2>1 DEF Kept
  <2> QED BY <1>5, <2>2, UntouchedLists DEF OneAnswered, Unsaved
<1>6. ASSUME StartPass \/ EndPass \/ Fails \/ DayEnds \/ StartOver \/ UNCHANGED motnVars
             \/ \E j : AskOne(j) \/ NothingComing(j)
      PROVE  held' \in {held, disk} /\ disk' \in {held, disk} /\ skipped' = skipped
  <2>1. CASE StartPass \/ EndPass
    BY <2>1 DEF StartPass, EndPass, EndSave, Saves, SaveFails
  <2>2. CASE Fails \/ DayEnds \/ StartOver \/ UNCHANGED motnVars \/ \E j : AskOne(j) \/ NothingComing(j)
    BY <2>2 DEF Fails, DayEnds, StartOver, motnVars, AskOne, NothingComing
  <2> QED BY <1>6, <2>1, <2>2
<1>7. ASSUME Reserve \/ NotAsked
      PROVE  held' \in {held, Today, Spent} /\ disk' \in {disk, Spent} /\ skipped' = skipped
  BY <1>7 DEF Reserve, NotAsked, Saves, SaveFails, Unsaved
<1>8. CASE \E j : Publish(j)
  BY <1>4, <1>8
<1>9. CASE OneAnswered
  BY <1>5, <1>9
<1>10. CASE Reserve \/ NotAsked
  BY <1>3, <1>7, <1>10
<1>11. CASE StartPass \/ EndPass \/ Fails \/ DayEnds \/ StartOver \/ UNCHANGED motnVars
             \/ \E j : AskOne(j) \/ NothingComing(j)
  BY <1>6, <1>11
<1> QED BY <1>8, <1>9, <1>10, <1>11 DEF MotnNext

Lists == ListInv(held, skipped) /\ ListInv(disk, skipped)

LEMMA ListSteps == PassInv /\ Lists /\ [MotnNext]_motnVars => Lists'
<1> SUFFICES ASSUME PassInv, Lists, [MotnNext]_motnVars PROVE Lists'
  OBVIOUS
<1>1. ASSUME NEW j, BeginRead(j) PROVE Lists'
  <2>1. disk' = disk
    BY <1>1 DEF BeginRead, Unsaved
  <2>2. ListInv(held', skipped') /\ skipped \subseteq skipped'
    BY <1>1, BeginListSteps DEF Lists
  <2>3. ListInv(disk, skipped')
    <3>1. SameLists(disk, disk)
      BY DEF SameLists, SameBounds
    <3> QED BY <2>2, <3>1, ListsKept DEF Lists
  <2> QED BY <2>1, <2>2, <2>3 DEF Lists
<1>2. CASE PageArrives
  BY <1>2, PageListSteps DEF Lists
<1>3. CASE ~PageArrives /\ \A j : ~BeginRead(j)
  BY <1>3, OtherListSteps DEF Lists
<1> QED BY <1>1, <1>2, <1>3

LEMMA ListsInitially == MotnInit => Lists
<1> SUFFICES ASSUME MotnInit PROVE ListInv(Blank, skipped)
  BY DEF MotnInit, Lists
<1>1. /\ Blank.until = Never /\ Blank.covered = [s \in Service |-> Never]
      /\ Blank.added = [s \in Service |-> {}] /\ Blank.changes = [r \in Reads |-> NoRead]
  BY DEF Blank
<1>2. \A r \in Reads : Blank.changes[r].state = "none"
  BY <1>1, NoReadType
<1>3. /\ Blank.changes[<<"country", All>>].state = "none"
      /\ \A s \in Service : Blank.changes[<<"market", s>>].state = "none"
  BY <1>2, ReadNames DEF Country, Market
<1>4. \A s \in Service : Blank.covered[s] <= Blank.until /\ Blank.added[s] = {}
  BY <1>1 DEF Never
<1> HIDE DEF Blank
<1> QED BY <1>3, <1>4 DEF ListInv, Cursors, Unbroken

-----------------------------------------------------------------------------
LEMMA Always == MotnSpec => [](PassInv /\ Lists)
<1>1. MotnInit => PassInv /\ Lists
  BY Initially, ListsInitially
<1>2. PassInv /\ Lists /\ [MotnNext]_motnVars => (PassInv /\ Lists)'
  BY Steps, ListSteps
<1> QED BY <1>1, <1>2, PTL DEF MotnSpec

(* Whatever is wanted, answered, refused or lost, every request is counted *)
(* in the file before it is sent, memory is never behind the file, and     *)
(* each read goes on from where its services are covered                   *)
(* (src/src/motn.rs, pass, changes and reserve).                           *)
THEOREM Invariance == MotnSpec => []MotnIInv
<1>1. PassInv /\ Lists => MotnIInv
  BY DEF Lists, ListInv, MotnIInv
<1> QED BY <1>1, Always, PTL

(* No day sees more requests than DAILY_REQUESTS, however often the        *)
(* process ends between the count, the request and its answer.             *)
THEOREM BudgetIsKept == MotnSpec => []BudgetKept
<1>1. PassInv => BudgetKept
  <2> SUFFICES ASSUME PassInv PROVE wire <= Daily
    BY DEF BudgetKept
  <2>1. MotnTypeOK /\ RecordedFirst /\ disk.spent \in 0..Daily /\ wire \in Nat
    BY KeptFields DEF PassInv, MotnTypeOK
  <2> QED BY <2>1, MotnAssumption DEF RecordedFirst
<1> QED BY <1>1, Always, PTL

(* However services come and go, reads stop and resume and the process     *)
(* ends, the additions a service has, in memory or in the file, have no    *)
(* hole up to where it is covered but for what a late read passed over     *)
(* (src/src/motn.rs, pass and keep_added).                                 *)
THEOREM AdditionsHaveNoHole == MotnSpec => []NoHoleInAdditions
<1>1. Lists => NoHoleInAdditions
  BY DEF Lists, ListInv, NoHoleInAdditions
<1> QED BY <1>1, Always, PTL
=============================================================================
