------------------------------ MODULE RowCacheFile ------------------------------
(***************************************************************************)
(* The row cache of src/src/cache.rs (TtlCache) and the file it is kept    *)
(* in: rows stored by any task, the detached coordinator that writes them  *)
(* in batches, the write beside the file and over it, failed writes, a     *)
(* writer that panics, and a process that stops at any moment and starts   *)
(* again from the file.                                                    *)
(*                                                                         *)
(* A row is the number of the put that stored it, so a larger number is a  *)
(* newer row; 0 is no row.  Whether a row is fresh is CatalogRows' matter. *)
(***************************************************************************)
EXTENDS Naturals, FiniteSets

CONSTANTS Key,         \* row keys
          Putter,      \* tasks that store rows
          Writer,      \* coordinator tasks: enough that a put finds one free
          MaxEntries,  \* max_entries
          MaxPuts,     \* bound on rows stored in a behaviour
          MaxClock,    \* bound on the wall clock
          MaxRestarts, \* bound on restarts
          NoGeneration \* the generation a panicked pass reports

ASSUME BoundsAssumption ==
    /\ MaxEntries \in Nat \ {0}
    /\ MaxPuts \in Nat /\ MaxClock \in Nat /\ MaxRestarts \in Nat
    /\ NoGeneration \notin Nat

VARIABLES
    rows,        \* the map: each key's row, 0 for none
    stored,      \* when each row was stored, by the wall clock
    generation,  \* how many rows this process has stored
    saving,      \* a writer is scheduled or running
    putting,     \* putters between their insert and their save()
    pc,          \* where each coordinator is
    snapshot,    \* the rows and times each coordinator's pass serialized
    written,     \* the generation that pass reports
    disk,        \* the file: rows and times
    partial,     \* the file written beside it
    clock, puts, restarts,
    steady,      \* history: nobody has set the clock back
    failed       \* the last pass to finish did not write the file

cacheVars  == <<rows, stored, generation, puts>>
writerVars == <<pc, snapshot, written, failed>>
fileVars   == <<disk, partial>>
timeVars   == <<clock, steady>>
vars == <<cacheVars, saving, putting, writerVars, fileVars, timeVars, restarts>>

Row   == 0..MaxPuts
Image == [rows : [Key -> Row], stored : [Key -> 0..MaxClock]]
Empty == [rows |-> [k \in Key |-> 0], stored |-> [k \in Key |-> 0]]

TypeOK ==
    /\ rows \in [Key -> Row] /\ stored \in [Key -> 0..MaxClock]
    /\ generation \in Row /\ puts \in Row
    /\ saving \in BOOLEAN /\ failed \in BOOLEAN
    /\ putting \in SUBSET Putter
    /\ pc \in [Writer -> {"off", "window", "serializing", "writing", "renaming", "reported",
                        "clearing", "cleared"}]
    /\ snapshot \in [Writer -> Image]
    /\ written \in [Writer -> Row \cup {NoGeneration}]
    /\ disk \in Image /\ partial \in Image
    /\ clock \in 0..MaxClock /\ steady \in BOOLEAN /\ restarts \in 0..MaxRestarts

Init ==
    /\ rows = Empty.rows /\ stored = Empty.stored
    /\ generation = 0 /\ puts = 0 /\ saving = FALSE /\ putting = {}
    /\ pc = [w \in Writer |-> "off"]
    /\ snapshot = [w \in Writer |-> Empty]
    /\ written = [w \in Writer |-> NoGeneration]
    /\ disk = Empty /\ partial = Empty
    /\ clock = 0 /\ steady = TRUE /\ restarts = 0 /\ failed = FALSE

Held(r) == {k \in Key : r[k] # 0}

(* A bug: evict_one drops whichever row the map yields first. *)
YieldedFirst(r, s) == Held(r)

(* The keys `evict_one` may drop: those with the earliest time. *)
Oldest(r, s) == {k \in Held(r) : \A j \in Held(r) : s[k] <= s[j]}

-----------------------------------------------------------------------------
(* Bugs the cache could have had: each property below fails of one.        *)

(* save() looks at the flag and raises it later. *)
SaveWithoutSwap(p) ==
    /\ p \in putting
    /\ putting' = putting \ {p}
    /\ saving' = TRUE
    /\ \E w \in Writer : pc[w] = "off" /\ pc' = [pc EXCEPT ![w] = "window"]
    /\ UNCHANGED <<cacheVars, snapshot, written, failed, fileVars, timeVars, restarts>>

(* A row stored between the check and the clearing of the flag is left. *)
CheckNothing(w) ==
    /\ pc[w] = "cleared"
    /\ pc' = [pc EXCEPT ![w] = "off"]
    /\ UNCHANGED <<cacheVars, saving, putting, snapshot, written, failed, fileVars, timeVars, restarts>>

-----------------------------------------------------------------------------
(* Storing a row.                                                          *)

Stamped(room, k) ==
    [j \in Key |-> IF j = k THEN clock ELSE IF room[j] = 0 THEN 0 ELSE stored[j]]

(* `put`, under the map's lock: make room, insert, count. *)
Put(p, k) ==
    /\ p \notin putting
    /\ puts < MaxPuts
    /\ puts' = puts + 1
    /\ \E room \in
         IF Cardinality(Held(rows)) >= MaxEntries /\ rows[k] = 0
           THEN {[rows EXCEPT ![old] = 0] : old \in Oldest(rows, stored)}
           ELSE {rows} :
         /\ rows' = [room EXCEPT ![k] = puts + 1]
         /\ stored' = Stamped(room, k)
    /\ generation' = generation + 1
    /\ putting' = putting \cup {p}
    /\ UNCHANGED <<saving, writerVars, fileVars, timeVars, restarts>>

(* `save`: the first to raise the flag spawns the coordinator. *)
Save(p) ==
    /\ p \in putting
    /\ putting' = putting \ {p}
    /\ saving' = TRUE
    /\ IF saving THEN UNCHANGED pc
       ELSE \E w \in Writer : pc[w] = "off" /\ pc' = [pc EXCEPT ![w] = "window"]
    /\ UNCHANGED <<cacheVars, snapshot, written, failed, fileVars, timeVars, restarts>>

-----------------------------------------------------------------------------
(* The coordinator and its blocking writer.                                *)

(* The batch window ends. *)
EndWindow(w) ==
    /\ pc[w] = "window"
    /\ pc' = [pc EXCEPT ![w] = "serializing"]
    /\ UNCHANGED <<cacheVars, saving, putting, snapshot, written, failed, fileVars, timeVars, restarts>>

(* The rows and their generation, both read under the map's lock. *)
Serialize(w) ==
    /\ pc[w] = "serializing"
    /\ snapshot' = [snapshot EXCEPT ![w] = [rows |-> rows, stored |-> stored]]
    /\ written' = [written EXCEPT ![w] = generation]
    /\ pc' = [pc EXCEPT ![w] = "writing"]
    /\ UNCHANGED <<cacheVars, saving, putting, failed, fileVars, timeVars, restarts>>

WriteBeside(w) ==
    /\ pc[w] = "writing"
    /\ partial' = snapshot[w]
    /\ pc' = [pc EXCEPT ![w] = "renaming"]
    /\ UNCHANGED <<cacheVars, saving, putting, snapshot, written, failed, disk, timeVars, restarts>>

Rename(w) ==
    /\ pc[w] = "renaming"
    /\ disk' = partial
    /\ failed' = FALSE
    /\ pc' = [pc EXCEPT ![w] = "reported"]
    /\ UNCHANGED <<cacheVars, saving, putting, snapshot, written, partial, timeVars, restarts>>

(* A full or read-only filesystem: the pass still reports its generation. *)
WriteFails(w) ==
    /\ pc[w] \in {"writing", "renaming"}
    /\ failed' = TRUE
    /\ pc' = [pc EXCEPT ![w] = "reported"]
    /\ UNCHANGED <<cacheVars, saving, putting, snapshot, written, fileVars, timeVars, restarts>>

(* The writer task panics (a JoinError): the pass reports nothing. *)
WriterPanics(w) ==
    /\ pc[w] \in {"serializing", "writing"}
    /\ failed' = TRUE
    /\ written' = [written EXCEPT ![w] = NoGeneration]
    /\ pc' = [pc EXCEPT ![w] = "reported"]
    /\ UNCHANGED <<cacheVars, saving, putting, snapshot, fileVars, timeVars, restarts>>

Behind(w) == written[w] # NoGeneration /\ generation # written[w]

(* A later row gets another window; otherwise the flag is to be cleared. *)
Follow(w) ==
    /\ pc[w] = "reported"
    /\ pc' = [pc EXCEPT ![w] = IF Behind(w) THEN "window" ELSE "clearing"]
    /\ UNCHANGED <<cacheVars, saving, putting, snapshot, written, failed, fileVars, timeVars, restarts>>

Clear(w) ==
    /\ pc[w] = "clearing"
    /\ saving' = FALSE
    /\ pc' = [pc EXCEPT ![w] = "cleared"]
    /\ UNCHANGED <<cacheVars, putting, snapshot, written, failed, fileVars, timeVars, restarts>>

(* A row stored since that look: whoever raises the flag takes it.  The    *)
(* code looks, then swaps the flag; once behind a pass stays behind, so    *)
(* the two are one step here.                                              *)
CheckAgain(w) ==
    /\ pc[w] = "cleared"
    /\ IF Behind(w) /\ ~saving
         THEN pc' = [pc EXCEPT ![w] = "window"]
         ELSE pc' = [pc EXCEPT ![w] = "off"]
    /\ saving' = (saving \/ Behind(w))
    /\ UNCHANGED <<cacheVars, putting, snapshot, written, failed, fileVars, timeVars, restarts>>

WriterStep(w) ==
    \/ EndWindow(w) \/ Serialize(w) \/ WriteBeside(w) \/ Rename(w)
    \/ WriteFails(w) \/ WriterPanics(w) \/ Follow(w) \/ Clear(w) \/ CheckAgain(w)

-----------------------------------------------------------------------------
(* The process stops, and starts from the file, or empty when it cannot be *)
(* read.                                                                   *)
Restart(image) ==
    /\ restarts < MaxRestarts
    /\ restarts' = restarts + 1
    /\ rows' = image.rows /\ stored' = image.stored
    /\ generation' = 0 /\ saving' = FALSE /\ putting' = {}
    /\ pc' = [w \in Writer |-> "off"]
    /\ snapshot' = [w \in Writer |-> Empty]
    /\ written' = [w \in Writer |-> NoGeneration]
    /\ failed' = FALSE
    /\ UNCHANGED <<puts, fileVars, timeVars>>

(* The wall clock moves, and can be set back. *)
MoveClock ==
    /\ clock' \in (0..MaxClock) \cap {clock + 1, clock - 1}
    /\ steady' = (steady /\ clock' > clock)
    /\ UNCHANGED <<cacheVars, saving, putting, writerVars, fileVars, restarts>>

Next ==
    \/ \E p \in Putter : (\E k \in Key : Put(p, k)) \/ Save(p)
    \/ \E w \in Writer : WriterStep(w)
    \/ \E image \in {disk, Empty} : Restart(image)
    \/ MoveClock

Spec == Init /\ [][Next]_vars

(* The runtime polls every ready task and the blocking pool runs every     *)
(* closure, to an end or to a panic.                                       *)
Fairness ==
    /\ \A p \in Putter : WF_vars(Save(p))
    /\ \A w \in Writer : WF_vars(WriterStep(w))

FairSpec == Spec /\ Fairness

-----------------------------------------------------------------------------
(* Properties.                                                             *)

(* In the loop, and so the one that answers for `saving`. *)
Active(w) == pc[w] \notin {"off", "cleared"}

(* `saving` is up exactly while one coordinator is in its loop. *)
SavingIsActive == saving <=> \E w \in Writer : Active(w)

(* Two coordinators never write at a time, so no older snapshot is renamed *)
(* over a newer file and nothing mixes in the file beside it.              *)
OneWriter == \A v, w \in Writer : Active(v) /\ Active(w) => v = w

(* A row that somebody is still going to write. *)
Pending == \/ putting # {}
           \/ \E w \in Writer : Active(w)
           \/ \E w \in Writer : pc[w] = "cleared" /\ Behind(w)

(* `save`: "rows stored while it waits or writes are included in that pass *)
(* or a guaranteed follow-up".  A row not in the file is still pending,    *)
(* or the last pass failed and the next put retries it.                    *)
SavedOrPending == \A k \in Key :
    rows[k] # 0 /\ disk.rows[k] # rows[k] => Pending \/ failed

(* The file never goes back to an older row: a key's row in it is replaced *)
(* by a newer one or goes with an eviction.                                *)
FileNeverGoesBack == [][\A k \in Key : disk'.rows[k] = 0 \/ disk'.rows[k] >= disk.rows[k]]_vars

(* The row a put drops was put before every row it leaves, by this process  *)
(* or one before it.  Rows of one tick are left out, a clock being coarse.  *)
DropsAnOlder == \A k \in Key : generation' = generation + 1 /\ rows[k] # 0 /\ rows'[k] = 0
    => \A j \in Held(rows) : rows[k] <= rows[j] \/ stored[k] = stored[j]

(* "The newest survive; the oldest are the ones dropped", over any puts and *)
(* restarts, while nobody has set the clock back.                          *)
NewestSurvive == [][steady => DropsAnOlder]_vars

(* The same whatever the clock does.  It does not hold: what is stored once *)
(* the clock was set back looks the oldest, and the next put drops it.     *)
NewestAlwaysSurvive == [][DropsAnOlder]_vars

(* "Continuous traffic cannot postpone a flush forever": a row reaches the *)
(* file unless a newer one, an eviction, a failed pass or a restart comes  *)
(* first.                                                                  *)
RowReachesFile == \A k \in Key : \A v \in 1..MaxPuts :
    rows[k] = v ~> disk.rows[k] >= v \/ rows[k] # v \/ failed

-----------------------------------------------------------------------------
(* The inductive invariant behind OneWriter, FileNeverGoesBack and         *)
(* SavedOrPending.                                                         *)

(* No row is newer than the last put, and none in the file or on its way   *)
(* there is newer than the row it stands for.                              *)
NoneFromAhead == generation <= puts /\ \A k \in Key :
    /\ disk.rows[k] <= puts /\ rows[k] <= puts
    /\ rows[k] # 0 => disk.rows[k] <= rows[k]
    /\ \A w \in Writer : pc[w] \in {"writing", "renaming"} =>
         /\ snapshot[w].rows[k] <= puts
         /\ snapshot[w].rows[k] # 0 => disk.rows[k] <= snapshot[w].rows[k]
         /\ rows[k] # 0 => snapshot[w].rows[k] <= rows[k]

(* What a pass carries: as many puts as it reports, and all of the rows    *)
(* unless one was stored since.                                            *)
PassCarries == \A w \in Writer :
    /\ written[w] # NoGeneration => written[w] <= generation
    /\ pc[w] \in {"writing", "renaming"} =>
         written[w] # NoGeneration /\ (written[w] = generation => snapshot[w].rows = rows)
    /\ pc[w] = "renaming" => partial = snapshot[w]
    /\ pc[w] \in {"reported", "clearing"} /\ written[w] = NoGeneration => failed

(* A coordinator that left its loop left it before the one in it now read  *)
(* the rows.                                                               *)
LaterPassCarriesMore == \A v, w \in Writer :
    pc[v] = "cleared" /\ pc[w] \in {"writing", "renaming", "reported", "clearing"}
      /\ written[v] # NoGeneration /\ written[w] # NoGeneration
      => written[v] <= written[w]

(* The file has every row there is. *)
FileHolds == \A k \in Key : rows[k] # 0 => disk.rows[k] = rows[k]

(* A pass that carried the last row and did not fail filled the file. *)
ReportedIsSaved == \A w \in Writer :
    pc[w] \in {"reported", "clearing", "cleared"} /\ written[w] = generation /\ ~failed => FileHolds

(* This coordinator will carry the rows there are now, or follow up. *)
Owes(w) == \/ pc[w] \in {"window", "serializing", "writing", "renaming"}
           \/ pc[w] \in {"reported", "clearing", "cleared"} /\ Behind(w)

SavedOrOwed == FileHolds \/ failed \/ putting # {} \/ \E w \in Writer : Owes(w)

(* While the clock is steady, a row put later has the later time, in memory *)
(* and wherever a restart may find it; none is of the future.              *)
TimesFollowPuts(image) == \A k \in Key :
    /\ image.stored[k] <= clock
    /\ \A j \in Key : image.rows[j] # 0 /\ image.rows[j] < image.rows[k]
          => image.stored[j] <= image.stored[k]

SteadyInv == steady =>
    /\ TimesFollowPuts([rows |-> rows, stored |-> stored])
    /\ TimesFollowPuts(disk) /\ TimesFollowPuts(partial)
    /\ \A w \in Writer : TimesFollowPuts(snapshot[w])

IInv == /\ TypeOK /\ SavingIsActive /\ OneWriter
        /\ NoneFromAhead
        /\ PassCarries /\ LaterPassCarriesMore /\ ReportedIsSaved /\ SavedOrOwed
=============================================================================
