-------------------------------- MODULE EmbedMemo --------------------------------
(* atlas's own memos of vectors (cache.rs, EmbedMemo): of queries, in memory  *)
(* and for a while, and of library titles, for good and in a file.  Whoever   *)
(* puts a vector marks the map dirty; the first of them to find nobody saving *)
(* starts a blocking thread that writes until the map is clean.              *)
EXTENDS Naturals, Sequences, FiniteSets

CONSTANTS
    Key, MaxEntries,
    Putter, Saver,         \* tasks, and the threads they start
    MaxUses, MaxLosses    \* bounds of the model

VARIABLES
    library,       \* which memo this is
    map,           \* key -> [vector, used]: which put the vector is of, and when it was used
    uses,          \* the clock, which moves with each use
    dirty, saving, \* the atomics
    putter,        \* where each put is
    saver,         \* where each thread is, and the map it took
    file,          \* the map as it was written
    lost,          \* history: the last write failed
    losses

memoVars == <<library, map, uses, dirty, saving, putter, saver, file, lost, losses>>
saveVars == <<dirty, saving, saver, file, lost>>

Nothing == [k \in {} |-> 0]
Ended   == [at |-> "ended", body |-> Nothing]

VectorsOf(m) == [k \in DOMAIN m |-> m[k].vector]

MemoInit ==
    /\ library \in BOOLEAN /\ map = Nothing /\ uses = 0 /\ dirty = FALSE /\ saving = FALSE
    /\ putter = [p \in Putter |-> "idle"] /\ saver = [s \in Saver |-> Ended]
    /\ file = Nothing /\ lost = FALSE /\ losses = 0

-----------------------------------------------------------------------------
Dropped(k) == [l \in DOMAIN map \ {k} |-> map[l]]

(* get(): a use, or the end of a query's vector past its TTL.               *)
Use(k) ==
    /\ k \in DOMAIN map
    /\ \/ uses < MaxUses /\ uses' = uses + 1 /\ map' = [map EXCEPT ![k].used = uses']
       \/ ~ library /\ map' = Dropped(k) /\ UNCHANGED uses
    /\ UNCHANGED <<library, putter, saveVars, losses>>

Coldest == CHOOSE k \in DOMAIN map : \A l \in DOMAIN map : map[k].used <= map[l].used

(* put(): under the lock ...                                               *)
Put(p, k) ==
    /\ putter[p] = "idle" /\ uses < MaxUses /\ uses' = uses + 1
    /\ LET others == IF Cardinality(DOMAIN map) >= MaxEntries /\ k \notin DOMAIN map
                     THEN Dropped(Coldest) ELSE map
       IN map' = [l \in DOMAIN others \cup {k} |->
                    IF l = k THEN [vector |-> uses', used |-> uses'] ELSE others[l]]
    /\ putter' = [putter EXCEPT ![p] = IF library THEN "marking" ELSE "idle"]
    /\ UNCHANGED <<library, saveVars, losses>>

(* ... then save(): dirty, and a thread if nobody saves.                    *)
Mark(p) ==
    /\ putter[p] = "marking" /\ dirty' = TRUE /\ putter' = [putter EXCEPT ![p] = "starting"]
    /\ UNCHANGED <<library, map, uses, saving, saver, file, lost, losses>>

Start(p) ==
    /\ putter[p] = "starting" /\ putter' = [putter EXCEPT ![p] = "idle"] /\ saving' = TRUE
    /\ \/ saving /\ UNCHANGED saver
       \/ ~ saving /\ \E s \in Saver : saver[s] = Ended /\ saver' = [saver EXCEPT ![s].at = "looping"]
    /\ UNCHANGED <<library, map, uses, dirty, file, lost, losses>>

-----------------------------------------------------------------------------
Goto(s, place) == saver' = [saver EXCEPT ![s].at = place]

(* The thread: while the map is dirty ...                                  *)
Loop(s) ==
    /\ saver[s].at = "looping" /\ dirty' = FALSE
    /\ Goto(s, IF dirty THEN "taking" ELSE "releasing")
    /\ UNCHANGED <<library, map, uses, saving, putter, file, lost, losses>>

(* ... it takes what there is ...                                          *)
TakeMap(s) ==
    /\ saver[s].at = "taking"
    /\ saver' = [saver EXCEPT ![s] = [at |-> "writing", body |-> map]]
    /\ UNCHANGED <<library, map, uses, dirty, saving, putter, file, lost, losses>>

(* ... and writes it beside the file and over it.  A write that fails is     *)
(* not tried again.                                                        *)
Write(s) ==
    /\ saver[s].at = "writing" /\ saver' = [saver EXCEPT ![s] = [at |-> "looping", body |-> Nothing]]
    /\ \/ file' = saver[s].body /\ lost' = FALSE /\ UNCHANGED losses
       \/ losses < MaxLosses /\ losses' = losses + 1 /\ lost' = TRUE /\ UNCHANGED file
    /\ UNCHANGED <<library, map, uses, dirty, saving, putter>>

Release(s) ==
    /\ saver[s].at = "releasing" /\ saving' = FALSE /\ Goto(s, "looking")
    /\ UNCHANGED <<library, map, uses, dirty, putter, file, lost, losses>>

(* A bug: clean when it was released, so done.                             *)
LookNot(s) ==
    /\ saver[s].at = "looking" /\ Goto(s, "ended")
    /\ UNCHANGED <<library, map, uses, dirty, saving, putter, file, lost, losses>>

(* A put between the last look at dirty and the release started nobody.     *)
Look(s) ==
    /\ saver[s].at = "looking" /\ Goto(s, IF dirty THEN "claiming" ELSE "ended")
    /\ UNCHANGED <<library, map, uses, dirty, saving, putter, file, lost, losses>>

Claim(s) ==
    /\ saver[s].at = "claiming" /\ saving' = TRUE /\ Goto(s, IF saving THEN "ended" ELSE "looping")
    /\ UNCHANGED <<library, map, uses, dirty, putter, file, lost, losses>>

(* persisted_library(): what the file holds.                               *)
ReadBack ==
    /\ library /\ losses < MaxLosses /\ losses' = losses + 1
    /\ map' = file
    /\ dirty' = FALSE /\ saving' = FALSE /\ lost' = FALSE
    /\ putter' = [p \in Putter |-> "idle"] /\ saver' = [s \in Saver |-> Ended]
    /\ UNCHANGED <<library, uses, file>>

SaverStep(s) == Loop(s) \/ TakeMap(s) \/ Write(s) \/ Release(s) \/ Look(s) \/ Claim(s)

MemoNext ==
    \/ \E k \in Key : Use(k) \/ \E p \in Putter : Put(p, k)
    \/ \E p \in Putter : Mark(p) \/ Start(p)
    \/ \E s \in Saver : SaverStep(s)
    \/ ReadBack

MemoSpec == MemoInit /\ [][MemoNext]_memoVars

-----------------------------------------------------------------------------
Saves(s) == saver[s].at \in {"looping", "taking", "writing", "releasing"}

(* One thread at a time writes the one partial file.                       *)
OneSaver == \A s, t \in Saver : Saves(s) /\ Saves(t) => s = t

(* "Library vectors survive deploys": once nobody saves or is about to, the *)
(* file has every vector, unless the last write failed.                     *)
AllSaved == library /\ (\A p \in Putter : putter[p] = "idle") /\ (\A s \in Saver : saver[s] = Ended)
    => lost \/ VectorsOf(file) = VectorsOf(map)

(* However puts and threads interleave, the file is one thread's to write    *)
(* and no vector is left out of it.                                        *)
MemoInv == OneSaver /\ AllSaved

-----------------------------------------------------------------------------
(* The inductive invariant behind MemoInv.                                  *)
IsMap(m) == \A k \in DOMAIN m : m[k] \in [vector : Nat, used : Nat]

Places == {"looping", "taking", "writing", "releasing", "looking", "claiming", "ended"}

MemoTypeOK ==
    /\ library \in BOOLEAN /\ dirty \in BOOLEAN /\ saving \in BOOLEAN /\ lost \in BOOLEAN
    /\ IsMap(map) /\ IsMap(file) /\ uses \in Nat
    /\ putter \in [Putter -> {"idle", "marking", "starting"}]
    /\ saver = [s \in Saver |-> [at |-> saver[s].at, body |-> saver[s].body]]
    /\ \A s \in Saver : saver[s].at \in Places /\ IsMap(saver[s].body)

(* `saving` says that a thread saves, and only a thread that writes has a    *)
(* map of its own.                                                         *)
SavingKept ==
    /\ \A s \in Saver : Saves(s) => saving
    /\ saving => \E s \in Saver : Saves(s)
    /\ \A s \in Saver : saver[s].at # "writing" => saver[s].body = Nothing

(* Somebody is going to mark the map, or it is marked and somebody is going  *)
(* to see it.                                                              *)
Owed ==
    \/ \E p \in Putter : putter[p] = "marking"
    \/ dirty /\ (\E p \in Putter : putter[p] = "starting")
    \/ dirty /\ (\E s \in Saver : saver[s].at # "ended")

(* What the file has not got, somebody takes or writes or is owed.          *)
WriteOwed == library =>
    /\ \/ lost \/ VectorsOf(file) = VectorsOf(map) \/ Owed
       \/ \E s \in Saver : saver[s].at \in {"taking", "writing"}
    /\ \A s \in Saver : saver[s].at = "writing" =>
           VectorsOf(saver[s].body) = VectorsOf(map) \/ Owed

MemoIInv == MemoTypeOK /\ OneSaver /\ SavingKept /\ WriteOwed
=============================================================================
