------------------------------ MODULE KeepersProofs ------------------------------
(***************************************************************************)
(* Of what atlas keeps of its upstreams.  For every set of puts and of      *)
(* threads, one writes the vectors' file and nothing is left out of it     *)
(* (EmbedMemo); for every set of calls, an upstream's pause is waited out   *)
(* (UpstreamBackoff); for every order of authorities, a reader sees every   *)
(* rating that was found (MaturityFacts); and for every corpus, a sweep of  *)
(* discover passes no title and what a tick wrote is true (TmdbRefresh).   *)
(***************************************************************************)
EXTENDS MaturityFacts, UpstreamBackoff, EmbedMemo, TmdbRefresh, CommonTheorems,
        FiniteSetTheorems, TLAPS

-----------------------------------------------------------------------------
(* EmbedMemo.                                                              *)

LEMMA MemoInitIInv == MemoInit => MemoIInv
<1> SUFFICES ASSUME MemoInit PROVE MemoIInv
  OBVIOUS
<1> USE DEF MemoInit, Ended, Nothing
<1>1. MemoTypeOK
  BY DEF MemoTypeOK, IsMap, Places
<1>2. OneSaver /\ SavingKept
  BY DEF OneSaver, SavingKept, Saves
<1>3. WriteOwed
  BY DEF WriteOwed, VectorsOf
<1> QED BY <1>1, <1>2, <1>3 DEF MemoIInv

(* A thread that moves leaves the others where they are.                    *)
LEMMA SaverMoves ==
    ASSUME MemoTypeOK, NEW s \in Saver, NEW place \in Places, NEW m, IsMap(m),
           \/ saver' = [saver EXCEPT ![s] = [at |-> place, body |-> m]]
           \/ Goto(s, place) /\ m = saver[s].body
    PROVE  /\ saver'[s].at = place /\ saver'[s].body = m
           /\ \A t \in Saver \ {s} : saver'[t] = saver[t]
           /\ saver' = [t \in Saver |-> [at |-> saver'[t].at, body |-> saver'[t].body]]
           /\ \A t \in Saver : saver'[t].at \in Places /\ IsMap(saver'[t].body)
<1>1. saver' = [saver EXCEPT ![s] = [at |-> place, body |-> m]]
  <2>1. ASSUME Goto(s, place), m = saver[s].body
        PROVE  saver' = [saver EXCEPT ![s] = [at |-> place, body |-> m]]
    <3>1. saver[s] = [at |-> saver[s].at, body |-> saver[s].body]
      BY DEF MemoTypeOK
    <3>2. [saver[s] EXCEPT !.at = place] = [at |-> place, body |-> m]
      BY <2>1, <3>1
    <3> QED BY <2>1, <3>2 DEF Goto
  <2> QED BY <2>1
<1>2. DOMAIN saver = Saver
  BY DEF MemoTypeOK
<1>3. /\ saver'[s] = [at |-> place, body |-> m]
      /\ \A t \in Saver \ {s} : saver'[t] = saver[t]
      /\ DOMAIN saver' = Saver
  BY <1>1, <1>2
<1>4. \A t \in Saver : /\ saver'[t] = [at |-> saver'[t].at, body |-> saver'[t].body]
                       /\ saver'[t].at \in Places
  BY <1>3 DEF MemoTypeOK
<1>5. \A t \in Saver : IsMap(saver'[t].body)
  BY <1>3 DEF MemoTypeOK
<1>6. saver' = [t \in Saver |-> saver'[t]]
  BY <1>1, <1>2
<1>7. saver' = [t \in Saver |-> [at |-> saver'[t].at, body |-> saver'[t].body]]
  BY <1>4, <1>6
<1> QED BY <1>3, <1>4, <1>5, <1>7

(* A use leaves every vector as it is. *)
LEMMA UseKeepsVectors ==
    ASSUME MemoTypeOK, NEW k \in Key, Use(k)
    PROVE  IsMap(map') /\ uses' \in Nat /\ (library => VectorsOf(map') = VectorsOf(map))
<1>1. CASE uses < MaxUses /\ uses' = uses + 1 /\ map' = [map EXCEPT ![k].used = uses']
  <2>1. k \in DOMAIN map /\ map[k] \in [vector : Nat, used : Nat] /\ uses' \in Nat
    BY <1>1 DEF Use, MemoTypeOK, IsMap
  <2>2. /\ DOMAIN map' = DOMAIN map
        /\ map'[k] = [map[k] EXCEPT !.used = uses']
        /\ \A l \in DOMAIN map \ {k} : map'[l] = map[l]
    BY <1>1, <2>1
  <2>3. map'[k] \in [vector : Nat, used : Nat] /\ map'[k].vector = map[k].vector
    BY <2>1, <2>2
  <2>4. IsMap(map')
    BY <2>2, <2>3 DEF MemoTypeOK, IsMap
  <2>5. \A l \in DOMAIN map : map'[l].vector = map[l].vector
    BY <2>2, <2>3
  <2> QED BY <2>1, <2>2, <2>4, <2>5 DEF VectorsOf
<1>2. CASE ~ library /\ map' = Dropped(k) /\ UNCHANGED uses
  BY <1>2 DEF MemoTypeOK, IsMap, Dropped
<1> QED BY <1>1, <1>2 DEF Use

LEMMA PutKeepsAMap ==
    ASSUME MemoTypeOK, NEW p \in Putter, NEW k \in Key, Put(p, k)
    PROVE  IsMap(map') /\ uses' \in Nat
<1>1. uses' \in Nat
  BY DEF Put, MemoTypeOK
<1>2. IsMap(map) /\ IsMap(Dropped(Coldest))
  BY DEF MemoTypeOK, IsMap, Dropped
<1>3. PICK others : IsMap(others) /\ map' = [l \in DOMAIN others \cup {k} |->
                    IF l = k THEN [vector |-> uses', used |-> uses'] ELSE others[l]]
  BY <1>2 DEF Put
<1> QED BY <1>1, <1>3 DEF IsMap

LEMMA MemoTypeStep == MemoTypeOK /\ [MemoNext]_memoVars => MemoTypeOK'
<1> SUFFICES ASSUME MemoTypeOK, [MemoNext]_memoVars PROVE MemoTypeOK'
  OBVIOUS
<1> USE DEF saveVars
<1>1. ASSUME NEW k \in Key, Use(k) PROVE MemoTypeOK'
  BY <1>1, UseKeepsVectors DEF Use, MemoTypeOK
<1>2. ASSUME NEW p \in Putter, NEW k \in Key, Put(p, k) PROVE MemoTypeOK'
  BY <1>2, PutKeepsAMap DEF Put, MemoTypeOK
<1>3. ASSUME NEW p \in Putter, Mark(p) PROVE MemoTypeOK'
  BY <1>3 DEF Mark, MemoTypeOK
<1>4. ASSUME NEW p \in Putter, Start(p) PROVE MemoTypeOK'
  <2>1. ASSUME NEW s \in Saver, saver' = [saver EXCEPT ![s].at = "looping"]
        PROVE  /\ saver' = [t \in Saver |-> [at |-> saver'[t].at, body |-> saver'[t].body]]
               /\ \A t \in Saver : saver'[t].at \in Places /\ IsMap(saver'[t].body)
    <3>1. "looping" \in Places /\ IsMap(saver[s].body) /\ Goto(s, "looping")
      BY <2>1 DEF MemoTypeOK, Places, Goto
    <3> QED BY <3>1, SaverMoves
  <2> QED BY <1>4, <2>1 DEF Start, MemoTypeOK
<1>5. ASSUME NEW s \in Saver, SaverStep(s) PROVE MemoTypeOK'
  <2>1. IsMap(saver[s].body) /\ IsMap(map) /\ IsMap(Nothing)
    BY DEF MemoTypeOK, IsMap, Nothing
  <2>2. \/ \E place \in Places : Goto(s, place)
        \/ \E place \in Places, m \in {map, Nothing} :
              saver' = [saver EXCEPT ![s] = [at |-> place, body |-> m]]
    BY <1>5 DEF SaverStep, Loop, TakeMap, Write, Release, Look, Claim, Places
  <2>3. /\ saver' = [t \in Saver |-> [at |-> saver'[t].at, body |-> saver'[t].body]]
        /\ \A t \in Saver : saver'[t].at \in Places /\ IsMap(saver'[t].body)
    BY <2>1, <2>2, SaverMoves
  <2>4. IsMap(file') /\ IsMap(map') /\ uses' \in Nat
    BY <1>5, <2>1 DEF SaverStep, Loop, TakeMap, Write, Release, Look, Claim, MemoTypeOK
  <2>5. /\ library' \in BOOLEAN /\ dirty' \in BOOLEAN /\ saving' \in BOOLEAN /\ lost' \in BOOLEAN
        /\ putter' \in [Putter -> {"idle", "marking", "starting"}]
    BY <1>5 DEF SaverStep, Loop, TakeMap, Write, Release, Look, Claim, MemoTypeOK
  <2> QED BY <2>3, <2>4, <2>5 DEF MemoTypeOK
<1>6. ASSUME ReadBack PROVE MemoTypeOK'
  BY <1>6 DEF ReadBack, MemoTypeOK, IsMap, Ended, Nothing, Places
<1>7. ASSUME UNCHANGED memoVars PROVE MemoTypeOK'
  BY <1>7 DEF memoVars, MemoTypeOK
<1> QED BY <1>1, <1>2, <1>3, <1>4, <1>5, <1>6, <1>7 DEF MemoNext

(* `saving` goes with the one thread that saves, from its start to its      *)
(* release.                                                                *)
LEMMA OneSaverStep ==
    MemoIInv /\ [MemoNext]_memoVars => OneSaver' /\ SavingKept'
<1> SUFFICES ASSUME MemoIInv, [MemoNext]_memoVars PROVE OneSaver' /\ SavingKept'
  OBVIOUS
<1> USE DEF MemoIInv, OneSaver, SavingKept, Saves
<1>1. ASSUME UNCHANGED <<saver, saving>> PROVE OneSaver' /\ SavingKept'
  BY <1>1
<1>2. ASSUME NEW p \in Putter, Start(p), ~ saving PROVE OneSaver' /\ SavingKept'
  <2>1. PICK s \in Saver : saver[s] = Ended /\ Goto(s, "looping")
    BY <1>2 DEF Start, Goto
  <2>2. IsMap(saver[s].body) /\ "looping" \in Places
    BY DEF MemoTypeOK, Places
  <2>3. /\ saver'[s].at = "looping" /\ saver'[s].body = saver[s].body
        /\ \A t \in Saver \ {s} : saver'[t] = saver[t]
    BY <2>1, <2>2, SaverMoves
  <2>4. saver[s].body = Nothing /\ saving'
    BY <1>2, <2>1 DEF Ended, Start
  <2> QED BY <1>2, <2>3, <2>4
<1>3. ASSUME NEW p \in Putter, Start(p), saving PROVE OneSaver' /\ SavingKept'
  BY <1>3, <1>1 DEF Start, MemoTypeOK
<1>4. ASSUME NEW s \in Saver, SaverStep(s) PROVE OneSaver' /\ SavingKept'
  <2>0. IsMap(saver[s].body) /\ IsMap(map) /\ IsMap(Nothing)
    BY DEF MemoTypeOK, IsMap, Nothing
  <2> USE DEF Places
  <2>1. CASE Loop(s)
    <3>1. /\ saver'[s].at \in {"taking", "releasing"} /\ saver'[s].body = saver[s].body
          /\ \A t \in Saver \ {s} : saver'[t] = saver[t]
      BY <2>0, <2>1, SaverMoves DEF Loop
    <3> QED BY <2>1, <3>1 DEF Loop
  <2>2. CASE TakeMap(s)
    <3>1. /\ saver'[s].at = "writing"
          /\ \A t \in Saver \ {s} : saver'[t] = saver[t]
      BY <2>0, <2>2, SaverMoves DEF TakeMap
    <3> QED BY <2>2, <3>1 DEF TakeMap
  <2>3. CASE Write(s)
    <3>1. /\ saver'[s].at = "looping" /\ saver'[s].body = Nothing
          /\ \A t \in Saver \ {s} : saver'[t] = saver[t]
      BY <2>0, <2>3, SaverMoves DEF Write
    <3> QED BY <2>3, <3>1 DEF Write
  <2>4. CASE Release(s)
    <3>1. /\ saver'[s].at = "looking" /\ saver'[s].body = saver[s].body
          /\ \A t \in Saver \ {s} : saver'[t] = saver[t]
      BY <2>0, <2>4, SaverMoves DEF Release
    <3> QED BY <2>4, <3>1 DEF Release
  <2>5. CASE Look(s)
    <3>1. /\ saver'[s].at \in {"claiming", "ended"} /\ saver'[s].body = saver[s].body
          /\ \A t \in Saver \ {s} : saver'[t] = saver[t]
      BY <2>0, <2>5, SaverMoves DEF Look
    <3> QED BY <2>5, <3>1 DEF Look
  <2>6. CASE Claim(s)
    <3>1. /\ saver'[s].at = (IF saving THEN "ended" ELSE "looping") /\ saver'[s].body = saver[s].body
          /\ \A t \in Saver \ {s} : saver'[t] = saver[t]
      BY <2>0, <2>6, SaverMoves DEF Claim
    <3> QED BY <2>6, <3>1 DEF Claim
  <2> QED BY <1>4, <2>1, <2>2, <2>3, <2>4, <2>5, <2>6 DEF SaverStep
<1>5. ASSUME ReadBack PROVE OneSaver' /\ SavingKept'
  BY <1>5 DEF ReadBack, Ended
<1>6. CASE UNCHANGED memoVars
  BY <1>1, <1>6 DEF memoVars
<1>7. ASSUME NEW k \in Key, Use(k) \/ \E p \in Putter : Put(p, k)
      PROVE  OneSaver' /\ SavingKept'
  BY <1>1, <1>7 DEF Use, Put, saveVars
<1>8. ASSUME NEW p \in Putter, Mark(p) PROVE OneSaver' /\ SavingKept'
  BY <1>1, <1>8 DEF Mark
<1> QED BY <1>2, <1>3, <1>4, <1>5, <1>6, <1>7, <1>8 DEF MemoNext

(* Who leaves the map dirty leaves somebody to see it; who takes it writes   *)
(* what there was then, or somebody marks it again.                         *)
LEMMA WriteOwedStep == MemoIInv /\ [MemoNext]_memoVars => WriteOwed'
<1> SUFFICES ASSUME MemoIInv, [MemoNext]_memoVars, library' PROVE WriteOwed'
  BY DEF WriteOwed
<1> USE DEF MemoIInv
<1>0. library
  BY DEF MemoNext, Use, Put, Mark, Start, SaverStep, Loop, TakeMap, Write, Release, Look, Claim,
         ReadBack, memoVars
<1>1. ASSUME UNCHANGED <<saver, dirty, lost, file>>, VectorsOf(map') = VectorsOf(map),
             UNCHANGED putter
      PROVE  WriteOwed'
  <2>1. Owed => Owed'
    BY <1>1 DEF Owed
  <2>2. VectorsOf(file') = VectorsOf(file)
    BY <1>1
  <2>3. \A s \in Saver : saver'[s] = saver[s] /\ VectorsOf(saver'[s].body) = VectorsOf(saver[s].body)
    BY <1>1
  <2> QED BY <1>0, <1>1, <2>1, <2>2, <2>3 DEF WriteOwed
<1>2. ASSUME NEW k \in Key, Use(k) PROVE WriteOwed'
  BY <1>0, <1>1, <1>2, UseKeepsVectors DEF Use, saveVars
<1>3. ASSUME NEW p \in Putter, NEW k \in Key, Put(p, k) PROVE WriteOwed'
  <2>1. putter'[p] = "marking"
    BY <1>0, <1>3 DEF Put, MemoTypeOK
  <2> QED BY <2>1 DEF WriteOwed, Owed
<1>4. ASSUME NEW p \in Putter, Mark(p) PROVE WriteOwed'
  <2>1. putter'[p] = "starting" /\ dirty'
    BY <1>4 DEF Mark, MemoTypeOK
  <2> QED BY <2>1 DEF WriteOwed, Owed
<1>5. ASSUME NEW p \in Putter, Start(p) PROVE WriteOwed'
  <2>1. \A q \in Putter \ {p} : putter'[q] = putter[q]
    BY <1>5 DEF Start, MemoTypeOK
  <2>2. \E s \in Saver : saver'[s].at # "ended"
    <3>1. CASE saving
      BY <1>5, <3>1 DEF Start, SavingKept, Saves
    <3>2. CASE ~ saving
      BY <1>5, <3>2 DEF Start, MemoTypeOK
    <3> QED BY <3>1, <3>2 DEF MemoTypeOK
  <2>3. Owed => Owed'
    BY <1>5, <2>1, <2>2 DEF Owed, Start
  <2>4. \A s \in Saver : saver'[s] # saver[s] => saver[s].at = "ended" /\ saver'[s].at = "looping"
    <3>1. ASSUME NEW t \in Saver, saver[t] = Ended, Goto(t, "looping"), NEW s \in Saver, saver'[s] # saver[s]
          PROVE  saver[s].at = "ended" /\ saver'[s].at = "looping"
      <4>1. IsMap(saver[t].body) /\ "looping" \in Places
        BY DEF MemoTypeOK, Places
      <4> QED BY <3>1, <4>1, SaverMoves DEF Ended
    <3> QED BY <1>5, <3>1 DEF Start, Goto
  <2>5. UNCHANGED <<map, file, lost>>
    BY <1>5 DEF Start
  <2> QED BY <1>0, <2>3, <2>4, <2>5 DEF WriteOwed, VectorsOf
<1>6. ASSUME NEW s \in Saver, SaverStep(s) PROVE WriteOwed'
  <2>0. IsMap(saver[s].body) /\ IsMap(map) /\ IsMap(Nothing)
    BY DEF MemoTypeOK, IsMap, Nothing
  <2>1. UNCHANGED <<map, putter>>
    BY <1>6 DEF SaverStep, Loop, TakeMap, Write, Release, Look, Claim
  <2> USE DEF Places
  <2>2. CASE Loop(s)
    <3>1. /\ saver'[s].at = (IF dirty THEN "taking" ELSE "releasing")
          /\ \A t \in Saver \ {s} : saver'[t] = saver[t]
      BY <2>0, <2>2, SaverMoves DEF Loop
    <3>2. \A t \in Saver : saver'[t].at \notin {"writing"}
      BY <2>2, <3>1 DEF OneSaver, Saves, Loop
    <3>3. CASE dirty
      BY <3>1, <3>2, <3>3 DEF WriteOwed
    <3>4. CASE ~ dirty
      BY <1>0, <2>1, <2>2, <3>1, <3>2, <3>4 DEF WriteOwed, Owed, Loop, VectorsOf
    <3> QED BY <3>3, <3>4 DEF MemoTypeOK
  <2>3. CASE TakeMap(s)
    <3>1. /\ saver'[s].at = "writing" /\ saver'[s].body = map
          /\ \A t \in Saver \ {s} : saver'[t] = saver[t]
      BY <2>0, <2>3, SaverMoves DEF TakeMap
    <3>2. \A t \in Saver \ {s} : saver'[t].at # "writing"
      BY <2>3, <3>1 DEF OneSaver, Saves, TakeMap
    <3> QED BY <2>1, <3>1, <3>2 DEF WriteOwed, VectorsOf
  <2>4. CASE Write(s)
    <3>1. /\ saver'[s].at = "looping" /\ \A t \in Saver \ {s} : saver'[t] = saver[t]
      BY <2>0, <2>4, SaverMoves DEF Write
    <3>2. \A t \in Saver : saver'[t].at # "writing"
      BY <2>4, <3>1 DEF OneSaver, Saves, Write
    <3>3. Owed => Owed'
      BY <2>1, <2>4, <3>1 DEF Owed, Write
    <3>4. lost' \/ file' = saver[s].body
      BY <2>4 DEF Write
    <3>5. VectorsOf(saver[s].body) = VectorsOf(map) \/ Owed
      BY <1>0, <2>4 DEF WriteOwed, Write
    <3> QED BY <2>1, <3>2, <3>3, <3>4, <3>5 DEF WriteOwed, VectorsOf
  <2>5. ASSUME NEW place \in {"looking", "claiming", "looping", "ended"}, Goto(s, place),
               saver[s].at \in {"releasing", "looking", "claiming"}, UNCHANGED <<dirty, lost, file>>,
               dirty /\ place = "ended" => \E t \in Saver \ {s} : Saves(t)
        PROVE  WriteOwed'
    <3>1. /\ saver'[s].at = place /\ \A t \in Saver \ {s} : saver'[t] = saver[t]
      BY <2>0, <2>5, SaverMoves
    <3>2. Owed => Owed'
      BY <2>1, <2>5, <3>1 DEF Owed, Saves
    <3>3. \A t \in Saver : saver[t].at = "writing" <=> saver'[t].at = "writing"
      BY <2>5, <3>1
    <3>4. \A t \in Saver : saver[t].at \in {"taking", "writing"} => saver'[t].at \in {"taking", "writing"}
      BY <2>5, <3>1
    <3>5. \A t \in Saver : saver'[t].at = "writing" => saver'[t] = saver[t]
      BY <2>5, <3>1
    <3> QED BY <1>0, <2>1, <2>5, <3>2, <3>3, <3>4, <3>5 DEF WriteOwed, VectorsOf
  <2>6. CASE Release(s)
    BY <2>5, <2>6 DEF Release
  <2>7. CASE Look(s)
    BY <2>5, <2>7 DEF Look
  <2>8. CASE Claim(s)
    <3>1. saving => \E t \in Saver \ {s} : Saves(t)
      BY <2>8 DEF Claim, SavingKept, Saves
    <3> QED BY <2>5, <2>8, <3>1 DEF Claim
  <2> QED BY <1>6, <2>2, <2>3, <2>4, <2>6, <2>7, <2>8 DEF SaverStep
<1>7. ASSUME ReadBack PROVE WriteOwed'
  BY <1>7 DEF ReadBack, WriteOwed, Ended, VectorsOf
<1>8. CASE UNCHANGED memoVars
  BY <1>1, <1>8 DEF memoVars, VectorsOf
<1> QED BY <1>2, <1>3, <1>4, <1>5, <1>6, <1>7, <1>8 DEF MemoNext

LEMMA MemoIInvImplies == MemoIInv => MemoInv
<1> SUFFICES ASSUME MemoIInv, library, \A p \in Putter : putter[p] = "idle",
                    \A s \in Saver : saver[s] = Ended
             PROVE  lost \/ VectorsOf(file) = VectorsOf(map)
  BY DEF MemoIInv, MemoInv, AllSaved
<1>1. \A s \in Saver : saver[s].at = "ended"
  BY DEF Ended
<1> QED BY <1>1 DEF MemoIInv, WriteOwed, Owed

(* "Library vectors survive deploys": for every set of puts and of threads,  *)
(* one thread at a time writes the file, and once nobody saves or is about  *)
(* to, no vector is left out of it unless the last write failed.            *)
THEOREM NoVectorLeftOut == MemoSpec => []MemoInv
<1>1. MemoIInv /\ [MemoNext]_memoVars => MemoIInv'
  BY MemoTypeStep, OneSaverStep, WriteOwedStep DEF MemoIInv
<1> QED BY MemoInitIInv, <1>1, MemoIInvImplies, PTL DEF MemoSpec

-----------------------------------------------------------------------------
(* UpstreamBackoff.                                                        *)

LEMMA Powers == \A n \in 0..16 : 2 ^ n \in Nat
<1> SUFFICES ASSUME NEW n \in 0..16 PROVE 2 ^ n \in Nat
  OBVIOUS
<1> DEFINE powers == {2^0, 2^1, 2^2, 2^3, 2^4, 2^5, 2^6, 2^7, 2^8,
                      2^9, 2^10, 2^11, 2^12, 2^13, 2^14, 2^15, 2^16}
<1> HIDE DEF powers
<1>1. n \in {0, 1, 2, 3, 4, 5, 6, 7, 8, 9, 10, 11, 12, 13, 14, 15, 16}
  OBVIOUS
<1>2. 2^n \in powers
  BY <1>1, Zenon DEF powers
<1>3. powers \subseteq Nat
  BY DEF powers
<1> QED BY <1>2, <1>3, Zenon

(* However often it was refused, and whatever is asked for. *)
LEMMA PausesBounded ==
    \A n \in Nat : \A pause \in Pauses(n) : pause \in Nat /\ pause <= Longest
<1> SUFFICES ASSUME NEW n \in Nat, NEW pause \in Pauses(n)
             PROVE  pause \in Nat /\ pause <= Longest
  OBVIOUS
<1> USE BackoffAssumption DEF Smaller, Larger, Longest
<1>1. CASE \E asked \in RetryAfters : pause = Smaller(asked, Day)
  BY <1>1
<1>2. CASE \E jitter \in 0..(Larger(Doubled(n) \div 4, 1) - 1) : pause = Doubled(n) + jitter
  <2>1. 2 ^ Smaller(n, 16) \in Nat
    <3>1. Smaller(n, 16) \in 0..16
      OBVIOUS
    <3> HIDE DEF Smaller
    <3> QED BY <3>1, Powers, Zenon
  <2>2. Base * 2 ^ Smaller(n, 16) \in Nat
    <3> DEFINE power == 2 ^ Smaller(n, 16)
    <3> HIDE DEF power
    <3>1. power \in Nat
      BY <2>1 DEF power
    <3>2. Base * power \in Nat
      BY <3>1
    <3> QED BY <3>2 DEF power
  <2>3. Doubled(n) \in Nat /\ Doubled(n) <= MaxPause
    BY <2>2 DEF Doubled
  <2>4. Doubled(n) \div 4 \in Nat /\ Doubled(n) \div 4 <= MaxPause \div 4 /\ MaxPause \div 4 \in Nat
    BY <2>3
  <2>5. PICK jitter \in 0..(Larger(Doubled(n) \div 4, 1) - 1) : pause = Doubled(n) + jitter
    BY <1>2
  <2>6. jitter \in Nat /\ (jitter <= Doubled(n) \div 4)
    BY <2>4, <2>5
  <2>7. pause \in Nat /\ pause <= MaxPause + MaxPause \div 4
    BY <2>3, <2>4, <2>5, <2>6
  <2> QED BY <2>4, <2>7
<1> QED BY <1>1, <1>2 DEF Pauses

LEMMA LongestIsNat == Longest \in Nat /\ Longest >= 1
BY BackoffAssumption DEF Longest, Larger

LEMMA BackoffInitIInv == BackoffInit => BackoffIInv
BY BackoffAssumption, LongestIsNat DEF BackoffInit, BackoffIInv, BackoffTypeOK, PauseBounded, Off

LEMMA BackoffStep == BackoffIInv /\ [BackoffNext]_backoffVars => BackoffIInv'
<1> SUFFICES ASSUME BackoffIInv, [BackoffNext]_backoffVars PROVE BackoffIInv'
  OBVIOUS
<1> USE BackoffAssumption, LongestIsNat
    DEF BackoffIInv, BackoffTypeOK, PauseBounded, Off
<1>1. ASSUME NEW c \in Call, Ask(c) PROVE BackoffIInv'
  BY <1>1 DEF Ask
<1>2. ASSUME NEW c \in Call, Neither(c) PROVE BackoffIInv'
  BY <1>2 DEF Neither
<1>3. ASSUME NEW c \in Call, Refuse(c) PROVE BackoffIInv'
  <2>1. PICK pause \in Pauses(refusals) : call' = [call EXCEPT ![c] = [at |-> "pausing", pause |-> pause]]
    BY <1>3 DEF Refuse
  <2>2. pause \in Nat /\ pause <= Longest
    BY PausesBounded
  <2> QED BY <1>3, <2>1, <2>2 DEF Refuse
<1>4. ASSUME NEW c \in Call, Pause(c) PROVE BackoffIInv'
  <2>1. call[c].pause \in Nat /\ call[c].pause <= Longest
    OBVIOUS
  <2>2. until' \in Nat /\ promised' \in Nat /\ until' <= now + Longest /\ promised' <= until'
    BY <1>4, <2>1 DEF Pause, Larger
  <2> QED BY <1>4, <2>2 DEF Pause
<1>5. ASSUME NEW c \in Call, Answer(c) PROVE BackoffIInv'
  BY <1>5 DEF Answer
<1>6. ASSUME NEW c \in Call, Clear(c) PROVE BackoffIInv'
  BY <1>6 DEF Clear
<1>7. ASSUME ClockTicks PROVE BackoffIInv'
  BY <1>7 DEF ClockTicks
<1>8. CASE UNCHANGED backoffVars
  BY <1>8 DEF backoffVars
<1> QED BY <1>1, <1>2, <1>3, <1>4, <1>5, <1>6, <1>7, <1>8 DEF BackoffNext

(* "A rate-limited upstream is waited out once": for every set of calls and  *)
(* every base, most and Retry-After, no pause lasts longer than the code     *)
(* says, and no call asks before the furthest one started since the last    *)
(* answer is over.                                                         *)
THEOREM PausesAreWaitedOut == BackoffSpec => WaitedOut
<1>1. BackoffIInv /\ [BackoffNext]_backoffVars =>
         [PauseBounded' /\ \A c \in Call :
             call[c].at = "off" /\ call'[c].at = "asked" => promised <= now]_backoffVars
  <2> SUFFICES ASSUME BackoffIInv, BackoffNext
               PROVE  PauseBounded' /\ \A c \in Call :
                        call[c].at = "off" /\ call'[c].at = "asked" => promised <= now
    BY DEF backoffVars
  <2>1. PauseBounded'
    BY BackoffStep DEF BackoffIInv
  <2>2. ASSUME NEW c \in Call, call[c].at = "off", call'[c].at = "asked" PROVE promised <= now
    <3>1. PICK d \in Call : Ask(d) \/ Neither(d) \/ Refuse(d) \/ Pause(d) \/ Answer(d) \/ Clear(d)
      BY <2>2 DEF BackoffNext, ClockTicks
    <3>2. Ask(d)
      BY <2>2, <3>1 DEF Neither, Refuse, Pause, Answer, Clear, Off, BackoffIInv, BackoffTypeOK
    <3> QED BY <3>2, BackoffAssumption DEF Ask, BackoffIInv, BackoffTypeOK
  <2> QED BY <2>1, <2>2
<1> QED BY BackoffInitIInv, BackoffStep, <1>1, PTL DEF BackoffSpec, WaitedOut

-----------------------------------------------------------------------------
(* MaturityFacts.                                                          *)

LEMMA NoEntriesTyped == NoEntries \in Entries /\ Zeroes \in Cursors /\ Zeroes \in Spendings
BY MaturityAssumption DEF NoEntries, NoEntry, Zeroes, Entries, Cursors, Spendings

LEMMA FactsTyped == \A cached \in Entries : Facts(cached) \in Told
BY DEF Facts, Entries, Told

LEMMA MaturityInitIInv == MaturityInit => MaturityIInv
<1> SUFFICES ASSUME MaturityInit PROVE MaturityIInv
  OBVIOUS
<1> USE DEF MaturityInit
<1>1. KeptTypeOK
  BY NoEntriesTyped DEF KeptTypeOK, Zeroes
<1>2. ShownTypeOK
  BY NoEntriesTyped, FactsTyped DEF ShownTypeOK
<1>3. RefreshTypeOK
  BY MaturityAssumption DEF RefreshTypeOK
<1>4. FlagsTypeOK
  BY DEF FlagsTypeOK
<1>5. Numbered /\ MemoTrue
  BY DEF Numbered, MemoTrue
<1>6. ShownOrAltered /\ CheckedBehind /\ ChargesFiled
  BY DEF ShownOrAltered, CheckedBehind, ChargesFiled
<1> QED BY <1>1, <1>2, <1>3, <1>4, <1>5, <1>6 DEF MaturityIInv, MaturityTypeOK

LEMMA WrapsAround ==
    ASSUME NEW c \in Nat \ {0}, NEW n \in 0..(c - 1)
    PROVE  (n + 1) % c = IF n + 1 = c THEN 0 ELSE n + 1
<1>1. CASE n + 1 = c
  <2>1. c % c = 0
    OBVIOUS
  <2> QED BY <1>1, <2>1
<1>2. CASE n + 1 # c
  <2>1. n + 1 \in Nat /\ n + 1 < c
    BY <1>2
  <2>2. \A m \in Nat : m < c => m % c = m
    OBVIOUS
  <2> QED BY <1>2, <2>1, <2>2
<1> QED BY <1>1, <1>2

(* What a refresh that looks at a title knows of where it is. *)
LEMMA HereIsATitle ==
    ASSUME MaturityTypeOK, Looking
    PROVE  /\ turn \in Authority /\ Here \in Titles /\ cursor[turn] \in 0..(Catalog - 1)
           /\ Advanced \in Cursors /\ visited + 1 \in 0..Catalog
           /\ Advanced[turn] = IF Here = Catalog THEN 0 ELSE Here
<1> USE MaturityAssumption
    DEF MaturityTypeOK, KeptTypeOK, RefreshTypeOK, Looking, Here, Titles, Cursors
<1>1. turn \in Authority /\ cursor[turn] \in 0..(Catalog - 1) /\ Catalog \in Nat \ {0}
  OBVIOUS
<1>2. (cursor[turn] + 1) % Catalog = IF Here = Catalog THEN 0 ELSE Here
  BY <1>1, WrapsAround DEF Here
<1>3. Here \in Titles /\ (IF Here = Catalog THEN 0 ELSE Here) \in 0..(Catalog - 1)
  BY <1>1
<1>4. Advanced \in Cursors /\ Advanced[turn] = IF Here = Catalog THEN 0 ELSE Here
  BY <1>1, <1>2, <1>3 DEF Advanced
<1>5. visited + 1 \in 0..Catalog
  BY <1>1
<1> QED BY <1>1, <1>3, <1>4, <1>5

LEMMA KeptTypeStep == MaturityTypeOK /\ [MaturityNext]_maturityVars => KeptTypeOK'
<1> SUFFICES ASSUME MaturityTypeOK, [MaturityNext]_maturityVars PROVE KeptTypeOK'
  OBVIOUS
<1> USE MaturityAssumption DEF stateVars, MaturityTypeOK
<1>1. ASSUME UNCHANGED <<entries, cursor, spent, spent_on, facts_file>> PROVE KeptTypeOK'
  BY <1>1 DEF KeptTypeOK
<1>2. ASSUME Begin PROVE KeptTypeOK'
  <2>1. spent' \in Spendings
    BY <1>2 DEF Begin, KeptTypeOK, Spendings
  <2>2. spent_on' \in [Authority -> Nat]
    BY <1>2 DEF Begin, KeptTypeOK, RefreshTypeOK
  <2> QED BY <1>2, <2>1, <2>2 DEF Begin, KeptTypeOK
<1>3. ASSUME Pass PROVE KeptTypeOK'
  BY <1>3, HereIsATitle DEF Pass, KeptTypeOK
<1>4. ASSUME Complete PROVE KeptTypeOK'
  <2>1. turn \in Authority /\ Here \in Titles /\ Advanced \in Cursors
    BY <1>4, HereIsATitle DEF Complete
  <2>2. PICK told \in Rating \cup {Unrated} :
          entries' = [entries EXCEPT ![turn][Here] = [checked_at |-> today, ratings |-> told]]
    BY <1>4 DEF Complete
  <2>3. entries' \in Entries
    BY <2>1, <2>2 DEF KeptTypeOK, RefreshTypeOK, Entries
  <2> QED BY <1>4, <2>1, <2>3 DEF Complete, KeptTypeOK
<1>5. ASSUME NEW rest \in 0..left, Finish(rest) PROVE KeptTypeOK'
  <2>1. DailyBudget - rest \in 0..DailyBudget
    BY DEF RefreshTypeOK
  <2>2. spent' \in Spendings
    BY <1>5, <2>1 DEF Finish, KeptTypeOK, Spendings
  <2> QED BY <1>5, <2>2 DEF Finish, KeptTypeOK
<1>6. ASSUME Persist PROVE KeptTypeOK'
  BY <1>6 DEF Persist, Saved, KeptTypeOK
<1>7. ASSUME StartsOver PROVE KeptTypeOK'
  BY <1>7 DEF StartsOver, KeptTypeOK
<1>8. ASSUME NextRound \/ \E r \in Reader : Read(r) \/ Admit(r) PROVE KeptTypeOK'
  BY <1>1, <1>8 DEF NextRound, Read, Admit
<1>9. CASE UNCHANGED maturityVars
  BY <1>1, <1>9 DEF maturityVars
<1>10. (Finished \/ Stops) => \E rest \in 0..left : Finish(rest)
  BY DEF Finished, Stops, RefreshTypeOK
<1> QED BY <1>2, <1>3, <1>4, <1>5, <1>6, <1>7, <1>8, <1>9, <1>10 DEF MaturityNext

LEMMA ShownTypeStep == MaturityTypeOK /\ [MaturityNext]_maturityVars => ShownTypeOK'
<1> SUFFICES ASSUME MaturityTypeOK, [MaturityNext]_maturityVars PROVE ShownTypeOK'
  OBVIOUS
<1> USE DEF readVars, MaturityTypeOK
<1>1. ASSUME UNCHANGED <<view, published, memo, snapshot>> PROVE ShownTypeOK'
  BY <1>1 DEF ShownTypeOK
<1>2. ASSUME NEW rest, Finish(rest), altered PROVE ShownTypeOK'
  <2>1. Facts(entries) \in Told
    BY FactsTyped DEF KeptTypeOK
  <2>2. view' \in [generation : Nat, facts : Told] /\ view'.facts = Facts(entries)
    BY <1>2, <2>1 DEF Finish, ShownTypeOK
  <2>3. published' \in Seq(Told)
    BY <1>2, <2>1, <2>2 DEF Finish, ShownTypeOK
  <2> QED BY <1>2, <2>2, <2>3 DEF Finish, ShownTypeOK
<1>3. ASSUME NEW rest, Finish(rest), ~ altered PROVE ShownTypeOK'
  BY <1>1, <1>3 DEF Finish
<1>4. ASSUME StartsOver PROVE ShownTypeOK'
  <2>1. Facts(facts_file.entries) \in Told
    BY FactsTyped DEF KeptTypeOK
  <2>2. view' \in [generation : Nat, facts : Told] /\ published' \in Seq(Told)
    BY <1>4, <2>1 DEF StartsOver
  <2> QED BY <1>4, <2>2 DEF StartsOver, ShownTypeOK
<1>5. ASSUME NEW r \in Reader, Read(r) PROVE ShownTypeOK'
  BY <1>5 DEF Read, ShownTypeOK
<1>6. ASSUME NEW r \in Reader, Admit(r) PROVE ShownTypeOK'
  BY <1>6 DEF Admit, Kept, ShownTypeOK
<1>7. ASSUME NextRound \/ Begin \/ Pass \/ Complete \/ Persist PROVE ShownTypeOK'
  BY <1>1, <1>7 DEF NextRound, Begin, Pass, Complete, Persist
<1>8. CASE UNCHANGED maturityVars
  BY <1>1, <1>8 DEF maturityVars
<1> QED BY <1>2, <1>3, <1>4, <1>5, <1>6, <1>7, <1>8 DEF MaturityNext, Finished, Stops

LEMMA FlagsTypeStep == MaturityTypeOK /\ [MaturityNext]_maturityVars => FlagsTypeOK'
<1> SUFFICES ASSUME MaturityTypeOK, [MaturityNext]_maturityVars PROVE FlagsTypeOK'
  OBVIOUS
<1>0. unsaved \in BOOLEAN /\ started \in BOOLEAN /\ altered \in BOOLEAN
  BY DEF MaturityTypeOK, FlagsTypeOK
<1>1. ASSUME NEW rest, Finish(rest) PROVE FlagsTypeOK'
  BY <1>0, <1>1, Zenon DEF Finish, FlagsTypeOK
<1>2. ASSUME Complete PROVE FlagsTypeOK'
  BY <1>0, <1>2, Zenon DEF Complete, FlagsTypeOK
<1>3. ASSUME NextRound \/ Begin \/ Pass \/ Persist \/ StartsOver \/ \E r \in Reader : Read(r) \/ Admit(r)
      PROVE  FlagsTypeOK'
  BY <1>0, <1>3 DEF NextRound, Begin, Pass, Persist, StartsOver, Read, Admit, refreshVars, FlagsTypeOK
<1>4. CASE UNCHANGED maturityVars
  BY <1>0, <1>4 DEF maturityVars, refreshVars, FlagsTypeOK
<1> QED BY <1>1, <1>2, <1>3, <1>4 DEF MaturityNext, Finished, Stops

LEMMA RefreshTypeStep == MaturityTypeOK /\ [MaturityNext]_maturityVars => RefreshTypeOK'
<1> SUFFICES ASSUME MaturityTypeOK, [MaturityNext]_maturityVars PROVE RefreshTypeOK'
  OBVIOUS
<1> USE MaturityAssumption DEF refreshVars, MaturityTypeOK
<1>1. ASSUME UNCHANGED <<started, turn, visited, left, today>> PROVE RefreshTypeOK'
  BY <1>1 DEF RefreshTypeOK
<1>2. Authority = 1..Len(Authorities) /\ Len(Authorities) \in Nat
  BY DEF Authority
<1>3. ASSUME NextRound PROVE RefreshTypeOK'
  <2>1. ~ started /\ turn = 0
    BY <1>2, <1>3 DEF NextRound, RefreshTypeOK
  <2>2. today' \in Nat \ {0} /\ turn' = 1
    BY <1>3 DEF NextRound, RefreshTypeOK
  <2> QED BY <1>3, <2>1, <2>2 DEF NextRound, RefreshTypeOK
<1>4. ASSUME Begin PROVE RefreshTypeOK'
  <2>1. spent'[turn] \in 0..DailyBudget
    BY <1>4 DEF Begin, KeptTypeOK, Spendings
  <2>2. left' \in 0..DailyBudget
    BY <1>4, <2>1 DEF Begin
  <2> QED BY <1>4, <2>2 DEF Begin, RefreshTypeOK
<1>5. ASSUME Pass \/ Complete PROVE RefreshTypeOK'
  <2>1. visited + 1 \in 0..Catalog
    BY <1>5, HereIsATitle DEF Pass, Complete
  <2>2. left' \in 0..DailyBudget
    BY <1>5 DEF Pass, Complete, RefreshTypeOK
  <2> QED BY <1>5, <2>1, <2>2 DEF Pass, Complete, RefreshTypeOK
<1>6. ASSUME NEW rest, Finish(rest) PROVE RefreshTypeOK'
  BY <1>6 DEF Finish, RefreshTypeOK
<1>7. ASSUME Persist PROVE RefreshTypeOK'
  BY <1>2, <1>7 DEF Persist, RefreshTypeOK
<1>8. ASSUME StartsOver PROVE RefreshTypeOK'
  BY <1>8 DEF StartsOver, RefreshTypeOK
<1>9. ASSUME \E r \in Reader : Read(r) \/ Admit(r) PROVE RefreshTypeOK'
  BY <1>1, <1>9 DEF Read, Admit
<1>10. CASE UNCHANGED maturityVars
  BY <1>1, <1>10 DEF maturityVars
<1> QED BY <1>3, <1>4, <1>5, <1>6, <1>7, <1>8, <1>9, <1>10 DEF MaturityNext, Finished, Stops

(* Generations are numbered from the first, and keep what they said. *)
LEMMA NumberedStep == MaturityIInv /\ [MaturityNext]_maturityVars => Numbered' /\ MemoTrue'
<1> SUFFICES ASSUME MaturityIInv, [MaturityNext]_maturityVars PROVE Numbered' /\ MemoTrue'
  OBVIOUS
<1> USE DEF MaturityIInv
<1>1. ASSUME UNCHANGED <<view, published, memo, snapshot>> PROVE Numbered' /\ MemoTrue'
  BY <1>1 DEF Numbered, MemoTrue
<1>2. ASSUME NEW rest, Finish(rest), altered PROVE Numbered' /\ MemoTrue'
  <2>1. published \in Seq(Told) /\ view'.facts \in Told
    BY <1>2, FactsTyped DEF Finish, MaturityTypeOK, KeptTypeOK, ShownTypeOK
  <2>2. published' = Append(published, view'.facts) /\ view'.generation = view.generation + 1
    BY <1>2 DEF Finish
  <2>3. /\ Len(published') = Len(published) + 1 /\ DOMAIN published' = 1..(Len(published) + 1)
        /\ published'[Len(published) + 1] = view'.facts
        /\ DOMAIN published = 1..Len(published) /\ Len(published) \in Nat
        /\ \A g \in DOMAIN published : published'[g] = published[g]
    BY <2>1, <2>2
  <2>4. UNCHANGED <<memo, snapshot>>
    BY <1>2 DEF Finish, readVars
  <2> QED BY <2>2, <2>3, <2>4 DEF Numbered, MemoTrue
<1>3. ASSUME NEW rest, Finish(rest), ~ altered PROVE Numbered' /\ MemoTrue'
  BY <1>1, <1>3 DEF Finish, readVars
<1>4. ASSUME StartsOver PROVE Numbered' /\ MemoTrue'
  BY <1>4 DEF StartsOver, Numbered, MemoTrue
<1>5. ASSUME NEW r \in Reader, Read(r) PROVE Numbered' /\ MemoTrue'
  <2>1. \A q \in Reader : snapshot'[q] = IF q = r THEN view ELSE snapshot[q]
    BY <1>5 DEF Read, MaturityTypeOK, ShownTypeOK
  <2> QED BY <1>5, <2>1 DEF Read, Numbered, MemoTrue
<1>6. ASSUME NEW r \in Reader, Admit(r) PROVE Numbered' /\ MemoTrue'
  <2>1. \A q \in Reader : snapshot'[q] = IF q = r THEN Unrated ELSE snapshot[q]
    BY <1>6 DEF Admit, MaturityTypeOK, ShownTypeOK
  <2>2. snapshot[r].generation \in DOMAIN published
        /\ snapshot[r].facts = published[snapshot[r].generation]
    BY <1>6 DEF Admit, Numbered
  <2>3. \A g \in 1..MaxGeneration :
          \/ memo'[g] \in {memo[g], Unrated}
          \/ g = snapshot[r].generation /\ memo'[g] = snapshot[r].facts
    BY <1>6 DEF Admit, Kept, MaturityTypeOK, ShownTypeOK
  <2> QED BY <1>6, <2>1, <2>2, <2>3 DEF Admit, Numbered, MemoTrue
<1>7. ASSUME NextRound \/ Begin \/ Pass \/ Complete \/ Persist PROVE Numbered' /\ MemoTrue'
  BY <1>1, <1>7 DEF NextRound, Begin, Pass, Complete, Persist, readVars
<1>8. CASE UNCHANGED maturityVars
  BY <1>1, <1>8 DEF maturityVars, readVars
<1> QED BY <1>2, <1>3, <1>4, <1>5, <1>6, <1>7, <1>8 DEF MaturityNext, Finished, Stops

(* Only an answer that differs changes what the view would show, and it      *)
(* makes the refresh publish.                                              *)
LEMMA ShownStep ==
    MaturityIInv /\ [MaturityNext]_maturityVars =>
        ShownOrAltered' /\ (facts_file.entries = entries \/ unsaved)'
<1> DEFINE FileKept == facts_file.entries = entries \/ unsaved
<1> SUFFICES ASSUME MaturityIInv, [MaturityNext]_maturityVars PROVE ShownOrAltered' /\ FileKept'
  OBVIOUS
<1>0. /\ altered => started
      /\ altered \/ view.facts = Facts(entries)
      /\ FileKept
  BY DEF MaturityIInv, ShownOrAltered
<1>1. ASSUME UNCHANGED <<entries, view, unsaved, facts_file, started, altered>>
      PROVE  ShownOrAltered' /\ FileKept'
  BY <1>0, <1>1 DEF ShownOrAltered, Facts
<1>2. ASSUME Begin PROVE ShownOrAltered' /\ FileKept'
  <2>1. ~ altered /\ ~ altered' /\ UNCHANGED <<entries, view, unsaved, facts_file>>
    BY <1>0, <1>2 DEF Begin
  <2>2. view.facts = Facts(entries)
    BY <1>0, <2>1
  <2> QED BY <1>0, <2>1, <2>2 DEF ShownOrAltered, Facts
<1>3. ASSUME Complete PROVE ShownOrAltered' /\ FileKept'
  <2>1. turn \in Authority /\ Here \in Titles
    BY <1>3, HereIsATitle DEF Complete, MaturityIInv
  <2>2. PICK told \in Rating \cup {Unrated} :
          /\ entries' = [entries EXCEPT ![turn][Here] = [checked_at |-> today, ratings |-> told]]
          /\ altered' = (altered \/ entries[turn][Here].checked_at = 0
                                 \/ entries[turn][Here].ratings # told)
    BY <1>3 DEF Complete
  <2>3. entries \in Entries
    BY DEF MaturityIInv, MaturityTypeOK, KeptTypeOK
  <2>4. CASE altered'
    BY <1>3, <2>4 DEF ShownOrAltered, Complete, Looking
  <2>5. CASE ~ altered'
    <3>1. ~ altered /\ entries[turn][Here].ratings = told
      BY <2>2, <2>5
    <3>2. \A a \in Authority : \A t \in Titles : entries'[a][t].ratings = entries[a][t].ratings
      BY <2>1, <2>2, <2>3, <3>1 DEF Entries
    <3>3. Facts(entries') = Facts(entries)
      BY <3>2, Zenon DEF Facts
    <3>4. view.facts = Facts(entries) /\ view' = view
      BY <1>0, <1>3, <3>1 DEF Complete
    <3> QED BY <1>3, <2>5, <3>3, <3>4 DEF ShownOrAltered, Complete
  <2> QED BY <2>4, <2>5
<1>4. ASSUME NEW rest, Finish(rest) PROVE ShownOrAltered' /\ FileKept'
  <2>1. view'.facts = Facts(entries) /\ UNCHANGED <<entries, facts_file>> /\ ~ altered'
    BY <1>0, <1>4 DEF Finish
  <2>2. unsaved => unsaved'
    BY <1>4 DEF Finish
  <2> QED BY <1>0, <2>1, <2>2 DEF ShownOrAltered, Facts
<1>5. ASSUME Persist PROVE ShownOrAltered' /\ FileKept'
  <2>1. UNCHANGED <<entries, view, started, altered>>
    BY <1>5 DEF Persist, stateVars, refreshVars
  <2>2. FileKept'
    BY <1>0, <1>5, <2>1 DEF Persist, Saved
  <2> QED BY <1>0, <2>1, <2>2 DEF ShownOrAltered, Facts
<1>6. ASSUME StartsOver PROVE ShownOrAltered' /\ FileKept'
  BY <1>6 DEF StartsOver, ShownOrAltered, Facts
<1>7. ASSUME NextRound \/ Pass \/ \E r \in Reader : Read(r) \/ Admit(r)
      PROVE  ShownOrAltered' /\ FileKept'
  BY <1>1, <1>7 DEF NextRound, Pass, Read, Admit, stateVars, refreshVars
<1>8. CASE UNCHANGED maturityVars
  BY <1>1, <1>8 DEF maturityVars, stateVars, refreshVars
<1> QED BY <1>2, <1>3, <1>4, <1>5, <1>6, <1>7, <1>8 DEF MaturityNext, Finished, Stops

LEMMA BehindIsPositive ==
    ASSUME MaturityTypeOK, turn \in Authority, NEW t \in Titles
    PROVE  Behind(t) \in 1..Catalog
BY MaturityAssumption DEF Behind, MaturityTypeOK, KeptTypeOK, Cursors, Titles

(* Moving on, every title is one further behind, but the one left.          *)
LEMMA OneFurther ==
    ASSUME MaturityTypeOK, Looking, cursor' = Advanced, UNCHANGED turn, NEW t \in Titles
    PROVE  t = Here \/ Behind(t)' = Behind(t) + 1
<1>1. cursor[turn] \in 0..(Catalog - 1) /\ cursor'[turn] = (IF Here = Catalog THEN 0 ELSE Here)
  BY HereIsATitle
<1>2. cursor'[turn'] = IF cursor[turn] + 1 = Catalog THEN 0 ELSE cursor[turn] + 1
  BY <1>1 DEF Here
<1> QED BY <1>1, <1>2, MaturityAssumption DEF Behind, Here, Titles

(* A charge is made as a refresh ends, which makes the file be written; a day *)
(* begins with none.                                                       *)
LEMMA ChargesStep == MaturityIInv /\ [MaturityNext]_maturityVars => (ChargesFiled \/ unsaved)'
<1> DEFINE Filed == ChargesFiled \/ unsaved
<1> SUFFICES ASSUME MaturityIInv, [MaturityNext]_maturityVars PROVE Filed'
  OBVIOUS
<1>0. Filed /\ spent \in Spendings /\ spent_on \in [Authority -> Nat]
  BY DEF MaturityIInv, MaturityTypeOK, KeptTypeOK
<1>1. ASSUME UNCHANGED <<spent, spent_on, unsaved, facts_file>> PROVE Filed'
  BY <1>0, <1>1 DEF ChargesFiled
<1>2. ASSUME Begin PROVE Filed'
  <2>1. UNCHANGED <<unsaved, facts_file>>
    BY <1>2 DEF Begin
  <2>2. ASSUME NEW a \in Authority, spent'[a] # 0
        PROVE  spent'[a] = spent[a] /\ spent_on'[a] = spent_on[a]
    BY <1>0, <1>2, <2>2 DEF Begin, Spendings
  <2>3. CASE unsaved
    BY <2>1, <2>3
  <2>4. CASE ChargesFiled
    <3>1. ChargesFiled'
      BY <2>1, <2>2, <2>4 DEF ChargesFiled
    <3> QED BY <3>1
  <2> QED BY <1>0, <2>3, <2>4
<1>3. ASSUME Complete PROVE Filed'
  BY <1>3 DEF Complete
<1>4. ASSUME NEW rest, Finish(rest) PROVE Filed'
  <2>1. UNCHANGED <<spent_on, facts_file>> /\ (unsaved' <=> unsaved \/ spent'[turn] # spent[turn])
    BY <1>4 DEF Finish
  <2>2. CASE spent'[turn] # spent[turn]
    BY <2>1, <2>2
  <2>3. CASE spent'[turn] = spent[turn]
    <3>1. \A a \in Authority : spent'[a] = spent[a]
      BY <1>0, <1>4, <2>3 DEF Finish, Spendings
    <3> QED BY <1>0, <2>1, <3>1 DEF ChargesFiled
  <2> QED BY <2>2, <2>3
<1>5. ASSUME Persist PROVE Filed'
  <2>1. UNCHANGED <<spent, spent_on>>
    BY <1>5 DEF Persist, stateVars
  <2>2. CASE UNCHANGED <<unsaved, facts_file>>
    BY <1>1, <2>1, <2>2
  <2>3. CASE facts_file' = Saved
    BY <2>1, <2>3 DEF Saved, ChargesFiled
  <2> QED BY <1>5, <2>2, <2>3 DEF Persist
<1>6. ASSUME StartsOver PROVE Filed'
  BY <1>6 DEF StartsOver, ChargesFiled
<1>7. ASSUME (\E r \in Reader : Read(r) \/ Admit(r)) \/ UNCHANGED maturityVars PROVE Filed'
  BY <1>1, <1>7 DEF Read, Admit, maturityVars, stateVars
<1>8. ASSUME NextRound \/ Pass PROVE Filed'
  BY <1>1, <1>8 DEF NextRound, Pass, stateVars
<1> QED BY <1>2, <1>3, <1>4, <1>5, <1>6, <1>7, <1>8 DEF MaturityNext, Finished, Stops

LEMMA CheckedStep == MaturityIInv /\ [MaturityNext]_maturityVars => CheckedBehind'
<1> SUFFICES ASSUME MaturityIInv, [MaturityNext]_maturityVars PROVE CheckedBehind'
  OBVIOUS
<1> DEFINE Lately(t) == entries[turn][t].checked_at # 0
                        /\ entries[turn][t].checked_at + RefreshAfter > today
<1>0. /\ MaturityTypeOK
      /\ started => \A t \in Rates[turn] : Behind(t) <= visited => Lately(t)
      /\ \A a \in Authority : Rates[a] \subseteq Titles
      /\ today \in Nat \ {0} /\ visited \in Nat
  BY MaturityAssumption DEF MaturityIInv, CheckedBehind, MaturityTypeOK, RefreshTypeOK
<1>1. ASSUME UNCHANGED <<entries, cursor, turn, started, visited, today>> PROVE CheckedBehind'
  BY <1>0, <1>1 DEF CheckedBehind, Behind
<1>2. ASSUME ~ started' PROVE CheckedBehind'
  BY <1>2 DEF CheckedBehind
<1>3. ASSUME Begin PROVE CheckedBehind'
  <2>1. turn \in Authority /\ visited' = 0 /\ UNCHANGED <<cursor, turn>>
    BY <1>3 DEF Begin
  <2>2. \A t \in Rates[turn] : Behind(t)' >= 1
    BY <1>0, <2>1, BehindIsPositive DEF Behind
  <2>3. \A t \in Rates[turn] : Behind(t)' \in Int
    BY <1>0, <2>1, BehindIsPositive DEF Behind
  <2> QED BY <2>1, <2>2, <2>3 DEF CheckedBehind
<1>4. ASSUME Pass \/ Complete PROVE CheckedBehind'
  <2>1. /\ turn \in Authority /\ Looking /\ cursor' = Advanced /\ visited' = visited + 1
        /\ UNCHANGED <<turn, today>>
    BY <1>0, <1>4, HereIsATitle DEF Pass, Complete
  <2>2. ASSUME NEW t \in Rates[turn], t # Here, Behind(t)' <= visited' PROVE Lately(t)
    <3>1. t \in Titles /\ Behind(t) \in Nat
      BY <1>0, <2>1, BehindIsPositive
    <3>2. Behind(t)' = Behind(t) + 1
      BY <1>0, <2>1, <2>2, <3>1, OneFurther
    <3>3. Behind(t) <= visited
      BY <1>0, <2>1, <2>2, <3>1, <3>2
    <3> QED BY <1>0, <2>1, <3>3 DEF Looking
  <2>3. CASE Pass
    <3>1. ASSUME Here \in Rates[turn] PROVE Lately(Here)
      BY <2>3, <3>1 DEF Pass, PassedOver
    <3> QED BY <2>1, <2>2, <2>3, <3>1 DEF Pass, CheckedBehind
  <2>4. CASE Complete
    <3>1. PICK told : entries' = [entries EXCEPT ![turn][Here] = [checked_at |-> today, ratings |-> told]]
      BY <2>4 DEF Complete
    <3>2. entries \in Entries /\ Here \in Titles
      BY <1>0, <2>1, HereIsATitle DEF MaturityTypeOK, KeptTypeOK
    <3>3. /\ entries'[turn][Here].checked_at = today
          /\ \A t \in Titles \ {Here} : entries'[turn][t] = entries[turn][t]
      BY <2>1, <3>1, <3>2 DEF Entries
    <3>4. today # 0 /\ today + RefreshAfter > today
      BY <1>0, MaturityAssumption
    <3>5. ASSUME NEW t \in Rates[turn], Behind(t)' <= visited' PROVE Lately(t)'
      BY <1>0, <2>1, <2>2, <3>3, <3>4, <3>5
    <3> QED BY <2>1, <3>5 DEF CheckedBehind
  <2> QED BY <1>4, <2>3, <2>4
<1>5. ASSUME NextRound PROVE CheckedBehind'
  <2>1. ~ started
    BY <1>0, <1>5, MaturityAssumption DEF NextRound, MaturityTypeOK, RefreshTypeOK, Authority
  <2> QED BY <1>2, <1>5, <2>1 DEF NextRound, refreshVars
<1>6. ASSUME Persist PROVE CheckedBehind'
  <2>1. ~ started
    BY <1>0, <1>6, MaturityAssumption DEF Persist, MaturityTypeOK, RefreshTypeOK, Authority
  <2> QED BY <1>2, <1>6, <2>1 DEF Persist, refreshVars
<1>7. ASSUME (\E rest : Finish(rest)) \/ StartsOver PROVE CheckedBehind'
  BY <1>2, <1>7 DEF Finish, StartsOver
<1>8. ASSUME (\E r \in Reader : Read(r) \/ Admit(r)) \/ UNCHANGED maturityVars PROVE CheckedBehind'
  BY <1>1, <1>8 DEF Read, Admit, maturityVars, stateVars, refreshVars
<1> QED BY <1>3, <1>4, <1>5, <1>6, <1>7, <1>8 DEF MaturityNext, Finished, Stops

LEMMA MaturityIInvImplies == MaturityIInv => MaturityInv
<1> SUFFICES ASSUME MaturityIInv PROVE MaturityInv
  OBVIOUS
<1>1. MemoTrue /\ KeptOrDirty
  BY DEF MaturityIInv, KeptOrDirty
<1>2. AllPublished
  BY DEF MaturityIInv, ShownOrAltered, AllPublished
<1>3. RoundCovers
  <2> SUFFICES ASSUME started, visited = Catalog, NEW t \in Rates[turn]
               PROVE  entries[turn][t].checked_at # 0 /\ entries[turn][t].checked_at + RefreshAfter > today
    BY DEF RoundCovers
  <2>1. turn \in Authority /\ MaturityTypeOK
    BY DEF MaturityIInv, MaturityTypeOK, RefreshTypeOK
  <2>2. t \in Titles
    BY <2>1, MaturityAssumption
  <2>3. Behind(t) <= visited
    BY <2>1, <2>2, BehindIsPositive, MaturityAssumption
  <2> QED BY <2>3 DEF MaturityIInv, CheckedBehind
<1> QED BY <1>1, <1>2, <1>3 DEF MaturityInv

(* For every set of authorities, titles and requests, and however refreshes, *)
(* requests, writes and restarts interleave: what a request keeps under a    *)
(* generation is that generation's, every rating found is in the view        *)
(* between two refreshes and in the file or owed to it between two rounds,   *)
(* and a refresh that went all the way round left no title unchecked.       *)
THEOREM RatingsAreShown == MaturitySpec => []MaturityInv
<1>1. MaturityIInv /\ [MaturityNext]_maturityVars => MaturityIInv'
  BY KeptTypeStep, ShownTypeStep, FlagsTypeStep, RefreshTypeStep, NumberedStep, ShownStep, ChargesStep, CheckedStep
     DEF MaturityIInv, MaturityTypeOK
<1> QED BY MaturityInitIInv, <1>1, MaturityIInvImplies, PTL DEF MaturitySpec

-----------------------------------------------------------------------------

-----------------------------------------------------------------------------
(* TmdbRefresh.                                                            *)

LEMMA TmdbNumbers ==
    ASSUME TmdbAssumption
    PROVE  /\ LastDate \in Nat \ {0} /\ PageSize \in Nat \ {0} /\ PageCap \in Nat \ {0}
           /\ DailyMax \in Nat \ {0} /\ SweepEvery \in Nat \ {0} /\ FillAfter \in Nat \ {0}
           /\ MaxAge \in Nat \ {0} /\ RollDays \in Nat \ {0} /\ MaxDay \in Nat \ {0}
           /\ AnswerAge \in Nat /\ MaxMishaps \in Nat
           /\ AnswerAge < FillAfter /\ AnswerAge < MaxAge
BY DEF TmdbAssumption

LEMMA Dated == TmdbAssumption => \A t \in Listed : DateOf[t] \in 0..LastDate /\ MediaOf[t] \in {0, 1}
BY DEF TmdbAssumption, Title

(* A title within a slice is on one of the slice's pages.                   *)
LEMMA PageWithin ==
    ASSUME TmdbAssumption, NEW s \in Slice, NEW t \in Within(s)
    PROVE  PageOf(t, s) \in Nat \ {0} /\ PageOf(t, s) <= Pages(s)
<1> DEFINE before == {u \in Within(s) : Earlier(u, t)}
<1>1. Within(s) \subseteq Listed /\ before \subseteq Within(s) /\ t \notin before
  BY TmdbAssumption DEF Within, Earlier, TmdbAssumption, Title
<1>2. IsFiniteSet(Within(s))
  BY <1>1, FS_Subset, TmdbAssumption DEF TmdbAssumption, Title
<1>3. /\ Cardinality(before) \in Nat /\ Cardinality(Within(s)) \in Nat
      /\ Cardinality(before) < Cardinality(Within(s))
  BY <1>1, <1>2, FS_Subset, FS_CardinalityType
<1> HIDE DEF before
<1>4. PageSize \in Nat \ {0}
  BY TmdbAssumption DEF TmdbAssumption
<1>5. PageOf(t, s) = Cardinality(before) \div PageSize + 1
  BY DEF PageOf, before
<1> QED BY <1>3, <1>4, <1>5, PagesHold DEF Pages

LEMMA PagesIsNat == ASSUME TmdbAssumption, NEW s \in Slice PROVE Pages(s) \in Int
<1>1. Within(s) \subseteq Listed
  BY DEF Within
<1>2. IsFiniteSet(Within(s))
  BY <1>1, FS_Subset, TmdbAssumption DEF TmdbAssumption, Title
<1>3. Cardinality(Within(s)) \in Nat
  BY <1>2, FS_CardinalityType
<1> QED BY <1>3, QuotientIsExact, TmdbAssumption DEF Pages, TmdbAssumption

-----------------------------------------------------------------------------
(* A slice's pages, and discover's answer for it.                           *)
(* How far a slice has got changes nothing of what is in it.                *)
LEMMA SamePages ==
    ASSUME NEW s, NEW u, u.media = s.media, u.from = s.from, u.to = s.to
    PROVE  /\ Within(u) = Within(s) /\ Pages(u) = Pages(s)
           /\ \A t : PageOf(t, u) = PageOf(t, s)
<1>1. Within(u) = Within(s)
  BY DEF Within
<1> QED BY <1>1 DEF Pages, PageOf

(* The page answered, and what is left of its slice, is what it had.        *)
LEMMA CarriedCovers ==
    ASSUME TmdbAssumption, NEW s \in Slice, SliceSound(s)
    PROVE  /\ Carried(s) \in Seq(Slice)
           /\ \A i \in DOMAIN Carried(s) : SliceSound(Carried(s)[i])
           /\ \A t \in Within(s) : Reachable(t) /\ PageOf(t, s) >= s.page =>
                \/ PageOf(t, s) = s.page
                \/ \E i \in DOMAIN Carried(s) :
                     t \in Within(Carried(s)[i]) /\ PageOf(t, Carried(s)[i]) >= Carried(s)[i].page
<1> DEFINE mid == s.from + (s.to - s.from) \div 2
           split == s.page = 1 /\ Pages(s) > PageCap /\ s.from < s.to
           last == IF Pages(s) < PageCap THEN Pages(s) ELSE PageCap
<1>1. /\ s.media \in {0, 1} /\ s.from \in Nat \ {0} /\ s.to \in Nat \ {0}
      /\ s.from <= LastDate /\ s.to <= LastDate /\ s.page \in 1..PageCap
      /\ LastDate \in Nat /\ PageCap \in Nat \ {0} /\ Pages(s) \in Int
      /\ s = [media |-> s.media, from |-> s.from, to |-> s.to, page |-> s.page]
  BY PagesIsNat, TmdbAssumption DEF Slice, TmdbAssumption
<1>2. CASE split
  <2> DEFINE lower == [s EXCEPT !.to = mid]
             upper == [s EXCEPT !.from = mid + 1]
  <2>1. mid \in Nat /\ s.from <= mid /\ mid + 1 <= s.to
    BY <1>1, <1>2, HalfIsLess
  <2>2. /\ lower = [media |-> s.media, from |-> s.from, to |-> mid, page |-> 1]
        /\ upper = [media |-> s.media, from |-> mid + 1, to |-> s.to, page |-> 1]
    BY <1>1, <1>2
  <2>3. lower \in Slice /\ upper \in Slice /\ SliceSound(lower) /\ SliceSound(upper)
    BY <1>1, <2>1, <2>2 DEF Slice, SliceSound
  <2>4. Carried(s) = <<lower, upper>>
    BY <1>2 DEF Carried
  <2> HIDE DEF lower, upper
  <2>5. ASSUME NEW t \in Within(s)
        PROVE  (t \in Within(lower) /\ PageOf(t, lower) >= lower.page)
               \/ (t \in Within(upper) /\ PageOf(t, upper) >= upper.page)
    <3>1. DateOf[t] \in Nat
      BY <1>1, Dated DEF Within
    <3>2. t \in Within(lower) \/ t \in Within(upper)
      BY <1>1, <2>1, <2>2, <3>1 DEF Within
    <3>3. t \in Within(lower) => PageOf(t, lower) >= 1
      BY <2>3, PageWithin
    <3>4. t \in Within(upper) => PageOf(t, upper) >= 1
      BY <2>3, PageWithin
    <3> QED BY <2>2, <3>2, <3>3, <3>4
  <2>6. DOMAIN <<lower, upper>> = 1..2 /\ <<lower, upper>>[1] = lower /\ <<lower, upper>>[2] = upper
    OBVIOUS
  <2>7. <<lower, upper>> \in Seq(Slice)
    BY <2>3
  <2> QED BY <2>3, <2>4, <2>5, <2>6, <2>7
<1>3. CASE ~ split /\ s.page < last
  <2> DEFINE next == [s EXCEPT !.page = @ + 1]
  <2>1. next = [media |-> s.media, from |-> s.from, to |-> s.to, page |-> s.page + 1]
    BY <1>1
  <2>2. next \in Slice
    BY <1>1, <1>3, <2>1 DEF Slice
  <2>3. Pages(next) = Pages(s) /\ Within(next) = Within(s) /\ \A t : PageOf(t, next) = PageOf(t, s)
    BY <2>1, SamePages
  <2>4. SliceSound(next)
    BY <1>1, <1>3, <2>1, <2>3 DEF SliceSound
  <2>5. Carried(s) = <<next>>
    <3>1. ~(s.page >= last)
      BY <1>1, <1>3
    <3> HIDE DEF last
    <3>2. Carried(s) = IF split THEN <<[s EXCEPT !.to = mid], [s EXCEPT !.from = mid + 1]>>
                       ELSE IF s.page >= last THEN <<>> ELSE <<next>>
      BY DEF Carried, last
    <3> QED BY <1>3, <3>1, <3>2
  <2> HIDE DEF next
  <2>6. \A t \in Within(s) : PageOf(t, s) > s.page => PageOf(t, next) >= next.page
    BY <1>1, <2>1, <2>3, PageWithin
  <2>7. \A t \in Within(s) : PageOf(t, s) \in Nat
    BY PageWithin
  <2>8. DOMAIN <<next>> = {1} /\ <<next>>[1] = next /\ <<next>> \in Seq(Slice)
    BY <2>2
  <2>9. \A t \in Within(s) : PageOf(t, s) >= s.page => PageOf(t, s) = s.page \/ PageOf(t, s) > s.page
    BY <1>1, <2>7
  <2> QED BY <2>3, <2>4, <2>5, <2>6, <2>8, <2>9
<1>4. CASE ~ split /\ ~(s.page < last)
  <2>1. Carried(s) = <<>>
    BY <1>1, <1>4 DEF Carried
  <2>2. <<>> \in Seq(Slice) /\ DOMAIN <<>> = {}
    OBVIOUS
  <2>3. ASSUME NEW t \in Within(s), Reachable(t), PageOf(t, s) >= s.page
        PROVE  PageOf(t, s) = s.page
    <3>1. PageOf(t, s) \in Nat \ {0} /\ PageOf(t, s) <= Pages(s)
      BY PageWithin
    <3>2. CASE Pages(s) <= PageCap
      BY <1>1, <1>4, <2>3, <3>1, <3>2
    <3>3. CASE Pages(s) > PageCap
      <4>1. s.from >= s.to
        BY <1>1, <1>4, <3>3 DEF SliceSound
      <4>2. DateOf[t] \in Nat /\ DateOf[t] \in s.from..s.to /\ MediaOf[t] = s.media
        BY <1>1, Dated DEF Within
      <4>3. s.from = DateOf[t] /\ s.to = DateOf[t]
        BY <1>1, <4>1, <4>2
      <4> DEFINE oneDay == [media |-> MediaOf[t], from |-> DateOf[t], to |-> DateOf[t], page |-> 1]
      <4>4. oneDay.media = s.media /\ oneDay.from = s.from /\ oneDay.to = s.to
        BY <4>2, <4>3
      <4> HIDE DEF oneDay
      <4>5. PageOf(t, oneDay) = PageOf(t, s)
        BY <4>4, SamePages
      <4>6. PageOf(t, s) <= PageCap
        BY <2>3, <4>5 DEF Reachable, oneDay
      <4> QED BY <1>1, <1>4, <2>3, <3>1, <3>3, <4>6
    <3> QED BY <1>1, <3>2, <3>3
  <2> QED BY <2>1, <2>2, <2>3
<1> QED BY <1>2, <1>3, <1>4

-----------------------------------------------------------------------------
(* Types.                                                                  *)

LEMMA UnexpiredDates == \A v \in Dates : \A asOf : Unexpired(v, asOf) \in Dates
BY TmdbNumbers, TmdbAssumption DEF Dates, Unexpired

LEMMA AnswersAreDates ==
    ASSUME CountsTypeOK, AskTypeOK, NEW v \in Dates, NEW d \in AnswerDay \cup {0}, NEW t
    PROVE  [v EXCEPT ![t] = d] \in Dates /\ d \in 0..MaxDay
<1>1. d \in 0..MaxDay
  BY TmdbNumbers, TmdbAssumption DEF AskTypeOK, AnswerDay
<1> QED BY <1>1 DEF Dates

LEMMA TmdbInitType == TmdbInit => TypeOK
<1> SUFFICES ASSUME TmdbInit PROVE TypeOK
  OBVIOUS
<1>1. None \in Dates /\ disk.credits \in Dates
  BY TmdbNumbers, TmdbAssumption DEF None, Dates, TmdbInit
<1>2. NoState \in State
  BY TmdbNumbers, TmdbAssumption DEF NoState, State
<1>3. CountsTypeOK
  BY <1>1 DEF CountsTypeOK, TmdbInit
<1>4. FilesTypeOK
  BY <1>1, <1>2 DEF FilesTypeOK, TmdbInit
<1>5. TickTypeOK
  BY DEF TickTypeOK, TmdbInit, Phase
<1>6. AskTypeOK
  BY TmdbNumbers, TmdbAssumption DEF AskTypeOK, TmdbInit, Spent, NoneAgain
<1> QED BY <1>3, <1>4, <1>5, <1>6 DEF TypeOK

LEMMA CountsTypeStep == TypeOK /\ [TmdbNext]_vars => CountsTypeOK'
<1> SUFFICES ASSUME TypeOK, [TmdbNext]_vars PROVE CountsTypeOK'
  OBVIOUS
<1> USE DEF TypeOK
<1>0. /\ votes \in Dates /\ credits \in Dates /\ credited \in Dates /\ ratings \in Dates
      /\ links \in Dates /\ disk.votes \in Dates /\ disk.credits \in Dates /\ None \in Dates
  BY TmdbNumbers, TmdbAssumption DEF CountsTypeOK, FilesTypeOK, None, Dates
<1>1. ASSUME Tick PROVE CountsTypeOK'
  BY <1>0, <1>1, UnexpiredDates DEF Tick, CountsTypeOK, indexes
<1>2. ASSUME UNCHANGED <<kept, indexes, credited>> PROVE CountsTypeOK'
  BY <1>0, <1>2 DEF CountsTypeOK, kept, indexes
<1>3. ASSUME CreditsAnswer PROVE CountsTypeOK'
  <2>1. PICK d \in AnswerDay \cup {0} : credits' = [credits EXCEPT ![NextTitle] = d]
                                        /\ credited' = [credited EXCEPT ![NextTitle] = d]
    BY <1>3 DEF CreditsAnswer
  <2>2. credits' \in Dates /\ credited' \in Dates
    BY <1>0, <2>1, AnswersAreDates
  <2> QED BY <1>0, <1>3, <2>2 DEF CreditsAnswer, Answered, CountsTypeOK, indexes
<1>4. ASSUME FillAnswer PROVE CountsTypeOK'
  <2>1. PICK d \in AnswerDay \cup {0} : votes' = [votes EXCEPT ![NextTitle] = d]
    BY <1>4 DEF FillAnswer
  <2>2. votes' \in Dates
    BY <1>0, <2>1, AnswersAreDates
  <2> QED BY <1>0, <1>4, <2>2 DEF FillAnswer, Answered, CountsTypeOK, indexes
<1>5. ASSUME PageAnswer PROVE CountsTypeOK'
  <2> DEFINE s == Head(state.slices)
  <2>1. PICK d \in AnswerDay :
          votes' = [t \in Corpus |-> IF t \in Within(s) /\ PageOf(t, s) = s.page THEN d ELSE votes[t]]
    BY <1>5 DEF PageAnswer
  <2> HIDE DEF s
  <2>2. d \in 0..MaxDay
    BY <2>1, <1>0, AnswersAreDates
  <2>3. votes' \in Dates
    BY <1>0, <2>1, <2>2 DEF Dates
  <2> QED BY <1>0, <1>5, <2>3 DEF PageAnswer, Answered, CountsTypeOK, indexes
<1>6. ASSUME WriterPanics PROVE CountsTypeOK'
  BY <1>0, <1>6 DEF WriterPanics, CountsTypeOK, indexes
<1>7. ASSUME Rebuild PROVE CountsTypeOK'
  BY <1>0, <1>7 DEF Rebuild, CountsTypeOK
<1>8. ASSUME Restart PROVE CountsTypeOK'
  BY <1>0, <1>8, UnexpiredDates DEF Restart, CountsTypeOK
<1>9. ASSUME PageGone \/ ChangesAnswer PROVE UNCHANGED <<kept, indexes, credited>>
  BY <1>9 DEF PageGone, ChangesAnswer, Answered, kept
<1>10. ASSUME AskAgain \/ StopAsking \/ NextDay \/ WriteVotes \/ WriteCredits \/ WriteState \/ WriteFails
       PROVE  UNCHANGED <<kept, indexes, credited>>
  BY <1>10 DEF AskAgain, StopAsking, NextDay, WriteVotes, WriteCredits, WriteState, WriteFails, Written
<1>11. ASSUME ToChanged \/ ToSweep \/ ToFill \/ ToMissing \/ ToRolling \/ ToPersist
       PROVE  UNCHANGED <<kept, indexes, credited>>
  BY <1>11 DEF ToChanged, ToSweep, ToFill, ToMissing, ToRolling, ToPersist, Turned
<1>12. ASSUME UNCHANGED vars PROVE UNCHANGED <<kept, indexes, credited>>
  BY <1>12 DEF vars
<1> QED
  BY <1>1, <1>2, <1>3, <1>4, <1>5, <1>6, <1>7, <1>8, <1>9, <1>10, <1>11, <1>12 DEF TmdbNext

LEMMA StateFields ==
    ASSUME NEW st \in State
    PROVE  /\ st.last_tick \in 0..MaxDay /\ st.sweep_started \in 0..MaxDay
           /\ st.slices \in Seq(Slice) /\ st.whole \in BOOLEAN
           /\ st = [last_tick |-> st.last_tick, sweep_started |-> st.sweep_started,
                    slices |-> st.slices, whole |-> st.whole]
BY DEF State

LEMMA NewSweepTyped ==
    /\ NewSweep \in Seq(Slice) /\ DOMAIN NewSweep = 1..2
    /\ \A i \in 1..2 : /\ NewSweep[i] \in Slice
                      /\ NewSweep[i] = [media |-> Media[i], from |-> 1, to |-> LastDate, page |-> 1]
    /\ Media[1] = 0 /\ Media[2] = 1
<1>1. \A i \in 1..2 : [media |-> Media[i], from |-> 1, to |-> LastDate, page |-> 1] \in Slice
  BY TmdbNumbers, TmdbAssumption DEF Slice, Media
<1>2. Media[1] = 0 /\ Media[2] = 1
  BY DEF Media
<1> QED BY <1>1, <1>2 DEF NewSweep

LEMMA FilesTypeStep == TypeOK /\ SlicesSound(state) /\ [TmdbNext]_vars => FilesTypeOK'
<1> SUFFICES ASSUME TypeOK, SlicesSound(state), [TmdbNext]_vars PROVE FilesTypeOK'
  OBVIOUS
<1> USE DEF TypeOK
<1>0. /\ votes \in Dates /\ credits \in Dates /\ state \in State
      /\ disk \in [votes : Dates, credits : Dates, state : State]
  BY DEF CountsTypeOK, FilesTypeOK
<1>1. ASSUME Tick PROVE FilesTypeOK'
  <2>1. state' \in State
    BY <1>0, <1>1 DEF Tick, State, AskTypeOK
  <2> QED BY <1>0, <1>1, <2>1 DEF Tick, FilesTypeOK
<1>2. ASSUME UNCHANGED <<state, disk>> PROVE FilesTypeOK'
  BY <1>0, <1>2 DEF FilesTypeOK
<1>3. ASSUME PageAnswer PROVE FilesTypeOK'
  <2> DEFINE s == Head(state.slices)
  <2>1. state.slices # <<>> /\ state' = [state EXCEPT !.slices = Carried(s) \o Tail(@)] /\ disk' = disk
    BY <1>3 DEF PageAnswer, Answered, Asking
  <2>2. state.slices \in Seq(Slice) /\ s \in Slice /\ Tail(state.slices) \in Seq(Slice)
    BY <1>0, <2>1, StateFields
  <2>3. Carried(s) \in Seq(Slice)
    <3>1. SliceSound(s)
      BY <2>1, <2>2 DEF SlicesSound
    <3> QED BY <2>2, <3>1, CarriedCovers, TmdbAssumption
  <2>4. Carried(s) \o Tail(state.slices) \in Seq(Slice)
    BY <2>2, <2>3, ConcatProperties
  <2> HIDE DEF s
  <2>5. state' \in State
    BY <1>0, <2>1, <2>4 DEF State
  <2> QED BY <1>0, <2>1, <2>5 DEF FilesTypeOK
<1>4. ASSUME PageGone PROVE FilesTypeOK'
  <2>1. state.slices # <<>> /\ disk' = disk
        /\ state' = [state EXCEPT !.slices = Tail(@), !.whole = FALSE]
    BY <1>4 DEF PageGone, Answered, Asking
  <2>2. Tail(state.slices) \in Seq(Slice)
    BY <1>0, <2>1, StateFields
  <2>3. state' \in State
    BY <1>0, <2>1, <2>2 DEF State
  <2> QED BY <1>0, <2>1, <2>3 DEF FilesTypeOK
<1>5. ASSUME ToSweep PROVE FilesTypeOK'
  <2>1. \/ state' = state
        \/ state' = [state EXCEPT !.sweep_started = state.last_tick, !.slices = NewSweep, !.whole = TRUE]
    BY <1>5 DEF ToSweep
  <2>2. state' \in State
    BY <1>0, <2>1, NewSweepTyped DEF State
  <2> QED BY <1>0, <1>5, <2>2 DEF ToSweep, Turned, FilesTypeOK
<1>6. ASSUME WriteVotes \/ WriteCredits \/ WriteState PROVE FilesTypeOK'
  BY <1>0, <1>6 DEF WriteVotes, WriteCredits, WriteState, Written, FilesTypeOK
<1>7. ASSUME Restart PROVE FilesTypeOK'
  BY <1>0, <1>7 DEF Restart, FilesTypeOK
<1>8. ASSUME AskAgain \/ StopAsking \/ NextDay \/ WriteFails \/ WriterPanics \/ Rebuild
             \/ ChangesAnswer \/ CreditsAnswer \/ FillAnswer
      PROVE  UNCHANGED <<state, disk>>
  BY <1>8 DEF AskAgain, StopAsking, NextDay, WriteFails, WriterPanics, Rebuild, ChangesAnswer,
              CreditsAnswer, FillAnswer, Answered
<1>9. ASSUME ToChanged \/ ToFill \/ ToMissing \/ ToRolling \/ ToPersist PROVE UNCHANGED <<state, disk>>
  BY <1>9 DEF ToChanged, ToFill, ToMissing, ToRolling, ToPersist, Turned
<1>10. ASSUME UNCHANGED vars PROVE UNCHANGED <<state, disk>>
  BY <1>10 DEF vars
<1> QED BY <1>1, <1>2, <1>3, <1>4, <1>5, <1>6, <1>7, <1>8, <1>9, <1>10 DEF TmdbNext

LEMMA TickTypeStep == TypeOK /\ [TmdbNext]_vars => TickTypeOK'
<1> SUFFICES ASSUME TypeOK, [TmdbNext]_vars PROVE TickTypeOK'
  OBVIOUS
<1> USE DEF TypeOK
<1>0. /\ phase \in Phase /\ credits_on_disk \in BOOLEAN /\ panicked \in BOOLEAN
      /\ due \subseteq Corpus \cup {0, 1} /\ changed \subseteq Corpus /\ rolling \subseteq Corpus
  BY DEF TickTypeOK
<1>1. (phase \in Phase)'
  BY <1>0, Zenon DEF TmdbNext, vars, questions, kept, Phase, Tick, AskAgain, StopAsking, ChangesAnswer,
     CreditsAnswer, FillAnswer, PageAnswer, PageGone, Answered, ToChanged, ToSweep, ToFill,
     ToMissing, ToRolling, ToPersist, Turned, WriteVotes, WriteCredits, WriteState, Written,
     WriteFails, WriterPanics, Rebuild, Restart, NextDay
<1>2. (credits_on_disk \in BOOLEAN /\ panicked \in BOOLEAN)'
  <2>1. CASE Rebuild
    BY <1>0, <2>1, Zenon DEF Rebuild
  <2>2. CASE Tick \/ WriterPanics \/ Restart
    BY <1>0, <2>2, Zenon DEF Tick, WriterPanics, Restart
  <2>3. CASE UNCHANGED <<credits_on_disk, panicked>>
    BY <1>0, <2>3, Zenon
  <2> QED
    BY <2>1, <2>2, <2>3, Zenon DEF TmdbNext, vars, kept, AskAgain, StopAsking, ChangesAnswer,
       CreditsAnswer, FillAnswer, PageAnswer, PageGone, Answered, ToChanged, ToSweep, ToFill,
       ToMissing, ToRolling, ToPersist, Turned, WriteVotes, WriteCredits, WriteState, Written,
       WriteFails, NextDay
<1>3. (due \subseteq Corpus \cup {0, 1} /\ changed \subseteq Corpus /\ rolling \subseteq Corpus)'
  <2>1. CASE Tick \/ Restart
    BY <1>0, <2>1 DEF Tick, Restart
  <2>2. CASE UNCHANGED questions
    BY <1>0, <2>2 DEF questions
  <2>3. CASE ChangesAnswer
    <3>1. changed' \subseteq Corpus
      BY <1>0, <2>3, TmdbAssumption DEF ChangesAnswer, TmdbAssumption
    <3>2. due' \subseteq due /\ rolling' = rolling
      BY <2>3 DEF ChangesAnswer, Answered
    <3> QED BY <1>0, <3>1, <3>2
  <2>4. CASE CreditsAnswer \/ FillAnswer \/ PageAnswer \/ PageGone
    <3>1. due' \subseteq due /\ rolling' = rolling /\ changed' = changed
      BY <2>4 DEF CreditsAnswer, FillAnswer, PageAnswer, PageGone, Answered
    <3> QED BY <1>0, <3>1
  <2>5. CASE ToChanged \/ ToSweep \/ ToRolling \/ ToPersist
    BY <1>0, <2>5 DEF ToChanged, ToSweep, ToRolling, ToPersist
  <2>6. CASE ToFill \/ ToMissing
    BY <1>0, <2>6 DEF ToFill, ToMissing, Unfilled, Oldest
  <2> QED
    BY <2>1, <2>2, <2>3, <2>4, <2>5, <2>6 DEF TmdbNext, vars, AskAgain, StopAsking, WriteVotes,
       WriteCredits, WriteState, Written, WriteFails, WriterPanics, Rebuild, NextDay
<1> QED BY <1>1, <1>2, <1>3 DEF TickTypeOK

LEMMA Spending ==
    ASSUME AskTypeOK
    PROVE  /\ [left |-> DailyMax, stopped |-> FALSE] \in [left : 0..DailyMax, stopped : BOOLEAN]
           /\ \A b \in BOOLEAN : Spent(b) \in [left : 0..DailyMax, stopped : BOOLEAN]
           /\ budget.left > 0 => Paid \in [left : 0..DailyMax, stopped : BOOLEAN]
           /\ budget.stopped \in BOOLEAN /\ budget.left \in 0..DailyMax
           /\ NoneAgain \in [failures : 0..1, stale_asks : 0..2]
<1>1. DailyMax \in Nat \ {0}
  BY TmdbNumbers, TmdbAssumption
<1> QED BY <1>1 DEF AskTypeOK, Spent, Paid, NoneAgain

LEMMA AskTypeStep == TypeOK /\ [TmdbNext]_vars => AskTypeOK'
<1> SUFFICES ASSUME TypeOK, [TmdbNext]_vars PROVE AskTypeOK'
  OBVIOUS
<1> USE DEF TypeOK
<1> DEFINE Budgets == [left : 0..DailyMax, stopped : BOOLEAN]
           Agains  == [failures : 0..1, stale_asks : 0..2]
<1>0. /\ budget \in Budgets /\ again \in Agains /\ AskTypeOK
      /\ day \in 1..MaxDay /\ mishaps \in 0..MaxMishaps /\ MaxDay \in Nat /\ MaxMishaps \in Nat
  BY TmdbNumbers, TmdbAssumption DEF AskTypeOK
<1>1. ASSUME AskAgain PROVE AskTypeOK'
  <2>1. again' \in Agains
    BY <1>0, <1>1 DEF AskAgain
  <2>2. budget' \in Budgets
    BY <1>0, <1>1, Spending DEF AskAgain
  <2>3. day' = day /\ mishaps' \in 0..MaxMishaps
    BY <1>0, <1>1 DEF AskAgain
  <2> QED BY <1>0, <2>1, <2>2, <2>3 DEF AskTypeOK
<1>2. ASSUME Tick \/ StopAsking PROVE AskTypeOK'
  <2>1. budget' \in Budgets /\ again' \in Agains
    BY <1>0, <1>2, Spending DEF Tick, StopAsking
  <2>2. day' = day /\ mishaps' = mishaps
    BY <1>2 DEF Tick, StopAsking
  <2> QED BY <1>0, <2>1, <2>2 DEF AskTypeOK
<1>3. ASSUME ChangesAnswer \/ CreditsAnswer \/ FillAnswer \/ PageAnswer \/ PageGone PROVE AskTypeOK'
  <2>1. Answered
    BY <1>3 DEF ChangesAnswer, CreditsAnswer, FillAnswer, PageAnswer, PageGone
  <2>2. budget' \in Budgets /\ again' \in Agains /\ day' = day
    BY <1>0, <2>1, Spending DEF Answered
  <2>3. mishaps' = mishaps \/ (mishaps < MaxMishaps /\ mishaps' = mishaps + 1)
    BY <1>3, Zenon DEF ChangesAnswer, CreditsAnswer, FillAnswer, PageAnswer, PageGone
  <2> QED BY <1>0, <2>2, <2>3 DEF AskTypeOK
<1>4. ASSUME NEW from, NEW to, Turned(from, to) PROVE AskTypeOK'
  <2>1. budget' \in Budgets
    BY <1>0, <1>4, Spending DEF Turned
  <2> QED BY <1>0, <1>4, <2>1 DEF Turned, AskTypeOK
<1>5. ASSUME ToChanged \/ ToSweep \/ ToFill \/ ToMissing \/ ToRolling \/ ToPersist PROVE AskTypeOK'
  BY <1>4, <1>5 DEF ToChanged, ToSweep, ToFill, ToMissing, ToRolling, ToPersist
<1>6. ASSUME WriterPanics \/ Restart PROVE AskTypeOK'
  <2>1. budget' \in Budgets /\ again' \in Agains /\ day' = day
    BY <1>0, <1>6, Spending DEF WriterPanics, Restart
  <2>2. mishaps < MaxMishaps /\ mishaps' = mishaps + 1
    BY <1>6, Zenon DEF WriterPanics, Restart
  <2> QED BY <1>0, <2>1, <2>2 DEF AskTypeOK
<1>7. ASSUME NextDay PROVE AskTypeOK'
  BY <1>0, <1>7 DEF NextDay, AskTypeOK
<1>8. ASSUME UNCHANGED <<budget, again, day, mishaps>> PROVE AskTypeOK'
  BY <1>0, <1>8 DEF AskTypeOK
<1>9. ASSUME WriteVotes \/ WriteCredits \/ WriteState \/ WriteFails \/ Rebuild \/ UNCHANGED vars
      PROVE  UNCHANGED <<budget, again, day, mishaps>>
  BY <1>9 DEF WriteVotes, WriteCredits, WriteState, Written, WriteFails, Rebuild, vars
<1> QED BY <1>1, <1>2, <1>3, <1>5, <1>6, <1>7, <1>8, <1>9 DEF TmdbNext

LEMMA TmdbTypeStep == TypeOK /\ SlicesSound(state) /\ [TmdbNext]_vars => TypeOK'
BY CountsTypeStep, FilesTypeStep, TickTypeStep, AskTypeStep DEF TypeOK

-----------------------------------------------------------------------------
(* What the sweep has counted.                                             *)

(* Counts that are as they were, newer or past six months cover as much.    *)
LEMMA StillCovered ==
    ASSUME TmdbAssumption, NEW st \in State, NEW v \in Dates, NEW w \in Dates,
           NEW asOf \in Nat, NEW later \in Nat, asOf <= later, st.sweep_started <= asOf,
           Covered(st, v, asOf),
           \A t \in Corpus \cap Listed :
             w[t] = v[t] \/ w[t] + AnswerAge >= asOf \/ v[t] + MaxAge <= later
    PROVE  Covered(st, w, later)
<1> SUFFICES ASSUME st.whole, st.sweep_started # 0, NEW t \in Corpus \cap Listed,
                    Reachable(t), ~ Ahead(st, t)
             PROVE  w[t] + AnswerAge >= st.sweep_started \/ ~ IsFresh(st.sweep_started, later + AnswerAge)
  BY DEF Covered
<1>1. v[t] + AnswerAge >= st.sweep_started \/ ~ IsFresh(st.sweep_started, asOf + AnswerAge)
  BY DEF Covered
<1>2. /\ v[t] \in Nat /\ w[t] \in Nat /\ st.sweep_started \in Nat /\ AnswerAge \in Nat /\ MaxAge \in Nat
  BY StateFields, TmdbNumbers DEF Dates
<1>3. w[t] = v[t] \/ w[t] + AnswerAge >= asOf \/ v[t] + MaxAge <= later
  OBVIOUS
<1> QED BY <1>1, <1>2, <1>3 DEF IsFresh

(* When the last tick was changes nothing of it.                            *)
LEMMA SameSweep ==
    ASSUME NEW st, NEW su, su.slices = st.slices, su.whole = st.whole,
           su.sweep_started = st.sweep_started, NEW v, NEW asOf
    PROVE  Covered(su, v, asOf) = Covered(st, v, asOf) /\ SlicesSound(su) = SlicesSound(st)
<1>1. \A t : Ahead(su, t) = Ahead(st, t)
  BY DEF Ahead
<1> QED BY <1>1 DEF Covered, SlicesSound

LEMMA UnexpiredCovers ==
    ASSUME TmdbAssumption, NEW st \in State, NEW v \in Dates, NEW asOf \in Nat,
           st.sweep_started <= asOf, Covered(st, v, asOf)
    PROVE  Covered(st, Unexpired(v, asOf), asOf)
<1>1. \A t \in Corpus : v[t] \in Nat
  BY DEF Dates
<1>2. \A t \in Corpus : Unexpired(v, asOf)[t] = v[t] \/ v[t] + MaxAge <= asOf
  BY <1>1, TmdbNumbers DEF Unexpired, IsFresh
<1>3. \A t \in Corpus \cap Listed :
        \/ Unexpired(v, asOf)[t] = v[t] \/ Unexpired(v, asOf)[t] + AnswerAge >= asOf
        \/ v[t] + MaxAge <= asOf
  BY <1>2
<1> QED BY <1>3, UnexpiredDates, StillCovered

(* A page's answer: what was ahead of the sweep still is, or was counted.   *)
LEMMA PageCovers ==
    ASSUME TmdbAssumption, NEW st \in State, SlicesSound(st), st.slices # <<>>,
           NEW v \in Dates, NEW asOf \in Nat, st.sweep_started <= asOf, Covered(st, v, asOf),
           NEW s, s = Head(st.slices), NEW d \in 0..MaxDay, d + AnswerAge >= asOf,
           NEW w \in Dates,
           w = [t \in Corpus |-> IF t \in Within(s) /\ PageOf(t, s) = s.page THEN d ELSE v[t]],
           NEW su, su.slices = Carried(s) \o Tail(st.slices), su.whole = st.whole,
           su.sweep_started = st.sweep_started
    PROVE  SlicesSound(su) /\ Covered(su, w, asOf)
<1> DEFINE rest == Tail(st.slices)
           first == Carried(s)
<1>1. /\ st.slices \in Seq(Slice) /\ s \in Slice /\ rest \in Seq(Slice) /\ s = st.slices[1]
      /\ Len(st.slices) \in Nat /\ DOMAIN st.slices = 1..Len(st.slices)
      /\ Len(rest) = Len(st.slices) - 1 /\ \A i \in 1..Len(rest) : rest[i] = st.slices[i + 1]
      /\ 1 \in 1..Len(st.slices)
  BY StateFields
<1>2. SliceSound(s) /\ \A i \in 1..Len(rest) : SliceSound(rest[i])
  <2>1. \A i \in 1..Len(st.slices) : SliceSound(st.slices[i])
    BY <1>1, Zenon DEF SlicesSound
  <2>2. \A i \in 1..Len(rest) : i + 1 \in 1..Len(st.slices)
    BY <1>1
  <2> HIDE DEF rest
  <2> QED BY <1>1, <2>1, <2>2, Zenon
<1>3. /\ first \in Seq(Slice) /\ \A i \in DOMAIN first : SliceSound(first[i])
      /\ \A t \in Within(s) : Reachable(t) /\ PageOf(t, s) >= s.page =>
           \/ PageOf(t, s) = s.page
           \/ \E i \in DOMAIN first : t \in Within(first[i]) /\ PageOf(t, first[i]) >= first[i].page
  BY <1>1, <1>2, CarriedCovers
<1>4. /\ su.slices = first \o rest /\ su.whole = st.whole /\ su.sweep_started = st.sweep_started
  OBVIOUS
<1> HIDE DEF first, rest
<1>5. /\ first \o rest \in Seq(Slice) /\ Len(first \o rest) = Len(first) + Len(rest)
      /\ Len(first) \in Nat /\ Len(rest) \in Nat /\ DOMAIN first = 1..Len(first)
      /\ DOMAIN (first \o rest) = 1..(Len(first) + Len(rest))
      /\ \A i \in 1..Len(first) : (first \o rest)[i] = first[i]
      /\ \A i \in 1..Len(rest) : (first \o rest)[Len(first) + i] = rest[i]
  <2>1. /\ first \o rest \in Seq(Slice) /\ Len(first \o rest) = Len(first) + Len(rest)
        /\ \A i \in 1..(Len(first) + Len(rest)) : (first \o rest)[i] =
             IF i <= Len(first) THEN first[i] ELSE rest[i - Len(first)]
    BY <1>1, <1>3, ConcatProperties
  <2>2. Len(first) \in Nat /\ Len(rest) \in Nat /\ DOMAIN first = 1..Len(first)
    BY <1>1, <1>3
  <2>3. ASSUME NEW i \in 1..Len(rest) PROVE (first \o rest)[Len(first) + i] = rest[i]
    <3>1. Len(first) + i \in 1..(Len(first) + Len(rest)) /\ ~(Len(first) + i <= Len(first))
          /\ (Len(first) + i) - Len(first) = i
      BY <2>2
    <3> QED BY <2>1, <3>1
  <2>4. \A i \in 1..Len(first) : i \in 1..(Len(first) + Len(rest)) /\ i <= Len(first)
    BY <2>2
  <2>5. DOMAIN (first \o rest) = 1..(Len(first) + Len(rest))
    BY <2>1
  <2> QED BY <2>1, <2>2, <2>3, <2>4, <2>5
<1>6. SlicesSound(su)
  <2> SUFFICES ASSUME NEW i \in 1..(Len(first) + Len(rest)) PROVE SliceSound((first \o rest)[i])
    BY <1>4, <1>5 DEF SlicesSound
  <2>1. CASE i <= Len(first)
    BY <1>3, <1>5, <2>1
  <2>2. CASE i > Len(first)
    <3>1. i - Len(first) \in 1..Len(rest) /\ Len(first) + (i - Len(first)) = i
      BY <1>5, <2>2
    <3> QED BY <1>2, <1>5, <3>1
  <2> QED BY <1>5, <2>1, <2>2
<1>7. \A i \in 1..Len(first) : i \in DOMAIN su.slices /\ su.slices[i] = first[i]
  <2>1. \A i \in 1..Len(first) : i \in 1..(Len(first) + Len(rest))
    BY <1>5
  <2> QED BY <1>4, <1>5, <2>1, Zenon
<1>8. \A i \in 1..Len(rest) : Len(first) + i \in DOMAIN su.slices /\ su.slices[Len(first) + i] = rest[i]
  <2>1. \A i \in 1..Len(rest) : Len(first) + i \in 1..(Len(first) + Len(rest))
    BY <1>5
  <2> QED BY <1>4, <1>5, <2>1, Zenon
<1>9. ASSUME NEW t \in Corpus \cap Listed, Reachable(t), ~ Ahead(su, t), Ahead(st, t)
      PROVE  w[t] = d
  <2>1. PICK i \in 1..Len(st.slices) :
          t \in Within(st.slices[i]) /\ PageOf(t, st.slices[i]) >= st.slices[i].page
    BY <1>1, <1>9 DEF Ahead
  <2>2. CASE i = 1
    <3>1. ~ \E j \in DOMAIN first : t \in Within(first[j]) /\ PageOf(t, first[j]) >= first[j].page
      BY <1>5, <1>7, <1>9 DEF Ahead
    <3> QED BY <1>1, <1>3, <1>9, <2>1, <2>2, <3>1
  <2>3. CASE i # 1
    <3>1. i - 1 \in 1..Len(rest) /\ rest[i - 1] = st.slices[i]
      BY <1>1, <2>3
    <3> QED BY <1>8, <1>9, <2>1, <3>1 DEF Ahead
  <2> QED BY <2>2, <2>3
<1>10. Covered(su, w, asOf)
  <2> SUFFICES ASSUME su.whole, su.sweep_started # 0, NEW t \in Corpus \cap Listed,
                      Reachable(t), ~ Ahead(su, t)
               PROVE  w[t] + AnswerAge >= su.sweep_started
                      \/ ~ IsFresh(su.sweep_started, asOf + AnswerAge)
    BY DEF Covered
  <2>1. d \in Nat /\ w[t] \in Nat /\ v[t] \in Nat /\ st.sweep_started \in Nat /\ AnswerAge \in Nat
    BY TmdbNumbers, StateFields DEF Dates
  <2>2. CASE w[t] = d
    BY <1>4, <2>1, <2>2
  <2>3. CASE w[t] # d
    <3>1. ~ Ahead(st, t) /\ w[t] = v[t]
      BY <1>9, <2>3
    <3> QED BY <1>4, <3>1 DEF Covered
  <2> QED BY <2>2, <2>3
<1> QED BY <1>6, <1>10

LEMMA CoveredStep ==
    TypeOK /\ StatesCovered /\ WrittenInOrder /\ [TmdbNext]_vars => StatesCovered'
<1> SUFFICES ASSUME TypeOK, StatesCovered, WrittenInOrder, [TmdbNext]_vars PROVE StatesCovered'
  OBVIOUS
<1> USE TmdbAssumption
<1>a. /\ votes \in Dates /\ state \in State /\ day \in Nat
      /\ disk = [votes |-> disk.votes, credits |-> disk.credits, state |-> disk.state]
      /\ disk.votes \in Dates /\ disk.state \in State
  BY TmdbNumbers DEF TypeOK, CountsTypeOK, FilesTypeOK, AskTypeOK
<1>b. /\ state.last_tick \in 0..MaxDay /\ state.sweep_started \in 0..MaxDay
      /\ disk.state.last_tick \in 0..MaxDay /\ disk.state.sweep_started \in 0..MaxDay /\ MaxDay \in Nat
      /\ state.slices \in Seq(Slice)
  BY <1>a, StateFields, TmdbNumbers
<1>c. /\ Covered(state, votes, day) /\ Covered(disk.state, votes, day)
      /\ Covered(disk.state, disk.votes, day) /\ SlicesSound(state) /\ SlicesSound(disk.state)
      /\ state.last_tick <= day /\ disk.state.last_tick <= day
      /\ state.sweep_started <= day /\ disk.state.sweep_started <= day
  BY DEF StatesCovered
<1>d. votes' \in Dates
  BY CountsTypeStep DEF CountsTypeOK
<1>e. \A d \in AnswerDay : d \in 0..MaxDay /\ d + AnswerAge >= day
  BY AnswersAreDates, TmdbNumbers DEF TypeOK, AskTypeOK, AnswerDay
<1>1. CASE Tick
  <2>1. /\ votes' = Unexpired(votes, day) /\ disk' = disk /\ day' = day
        /\ state' = [state EXCEPT !.last_tick = day]
    BY <1>1 DEF Tick
  <2>2. Covered(state, votes', day) /\ Covered(disk.state, votes', day)
    BY <1>a, <1>c, <2>1, UnexpiredCovers
  <2>3. /\ state'.slices = state.slices /\ state'.whole = state.whole
        /\ state'.sweep_started = state.sweep_started /\ state'.last_tick = day
    BY <1>a, <2>1 DEF State
  <2>4. Covered(state', votes', day) /\ SlicesSound(state')
    BY <1>c, <2>2, <2>3, SameSweep
  <2> QED BY <1>a, <1>c, <2>1, <2>2, <2>3, <2>4 DEF StatesCovered
<1>2. CASE FillAnswer
  <2>1. /\ state' = state /\ disk' = disk /\ day' = day
        /\ \E d \in AnswerDay \cup (IF NextTitle \in Listed THEN {} ELSE {0}) :
             votes' = [votes EXCEPT ![NextTitle] = d]
    BY <1>2 DEF FillAnswer, Answered
  <2>2. \A t \in Corpus \cap Listed : votes'[t] = votes[t] \/ votes'[t] + AnswerAge >= day
    BY <1>a, <1>e, <2>1 DEF Dates
  <2>3. Covered(state, votes', day) /\ Covered(disk.state, votes', day)
    BY <1>a, <1>c, <1>d, <2>2, StillCovered
  <2> QED BY <1>c, <2>1, <2>3 DEF StatesCovered
<1>3. CASE PageAnswer
  <2> DEFINE s == Head(state.slices)
  <2>1. /\ disk' = disk /\ day' = day /\ state.slices # <<>>
        /\ state' = [state EXCEPT !.slices = Carried(s) \o Tail(@)]
    BY <1>3 DEF PageAnswer, Answered, Asking
  <2>2. PICK d \in AnswerDay :
          votes' = [t \in Corpus |-> IF t \in Within(s) /\ PageOf(t, s) = s.page THEN d ELSE votes[t]]
    BY <1>3 DEF PageAnswer
  <2>3. /\ state'.slices = Carried(s) \o Tail(state.slices) /\ state'.whole = state.whole
        /\ state'.sweep_started = state.sweep_started /\ state'.last_tick = state.last_tick
    BY <1>a, <2>1 DEF State
  <2>4. d \in 0..MaxDay /\ d + AnswerAge >= day
    BY <1>e
  <2> HIDE DEF s
  <2>5. SlicesSound(state') /\ Covered(state', votes', day)
    BY <1>a, <1>c, <1>d, <2>1, <2>2, <2>3, <2>4, PageCovers DEF s
  <2>6. \A t \in Corpus \cap Listed : votes'[t] = votes[t] \/ votes'[t] + AnswerAge >= day
    BY <2>2, <2>4
  <2>7. Covered(disk.state, votes', day)
    BY <1>a, <1>c, <1>d, <2>6, StillCovered
  <2> QED BY <1>c, <2>1, <2>3, <2>5, <2>7 DEF StatesCovered
<1>4. CASE PageGone
  <2>1. /\ disk' = disk /\ day' = day /\ votes' = votes /\ state.slices # <<>>
        /\ state' = [state EXCEPT !.slices = Tail(@), !.whole = FALSE]
    BY <1>4 DEF PageGone, Answered, Asking
  <2>2. /\ state'.slices = Tail(state.slices) /\ state'.whole = FALSE
        /\ state'.sweep_started = state.sweep_started /\ state'.last_tick = state.last_tick
    BY <1>a, <2>1 DEF State
  <2>3. /\ DOMAIN Tail(state.slices) = 1..(Len(state.slices) - 1)
        /\ \A i \in 1..(Len(state.slices) - 1) :
             i + 1 \in DOMAIN state.slices /\ Tail(state.slices)[i] = state.slices[i + 1]
    BY <1>b, <2>1
  <2>4. SlicesSound(state')
    BY <1>c, <2>2, <2>3, Zenon DEF SlicesSound
  <2>5. Covered(state', votes', day)
    BY <2>2 DEF Covered
  <2> QED BY <1>c, <2>1, <2>2, <2>4, <2>5 DEF StatesCovered
<1>5. CASE ToSweep
  <2>1. /\ disk' = disk /\ day' = day /\ votes' = votes
        /\ \/ state' = state
           \/ state' = [state EXCEPT !.sweep_started = state.last_tick, !.slices = NewSweep, !.whole = TRUE]
    BY <1>5 DEF ToSweep, Turned, kept
  <2>2. CASE state' = state
    BY <1>c, <2>1, <2>2 DEF StatesCovered
  <2>3. CASE state' = [state EXCEPT !.sweep_started = state.last_tick, !.slices = NewSweep, !.whole = TRUE]
    <3>1. /\ state'.slices = NewSweep /\ state'.sweep_started = state.last_tick
          /\ state'.last_tick = state.last_tick
      BY <1>a, <2>3 DEF State
    <3>2. SlicesSound(state')
      BY <3>1, NewSweepTyped DEF SlicesSound, SliceSound
    <3>3. ASSUME NEW t \in Listed, Reachable(t) PROVE Ahead(state', t)
      <4>1. DateOf[t] \in 1..LastDate /\ MediaOf[t] \in {0, 1}
        BY <3>3, Dated, TmdbNumbers DEF Reachable
      <4>2. PICK i \in 1..2 : Media[i] = MediaOf[t]
        BY <4>1, NewSweepTyped
      <4>3. NewSweep[i] \in Slice /\ t \in Within(NewSweep[i]) /\ NewSweep[i].page = 1
        <5>1. NewSweep[i] = [media |-> MediaOf[t], from |-> 1, to |-> LastDate, page |-> 1]
          BY <4>2, NewSweepTyped
        <5>2. NewSweep[i] \in Slice
          BY NewSweepTyped
        <5> QED BY <4>1, <5>1, <5>2 DEF Within
      <4>4. PageOf(t, NewSweep[i]) >= NewSweep[i].page
        BY <4>3, PageWithin
      <4> QED BY <3>1, <4>3, <4>4, NewSweepTyped DEF Ahead
    <3>4. Covered(state', votes', day)
      BY <3>3 DEF Covered
    <3> QED BY <1>c, <2>1, <3>1, <3>2, <3>4 DEF StatesCovered
  <2> QED BY <2>1, <2>2, <2>3
<1>6. CASE WriteVotes
  <2>1. state' = state /\ votes' = votes /\ day' = day /\ disk' = [disk EXCEPT !.votes = votes]
    BY <1>6 DEF WriteVotes, Written, kept
  <2>2. disk'.votes = votes /\ disk'.state = disk.state
    BY <1>a, <2>1
  <2> QED BY <1>c, <2>1, <2>2 DEF StatesCovered
<1>7. CASE WriteState
  <2>1. /\ state' = state /\ votes' = votes /\ day' = day /\ disk' = [disk EXCEPT !.state = state]
        /\ disk.votes = votes
    BY <1>7 DEF WriteState, Written, kept, WrittenInOrder
  <2>2. disk'.votes = votes /\ disk'.state = state
    BY <1>a, <2>1
  <2> QED BY <1>c, <2>1, <2>2 DEF StatesCovered
<1>8. CASE WriteCredits
  <2>1. state' = state /\ votes' = votes /\ day' = day /\ disk' = [disk EXCEPT !.credits = credits]
    BY <1>8 DEF WriteCredits, Written, kept
  <2>2. disk'.votes = disk.votes /\ disk'.state = disk.state
    BY <1>a, <2>1
  <2> QED BY <1>c, <2>1, <2>2 DEF StatesCovered
<1>9. CASE Restart
  <2>1. votes' = Unexpired(disk.votes, day) /\ state' = disk.state /\ disk' = disk /\ day' = day
    BY <1>9 DEF Restart
  <2>2. Covered(disk.state, votes', day)
    BY <1>a, <1>c, <2>1, UnexpiredCovers
  <2> QED BY <1>c, <2>1, <2>2 DEF StatesCovered
<1>10. CASE NextDay
  <2>1. votes' = votes /\ state' = state /\ disk' = disk /\ day' = day + 1
    BY <1>10 DEF NextDay, kept
  <2>2. /\ Covered(state, votes, day + 1) /\ Covered(disk.state, votes, day + 1)
        /\ Covered(disk.state, disk.votes, day + 1)
    BY <1>a, <1>c, StillCovered
  <2>3. /\ state.last_tick <= day + 1 /\ disk.state.last_tick <= day + 1
        /\ state.sweep_started <= day + 1 /\ disk.state.sweep_started <= day + 1
    BY <1>a, <1>b, <1>c
  <2> QED BY <1>c, <2>1, <2>2, <2>3 DEF StatesCovered
<1>11. CASE UNCHANGED <<votes, state, disk, day>>
  BY <1>11, <1>c DEF StatesCovered
<1>12. ASSUME AskAgain \/ StopAsking \/ ChangesAnswer \/ CreditsAnswer \/ WriteFails \/ WriterPanics
              \/ Rebuild \/ UNCHANGED vars
       PROVE  UNCHANGED <<votes, state, disk, day>>
  BY <1>12 DEF AskAgain, StopAsking, ChangesAnswer, CreditsAnswer, Answered, WriteFails,
               WriterPanics, Rebuild, vars, kept
<1>13. ASSUME ToChanged \/ ToFill \/ ToMissing \/ ToRolling \/ ToPersist
       PROVE  UNCHANGED <<votes, state, disk, day>>
  BY <1>13 DEF ToChanged, ToFill, ToMissing, ToRolling, ToPersist, Turned, kept
<1> QED
  BY <1>1, <1>2, <1>3, <1>4, <1>5, <1>6, <1>7, <1>8, <1>9, <1>10, <1>11, <1>12, <1>13 DEF TmdbNext

-----------------------------------------------------------------------------
(* The files, the credits, what is old and what a tick fills in.            *)

LEMMA WrittenStep == TypeOK /\ WrittenInOrder /\ [TmdbNext]_vars => WrittenInOrder'
<1> SUFFICES ASSUME TypeOK, WrittenInOrder, [TmdbNext]_vars PROVE WrittenInOrder'
  OBVIOUS
<1>0. disk = [votes |-> disk.votes, credits |-> disk.credits, state |-> disk.state]
  BY DEF TypeOK, FilesTypeOK
<1>1. CASE WriteVotes
  <2>1. phase' = "write credits" /\ votes' = votes /\ disk'.votes = votes
    BY <1>0, <1>1 DEF WriteVotes, Written, kept
  <2> QED BY <2>1 DEF WrittenInOrder
<1>2. CASE WriteCredits
  <2>1. /\ phase = "write credits" /\ phase' = "write state" /\ votes' = votes /\ credits' = credits
        /\ disk'.votes = disk.votes /\ disk'.credits = credits
    BY <1>0, <1>2 DEF WriteCredits, Written, kept
  <2> QED BY <2>1 DEF WrittenInOrder
<1>3. CASE WriteState
  <2>1. /\ phase = "write state" /\ phase' = "written" /\ credits' = credits
        /\ disk'.credits = disk.credits
    BY <1>0, <1>3 DEF WriteState, Written, kept
  <2> QED BY <2>1 DEF WrittenInOrder
<1>4. ASSUME phase' \notin {"write credits", "write state", "written"} PROVE WrittenInOrder'
  BY <1>4 DEF WrittenInOrder
<1>5. ASSUME UNCHANGED <<votes, credits, disk, phase>> PROVE WrittenInOrder'
  BY <1>5 DEF WrittenInOrder
<1>6. ASSUME \/ Tick \/ WriteFails \/ WriterPanics \/ Rebuild \/ Restart
             \/ ToChanged \/ ToSweep \/ ToFill \/ ToMissing \/ ToRolling \/ ToPersist
      PROVE  phase' \notin {"write credits", "write state", "written"}
  BY <1>6 DEF Tick, WriteFails, WriterPanics, Rebuild, Restart, ToChanged, ToSweep, ToFill,
              ToMissing, ToRolling, ToPersist, Turned
<1>7. ASSUME CreditsAnswer \/ FillAnswer \/ PageAnswer
      PROVE  phase' \notin {"write credits", "write state", "written"}
  BY <1>7 DEF CreditsAnswer, FillAnswer, PageAnswer, Answered
<1>8. ASSUME AskAgain \/ StopAsking \/ ChangesAnswer \/ PageGone \/ NextDay \/ UNCHANGED vars
      PROVE  UNCHANGED <<votes, credits, disk, phase>>
  BY <1>8 DEF AskAgain, StopAsking, ChangesAnswer, PageGone, Answered, NextDay, vars, kept
<1> QED BY <1>1, <1>2, <1>3, <1>4, <1>5, <1>6, <1>7, <1>8 DEF TmdbNext

LEMMA CreditsStep ==
    TypeOK /\ WrittenInOrder /\ CreditsHeld /\ [TmdbNext]_vars => CreditsHeld'
<1> SUFFICES ASSUME TypeOK, WrittenInOrder, CreditsHeld, [TmdbNext]_vars PROVE CreditsHeld'
  OBVIOUS
<1> USE DEF CreditsHeld, CreditsKept
<1>0. /\ disk = [votes |-> disk.votes, credits |-> disk.credits, state |-> disk.state]
      /\ credits_on_disk \in BOOLEAN /\ panicked \in BOOLEAN
  BY DEF TypeOK, FilesTypeOK, TickTypeOK
<1>1. CASE Tick
  <2>1. /\ credits' = Unexpired(credited, day) /\ credited' = Unexpired(credited, day)
        /\ credits_on_disk' = FALSE /\ panicked' = FALSE
    BY <1>1 DEF Tick
  <2> QED BY <2>1
<1>2. CASE CreditsAnswer
  <2>1. /\ phase \notin {"rest", "not written"} /\ phase' = phase /\ credits_on_disk' = credits_on_disk
        /\ panicked' = panicked /\ disk' = disk
        /\ \E d : /\ credits' = [credits EXCEPT ![NextTitle] = d]
                 /\ credited' = [credited EXCEPT ![NextTitle] = d]
    BY <1>2 DEF CreditsAnswer, Answered
  <2>2. ~ panicked /\ ~ credits_on_disk /\ credits = credited
    BY <1>0, <2>1
  <2> QED BY <1>0, <2>1, <2>2
<1>3. CASE WriteVotes \/ WriteState \/ WriteCredits
  <2>1. /\ UNCHANGED <<credits, credits_on_disk, credited, panicked>>
        /\ phase \notin {"rest", "not written"} /\ phase' # "rest"
    BY <1>3 DEF WriteVotes, WriteState, WriteCredits, Written, kept
  <2>2. ~ panicked /\ ~ credits_on_disk /\ credits = credited
    BY <1>0, <2>1
  <2> QED BY <1>0, <2>1, <2>2
<1>4. CASE WriteFails
  <2>1. UNCHANGED <<credits, credits_on_disk, credited, panicked, disk>> /\ phase # "rest"
        /\ phase' = "not written"
    BY <1>4 DEF WriteFails, Writing, kept
  <2> QED BY <2>1
<1>5. CASE WriterPanics
  <2>1. credited' = disk.credits /\ disk' = disk /\ credits_on_disk' = TRUE /\ panicked' = TRUE
        /\ phase' = "not written"
    BY <1>5 DEF WriterPanics
  <2> QED BY <2>1
<1>6. CASE Rebuild
  <2>1. /\ phase \in {"written", "not written"} /\ phase' = "rest" /\ disk' = disk
        /\ panicked' = panicked /\ credited' = credited /\ credits_on_disk' = (phase = "written")
        /\ links' = credited
        /\ credits' = IF phase = "written" THEN None ELSE credited
    BY <1>6 DEF Rebuild
  <2>2. CASE phase = "written"
    <3>1. ~ panicked /\ ~ credits_on_disk /\ credits = credited
      BY <1>0, <2>2
    <3>2. disk.credits = credits
      BY <2>2 DEF WrittenInOrder
    <3> QED BY <2>1, <2>2, <3>1, <3>2
  <2>3. CASE phase = "not written"
    BY <2>1, <2>3
  <2> QED BY <2>1, <2>2, <2>3
<1>7. CASE Restart
  BY <1>7 DEF Restart
<1>8. ASSUME UNCHANGED <<credits, credits_on_disk, credited, panicked, disk>>,
             phase' = phase \/ (phase \notin {"rest", "not written"} /\ phase' # "rest")
      PROVE  CreditsHeld'
  BY <1>0, <1>8
<1>9. ASSUME AskAgain \/ StopAsking \/ ChangesAnswer \/ FillAnswer \/ PageAnswer \/ PageGone
             \/ NextDay \/ UNCHANGED vars
      PROVE  UNCHANGED <<credits, credits_on_disk, credited, panicked, disk, phase>>
  BY <1>9 DEF AskAgain, StopAsking, ChangesAnswer, FillAnswer, PageAnswer, PageGone, Answered,
              NextDay, vars, kept
<1>10. ASSUME ToChanged \/ ToSweep \/ ToFill \/ ToMissing \/ ToRolling \/ ToPersist
       PROVE  /\ UNCHANGED <<credits, credits_on_disk, credited, panicked, disk>>
              /\ phase \notin {"rest", "not written"} /\ phase' # "rest"
  BY <1>10 DEF ToChanged, ToSweep, ToFill, ToMissing, ToRolling, ToPersist, Turned, kept
<1> QED BY <1>1, <1>2, <1>3, <1>4, <1>5, <1>6, <1>7, <1>8, <1>9, <1>10 DEF TmdbNext

(* What a tick's day holds of the answers it gets.                          *)
LEMMA AnswersAreRecent ==
    ASSUME TypeOK, StatesCovered, NEW d \in AnswerDay
    PROVE  /\ d # 0 /\ d + FillAfter > state.last_tick /\ IsRecent(d, state.last_tick)
           /\ d \in 0..MaxDay /\ d \in AnswerDay \cup {0}
<1>1. day \in Nat /\ state.last_tick \in 0..MaxDay /\ state.last_tick <= day /\ MaxDay \in Nat
  BY StateFields, TmdbNumbers, TmdbAssumption DEF TypeOK, FilesTypeOK, AskTypeOK, StatesCovered
<1>2. d \in 1..day /\ d + AnswerAge >= day
  BY DEF AnswerDay
<1>3. d \in 0..MaxDay
  BY AnswersAreDates DEF TypeOK, CountsTypeOK
<1>4. d + FillAfter > state.last_tick /\ d + MaxAge > state.last_tick
  BY <1>1, <1>2, TmdbNumbers, TmdbAssumption
<1> QED BY <1>2, <1>3, <1>4 DEF IsRecent, IsFresh

LEMMA UnexpiredRecent ==
    ASSUME TmdbAssumption, NEW v \in Dates, NEW asOf \in Nat, NEW tick \in Nat, tick <= asOf, NEW t \in Corpus
    PROVE  IsRecent(Unexpired(v, asOf)[t], tick)
<1>1. v[t] \in Nat /\ MaxAge \in Nat
  BY TmdbNumbers DEF Dates
<1> QED BY <1>1 DEF Unexpired, IsRecent, IsFresh

LEMMA OldStep ==
    TypeOK /\ StatesCovered /\ CreditsHeld /\ NothingOldHeld /\ [TmdbNext]_vars => NothingOldHeld'
<1> SUFFICES ASSUME TypeOK, StatesCovered, CreditsHeld, NothingOldHeld, [TmdbNext]_vars
             PROVE  NothingOldHeld'
  OBVIOUS
<1> DEFINE UsedAt(tick) == \A t \in Corpus : IsRecent(ratings[t], tick) /\ IsRecent(links[t], tick)
           HeldAt(tick) == \A t \in Corpus :
             IsRecent(votes[t], tick) /\ (panicked \/ IsRecent(credits[t], tick))
<1>a. /\ phase # "rest" => HeldAt(state.last_tick)
      /\ (phase = "rest" /\ ~ panicked) => UsedAt(state.last_tick)
  BY DEF NothingOldHeld, NothingOldUsed, IsRecent
<1>d. ASSUME phase' # "rest" => HeldAt(state.last_tick)',
             (phase' = "rest" /\ ~ panicked') => UsedAt(state.last_tick)'
      PROVE  NothingOldHeld'
  BY <1>d DEF NothingOldHeld, NothingOldUsed, IsRecent
<1>b. /\ votes \in Dates /\ credits \in Dates /\ disk.votes \in Dates /\ disk.credits \in Dates
      /\ state \in State /\ disk.state \in State /\ day \in Nat
  BY TmdbNumbers, TmdbAssumption DEF TypeOK, CountsTypeOK, FilesTypeOK, AskTypeOK
<1>c. state.last_tick \in Nat /\ disk.state.last_tick \in Nat /\ disk.state.last_tick <= day
  BY <1>b, StateFields, TmdbNumbers, TmdbAssumption DEF StatesCovered
<1>1. CASE Tick
  <2>1. /\ votes' = Unexpired(votes, day) /\ state'.last_tick = day /\ phase' = "changes"
        /\ \E v \in Dates : credits' = Unexpired(v, day)
    BY <1>b, <1>1 DEF Tick, State
  <2>2. HeldAt(state.last_tick)'
    BY <1>b, <2>1, UnexpiredRecent, TmdbAssumption
  <2> QED BY <1>a, <1>d, <2>1, <2>2
<1>2. CASE CreditsAnswer
  <2>1. /\ phase' = phase /\ phase # "rest" /\ votes' = votes /\ state' = state /\ panicked' = panicked
        /\ \E d \in AnswerDay \cup {0} : credits' = [credits EXCEPT ![NextTitle] = d]
    BY <1>2 DEF CreditsAnswer, Answered
  <2>2. \A d \in AnswerDay \cup {0} : IsRecent(d, state.last_tick)
    BY AnswersAreRecent DEF IsRecent
  <2>3. \A t \in Corpus : credits'[t] = credits[t] \/ IsRecent(credits'[t], state.last_tick)
    BY <1>b, <2>1, <2>2 DEF Dates
  <2> QED BY <1>a, <1>d, <2>1, <2>3
<1>3. CASE FillAnswer \/ PageAnswer
  <2>1. /\ phase' = phase /\ phase # "rest" /\ credits' = credits /\ panicked' = panicked
        /\ state'.last_tick = state.last_tick
    BY <1>b, <1>3 DEF FillAnswer, PageAnswer, Answered, State
  <2>2. \A d \in AnswerDay \cup {0} : IsRecent(d, state.last_tick)
    BY AnswersAreRecent DEF IsRecent
  <2>3. PICK d \in AnswerDay \cup {0} : \A t \in Corpus : votes'[t] = votes[t] \/ votes'[t] = d
    <3>1. CASE FillAnswer
      BY <1>b, <3>1 DEF FillAnswer, Dates
    <3>2. CASE PageAnswer
      BY <3>2 DEF PageAnswer
    <3> QED BY <1>3, <3>1, <3>2
  <2> QED BY <1>a, <1>d, <2>1, <2>2, <2>3
<1>4. CASE PageGone
  <2>1. UNCHANGED <<votes, credits, panicked, phase, ratings, links>> /\ state'.last_tick = state.last_tick
    BY <1>b, <1>4 DEF PageGone, Answered, indexes, State
  <2> QED BY <1>a, <1>d, <2>1
<1>5. CASE ToChanged \/ ToSweep \/ ToFill \/ ToMissing \/ ToRolling \/ ToPersist
  <2>1. /\ UNCHANGED <<votes, credits, panicked, ratings, links>> /\ phase # "rest" /\ phase' # "rest"
    BY <1>5 DEF ToChanged, ToSweep, ToFill, ToMissing, ToRolling, ToPersist, Turned, kept, indexes
  <2>2. state'.last_tick = state.last_tick
    BY <1>b, <1>5 DEF ToChanged, ToSweep, ToFill, ToMissing, ToRolling, ToPersist, State
  <2> QED BY <1>a, <1>d, <2>1, <2>2
<1>6. CASE WriterPanics
  <2>1. /\ UNCHANGED <<votes, state>> /\ phase # "rest" /\ phase' # "rest" /\ panicked'
    BY <1>6 DEF WriterPanics, Writing
  <2> QED BY <1>a, <1>d, <2>1
<1>7. CASE Rebuild
  <2>1. /\ phase # "rest" /\ phase' = "rest" /\ state' = state /\ panicked' = panicked
        /\ ratings' = votes /\ links' = IF credits_on_disk THEN disk.credits ELSE credits
    BY <1>7 DEF Rebuild
  <2>2. ~ panicked => links' = credits
    <3>1. credits_on_disk = panicked
      BY <2>1 DEF CreditsHeld
    <3> QED BY <2>1, <3>1, Zenon
  <2> QED BY <1>a, <1>d, <2>1, <2>2
<1>8. CASE Restart
  <2>1. /\ phase' = "rest" /\ state' = disk.state
        /\ ratings' = Unexpired(disk.votes, day) /\ links' = Unexpired(disk.credits, day)
    BY <1>8 DEF Restart
  <2>2. UsedAt(state.last_tick)'
    BY <1>b, <1>c, <2>1, UnexpiredRecent, TmdbAssumption
  <2> QED BY <1>a, <1>d, <2>1, <2>2
<1>9. CASE WriteVotes \/ WriteCredits \/ WriteState \/ WriteFails
  <2>1. UNCHANGED <<votes, credits, panicked, state, ratings, links>> /\ phase # "rest" /\ phase' # "rest"
    BY <1>9 DEF WriteVotes, WriteCredits, WriteState, Written, WriteFails, Writing, kept, indexes
  <2> QED BY <1>a, <1>d, <2>1
<1>10. CASE AskAgain \/ StopAsking \/ ChangesAnswer \/ NextDay \/ UNCHANGED vars
  <2>1. UNCHANGED <<votes, credits, panicked, phase, state, ratings, links>>
    BY <1>10 DEF AskAgain, StopAsking, ChangesAnswer, Answered, NextDay, vars, kept, indexes
  <2> QED BY <1>a, <1>d, <2>1
<1> QED BY <1>1, <1>2, <1>3, <1>4, <1>5, <1>6, <1>7, <1>8, <1>9, <1>10 DEF TmdbNext

LEMMA StoppedStays ==
    ASSUME AskTypeOK
    PROVE  /\ Paid.stopped = budget.stopped /\ \A b : Spent(b).stopped = b
           /\ \A from, to : Turned(from, to) => budget'.stopped = budget.stopped
<1>1. Paid.stopped = budget.stopped
  BY DEF AskTypeOK, Paid
<1>2. \A b : Spent(b).stopped = b
  BY DEF Spent
<1>3. ASSUME NEW from, NEW to, Turned(from, to) PROVE budget'.stopped = budget.stopped
  <2>1. budget' = Spent(budget.stopped) \/ budget' = budget
    BY <1>3 DEF Turned
  <2> QED BY <1>2, <2>1
<1> QED BY <1>1, <1>2, <1>3

LEMMA FillsStep ==
    TypeOK /\ StatesCovered /\ CreditsHeld /\ TickFills /\ [TmdbNext]_vars => TickFills'
<1> SUFFICES ASSUME TypeOK, StatesCovered, CreditsHeld, TickFills, [TmdbNext]_vars, ~ budget'.stopped,
                    NEW t \in Corpus
             PROVE  /\ t \in Listed /\ phase' \notin BeforeFill =>
                         \/ votes'[t] + FillAfter > state'.last_tick
                         \/ phase' = "fill" /\ t \in due'
                    /\ t \in Known /\ phase' \notin BeforeMissing /\ ~ panicked' =>
                         \/ (IF phase' = "rest" THEN links'[t] ELSE credits'[t]) # 0
                         \/ phase' = "missing" /\ t \in due'
  BY DEF TickFills
<1> USE DEF BeforeFill, BeforeMissing
<1>a. /\ votes \in Dates /\ credits \in Dates /\ state \in State
      /\ FillAfter \in Nat /\ state.last_tick \in Nat /\ votes[t] \in Nat
      /\ t \in Listed => t \in Known
  <2>1. votes \in Dates /\ credits \in Dates /\ state \in State /\ FillAfter \in Nat
    BY TmdbNumbers, TmdbAssumption DEF TypeOK, CountsTypeOK, FilesTypeOK
  <2>2. state.last_tick \in Nat /\ votes[t] \in Nat
    BY <2>1, TmdbNumbers, TmdbAssumption DEF State, Dates
  <2>3. t \in Listed => t \in Known
    BY TmdbAssumption DEF TmdbAssumption
  <2> QED BY <2>1, <2>2, <2>3
<1>b. AskTypeOK
  BY DEF TypeOK
<1>c. ASSUME ~ budget.stopped
      PROVE  /\ t \in Listed /\ phase \notin BeforeFill =>
                  votes[t] + FillAfter > state.last_tick \/ (phase = "fill" /\ t \in due)
             /\ t \in Known /\ phase \notin BeforeMissing /\ ~ panicked =>
                  \/ (IF phase = "rest" THEN links[t] ELSE credits[t]) # 0
                  \/ phase = "missing" /\ t \in due
  BY <1>c DEF TickFills
<1>1. CASE Tick
  BY <1>1 DEF Tick
<1>2. CASE StopAsking \/ Restart
  BY <1>b, <1>2, StoppedStays DEF StopAsking, Restart
<1>3. CASE ChangesAnswer \/ PageAnswer \/ PageGone
  BY <1>3 DEF ChangesAnswer, PageAnswer, PageGone, Answered
<1>4. CASE CreditsAnswer
  <2>1. /\ phase \in {"changed", "missing", "rolling"} /\ phase' = phase /\ ~ budget.stopped
        /\ due' = due \ {NextTitle} /\ votes' = votes /\ state' = state /\ panicked' = panicked
    BY <1>4 DEF CreditsAnswer, Answered, Asking
  <2>2. PICK d \in IF NextTitle \in Known THEN AnswerDay ELSE {0} :
          credits' = [credits EXCEPT ![NextTitle] = d]
    BY <1>4 DEF CreditsAnswer
  <2>3. NextTitle \in Known => d # 0
    BY <2>2, AnswersAreRecent
  <2>4. t \in Known => credits'[t] # 0 \/ (credits'[t] = credits[t] /\ t # NextTitle)
    BY <1>a, <2>2, <2>3 DEF Dates
  <2> HIDE DEF NextTitle
  <2> QED BY <1>c, <2>1, <2>4
<1>5. CASE FillAnswer
  <2>1. /\ phase = "fill" /\ phase' = phase /\ ~ budget.stopped
        /\ due' = due \ {NextTitle} /\ state' = state
    BY <1>5 DEF FillAnswer, Answered, Asking
  <2>2. PICK d \in (IF NextTitle \in Known THEN AnswerDay ELSE {})
                     \cup (IF NextTitle \in Listed THEN {} ELSE {0}) :
          votes' = [votes EXCEPT ![NextTitle] = d]
    BY <1>5 DEF FillAnswer
  <2>3. NextTitle \in Listed => d + FillAfter > state.last_tick
    BY <2>2, AnswersAreRecent
  <2>4. t \in Listed =>
          votes'[t] + FillAfter > state.last_tick \/ (votes'[t] = votes[t] /\ t # NextTitle)
    BY <1>a, <2>2, <2>3 DEF Dates
  <2> QED BY <1>c, <2>1, <2>4
<1>6. CASE ToChanged \/ ToSweep
  BY <1>6 DEF ToChanged, ToSweep, Turned
<1>7. CASE ToFill
  <2>1. /\ ~ budget.stopped /\ phase = "sweep" /\ phase' = "fill" /\ ~ Asking
        /\ UNCHANGED <<votes, state>> /\ due' = IF state.slices = <<>> THEN Unfilled ELSE {}
    BY <1>b, <1>7, StoppedStays DEF ToFill, Turned, kept
  <2>2. due' = Unfilled
    BY <2>1 DEF Asking
  <2>3. t \in due' \/ votes[t] + FillAfter > state.last_tick
    BY <1>a, <2>2 DEF Unfilled
  <2> QED BY <2>1, <2>3
<1>8. CASE ToMissing
  <2>1. /\ ~ budget.stopped /\ phase = "fill" /\ phase' = "missing" /\ ~ Asking
        /\ UNCHANGED <<votes, credits, state>> /\ due' = {u \in Corpus : credits[u] = 0}
    BY <1>b, <1>8, StoppedStays DEF ToMissing, Turned, kept
  <2>2. due = {}
    BY <2>1 DEF Asking
  <2>3. t \in due' \/ credits'[t] # 0
    BY <2>1
  <2> QED BY <1>c, <2>1, <2>2, <2>3
<1>9. CASE ToRolling \/ ToPersist
  <2>1. /\ ~ budget.stopped /\ phase \in {"missing", "rolling"} /\ phase' \in {"rolling", "write votes"}
        /\ ~ Asking /\ UNCHANGED <<votes, credits, state, panicked>>
    BY <1>b, <1>9, StoppedStays DEF ToRolling, ToPersist, Turned, kept
  <2>2. due = {}
    BY <2>1 DEF Asking
  <2> QED BY <1>c, <2>1, <2>2
<1>10. CASE WriteVotes \/ WriteCredits \/ WriteState \/ WriteFails
  <2>1. /\ phase \in {"write votes", "write credits", "write state"}
        /\ phase' \in {"write credits", "write state", "written", "not written"}
        /\ UNCHANGED <<votes, credits, state, panicked, budget>>
    BY <1>10 DEF WriteVotes, WriteCredits, WriteState, Written, WriteFails, Writing, kept
  <2> QED BY <1>c, <2>1
<1>11. CASE WriterPanics
  <2>1. /\ phase \in {"write votes", "write credits", "write state"} /\ phase' = "not written"
        /\ UNCHANGED <<votes, state, budget>> /\ panicked'
    BY <1>11 DEF WriterPanics, Writing
  <2> QED BY <1>c, <2>1
<1>12. CASE Rebuild
  <2>1. /\ phase \in {"written", "not written"} /\ phase' = "rest"
        /\ UNCHANGED <<votes, state, panicked, budget>>
        /\ links' = IF credits_on_disk THEN disk.credits ELSE credits
    BY <1>12 DEF Rebuild
  <2>2. ~ panicked => links' = credits
    <3>1. credits_on_disk = panicked
      BY <2>1 DEF CreditsHeld
    <3> QED BY <2>1, <3>1, Zenon
  <2> QED BY <1>c, <2>1, <2>2
<1>13. CASE AskAgain \/ NextDay \/ UNCHANGED vars
  <2>1. UNCHANGED <<votes, credits, links, state, panicked, phase, due>>
    BY <1>13 DEF AskAgain, NextDay, vars, kept, indexes, questions
  <2>2. ~ budget.stopped
    BY <1>b, <1>13, StoppedStays DEF AskAgain, NextDay, vars
  <2> QED BY <1>c, <2>1, <2>2
<1> QED
  BY <1>1, <1>2, <1>3, <1>4, <1>5, <1>6, <1>7, <1>8, <1>9, <1>10, <1>11, <1>12, <1>13 DEF TmdbNext

LEMMA TmdbInitIInv == TmdbInit => TmdbIInv
<1> SUFFICES ASSUME TmdbInit PROVE TmdbIInv
  OBVIOUS
<1>1. TypeOK
  BY TmdbInitType
<1>2. StatesCovered
  BY DEF StatesCovered, TmdbInit, NoState, Covered, SlicesSound
<1>3. WrittenInOrder
  BY DEF WrittenInOrder, TmdbInit
<1>4. CreditsHeld
  BY DEF CreditsHeld, CreditsKept, TmdbInit
<1>5. NothingOldHeld
  BY TmdbNumbers, TmdbAssumption DEF NothingOldHeld, NothingOldUsed, TmdbInit, NoState, None, IsFresh
<1>6. TickFills
  BY DEF TickFills, TmdbInit, Spent
<1> QED BY <1>1, <1>2, <1>3, <1>4, <1>5, <1>6 DEF TmdbIInv

LEMMA TmdbIInvImplies == TmdbIInv => TmdbInv
<1> SUFFICES ASSUME TmdbIInv PROVE TmdbInv
  OBVIOUS
<1>1. TypeOK /\ SweepCovers /\ FilesCover /\ CreditsKept /\ NothingOldUsed
  BY DEF TmdbIInv, StatesCovered, SweepCovers, FilesCover, CreditsHeld, NothingOldHeld
<1>2. FullTick
  BY DEF TmdbIInv, TickFills, FullTick, BeforeFill, BeforeMissing
<1> QED BY <1>1, <1>2 DEF TmdbInv

(* For every corpus and every listing of it by discover: a sweep passes no  *)
(* title discover can reach, and the files never count on a page whose      *)
(* votes were not kept; no credits are lost but to a panic; nothing past    *)
(* six months is used; and a tick nothing stopped fills every gap.          *)
THEOREM SweepPassesNoTitle == TmdbSpec => []TmdbInv
<1>1. TmdbIInv /\ [TmdbNext]_vars => TmdbIInv'
  BY TmdbTypeStep, CoveredStep, WrittenStep, CreditsStep, OldStep, FillsStep DEF TmdbIInv, StatesCovered
<1> QED BY <1>1, TmdbInitIInv, TmdbIInvImplies, PTL DEF TmdbSpec
=============================================================================
