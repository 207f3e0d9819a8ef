------------------------------ MODULE SharedProofs ------------------------------
(***************************************************************************)
(* Of what requests share.  For every number of rows, tasks, puts and      *)
(* restarts: one coordinator at a time writes the rows' file, the file     *)
(* never goes back to an older row, and a row that is not in the file is   *)
(* still going to be written, unless the last pass failed (RowCacheFile).  *)
(* For every set of requests and every number of permits: none is kept by  *)
(* what is over, and none is passed by (EmbedProxy).                       *)
(* For every length of day: the title search never goes back to an earlier *)
(* day's exports (TitleExports).                                           *)
(* For all titles, kinds and questions: what counts.json tells of a value is *)
(* what asking for that value would find, and the pages of titles.json hold  *)
(* every match once, in order (FilterAnswers).                              *)
(***************************************************************************)
EXTENDS RowCacheFile, EmbedProxy, TitleExports, FilterAnswers, CommonTheorems

-----------------------------------------------------------------------------
(* RowCacheFile.                                                           *)

LEMMA EmptyImage == Empty \in Image
BY BoundsAssumption DEF Empty, Image, Row

LEMMA InitIInv == Init => IInv
<1> SUFFICES ASSUME Init PROVE IInv
  OBVIOUS
<1> USE BoundsAssumption
<1>1. TypeOK
  <2>1. rows \in [Key -> Row] /\ stored \in [Key -> 0..MaxClock]
    BY DEF Init, Empty, Row
  <2>2. snapshot \in [Writer -> Image] /\ disk \in Image /\ partial \in Image
    BY EmptyImage DEF Init
  <2>3. 0 \in Row /\ 0 \in 0..MaxClock /\ 0 \in 0..MaxRestarts
    BY DEF Row
  <2>4. written \in [Writer -> Row \cup {NoGeneration}]
    BY DEF Init
  <2> QED BY <2>1, <2>2, <2>3, <2>4 DEF Init, TypeOK
<1>2. SavingIsActive /\ OneWriter
  BY DEF Init, SavingIsActive, OneWriter, Active
<1>3. NoneFromAhead
  BY DEF Init, NoneFromAhead, Empty
<1>4. PassCarries /\ LaterPassCarriesMore
  BY DEF Init, PassCarries, LaterPassCarriesMore
<1>5. ReportedIsSaved /\ SavedOrOwed
  BY DEF Init, ReportedIsSaved, SavedOrOwed, FileHolds, Empty
<1> QED BY <1>1, <1>2, <1>3, <1>4, <1>5 DEF IInv

(* A put leaves every other key's row, or drops it to make room. *)
LEMMA PutMakesRoom ==
    ASSUME IInv, NEW p \in Putter, NEW k \in Key, Put(p, k)
    PROVE  \E room \in [Key -> Row] :
              /\ \A j \in Key : room[j] \in {rows[j], 0}
              /\ rows' = [room EXCEPT ![k] = puts + 1]
              /\ stored' = Stamped(room, k)
<1>1. rows \in [Key -> Row] /\ 0 \in Row
  BY BoundsAssumption DEF IInv, TypeOK, Row
<1>2. PICK room \in {[rows EXCEPT ![old] = 0] : old \in Oldest(rows, stored)} \cup {rows} :
         rows' = [room EXCEPT ![k] = puts + 1] /\ stored' = Stamped(room, k)
  BY DEF Put
<1>3. room \in [Key -> Row] /\ \A j \in Key : room[j] \in {rows[j], 0}
  BY <1>1, <1>2
<1> QED BY <1>2, <1>3

LEMMA NextTypeOK == IInv /\ [Next]_vars => TypeOK'
<1> SUFFICES ASSUME IInv, [Next]_vars
             PROVE  TypeOK'
  OBVIOUS
<1> USE BoundsAssumption
        DEF cacheVars, writerVars, fileVars, timeVars, IInv, TypeOK
<1>1. ASSUME NEW p \in Putter, NEW k \in Key, Put(p, k)
      PROVE  TypeOK'
  <2>1. PICK room \in [Key -> Row] : rows' = [room EXCEPT ![k] = puts + 1] /\ stored' = Stamped(room, k)
    BY <1>1, PutMakesRoom
  <2>2. puts' \in Row /\ generation' \in Row /\ puts + 1 \in Row
    BY <1>1 DEF Put, IInv, TypeOK, Row, NoneFromAhead
  <2>3. rows' \in [Key -> Row]
    BY <2>1, <2>2
  <2>4. stored' \in [Key -> 0..MaxClock]
    BY <2>1 DEF Stamped, IInv, TypeOK
  <2>5. putting' \in SUBSET Putter
    BY <1>1 DEF Put, IInv, TypeOK
  <2> QED BY <1>1, <2>2, <2>3, <2>4, <2>5 DEF Put, writerVars, fileVars, timeVars, IInv, TypeOK
<1>2. ASSUME NEW p \in Putter, Save(p)
      PROVE  TypeOK'
  BY <1>2 DEF Save
<1>3. ASSUME NEW w \in Writer, EndWindow(w)
      PROVE  TypeOK'
  BY <1>3 DEF EndWindow
<1>4. ASSUME NEW w \in Writer, Serialize(w)
      PROVE  TypeOK'
  BY <1>4 DEF Serialize, Image
<1>5. ASSUME NEW w \in Writer, WriteBeside(w)
      PROVE  TypeOK'
  BY <1>5 DEF WriteBeside
<1>6. ASSUME NEW w \in Writer, Rename(w)
      PROVE  TypeOK'
  BY <1>6 DEF Rename
<1>7. ASSUME NEW w \in Writer, WriteFails(w)
      PROVE  TypeOK'
  BY <1>7 DEF WriteFails
<1>8. ASSUME NEW w \in Writer, WriterPanics(w)
      PROVE  TypeOK'
  BY <1>8 DEF WriterPanics
<1>9. ASSUME NEW w \in Writer, Follow(w)
      PROVE  TypeOK'
  BY <1>9 DEF Follow
<1>10. ASSUME NEW w \in Writer, Clear(w)
      PROVE  TypeOK'
  BY <1>10 DEF Clear
<1>11. ASSUME NEW w \in Writer, CheckAgain(w)
      PROVE  TypeOK'
  BY <1>11 DEF CheckAgain
<1>12. ASSUME NEW image \in {disk, Empty}, Restart(image)
      PROVE  TypeOK'
  <2>1. image \in Image
    BY EmptyImage DEF IInv, TypeOK
  <2>2. rows' \in [Key -> Row] /\ stored' \in [Key -> 0..MaxClock]
    BY <1>12, <2>1 DEF Restart, Image
  <2>3. snapshot' \in [Writer -> Image]
    BY <1>12, EmptyImage DEF Restart
  <2>4. restarts' \in 0..MaxRestarts
    BY <1>12 DEF Restart, IInv, TypeOK
  <2>5. 0 \in Row /\ written' \in [Writer -> Row \cup {NoGeneration}]
    BY <1>12 DEF Restart, Row
  <2> QED BY <1>12, <2>2, <2>3, <2>4, <2>5 DEF Restart, fileVars, timeVars, IInv, TypeOK
<1>13. ASSUME MoveClock
      PROVE  TypeOK'
  BY <1>13 DEF MoveClock
<1>14. CASE UNCHANGED vars
  BY <1>14 DEF vars
<1> QED BY <1>1, <1>2, <1>3, <1>4, <1>5, <1>6, <1>7, <1>8, <1>9, <1>10, <1>11, <1>12, <1>13,
           <1>14 DEF Next, WriterStep

(* Only Save and CheckAgain raise the flag, each with one coordinator entering *)
(* its loop; only Clear lowers it, as the one inside leaves.                   *)
LEMMA NextOneWriter == IInv /\ [Next]_vars => (SavingIsActive /\ OneWriter)'
<1> SUFFICES ASSUME IInv, [Next]_vars
             PROVE  (SavingIsActive /\ OneWriter)'
  OBVIOUS
<1> USE BoundsAssumption
        DEF cacheVars, writerVars, fileVars, timeVars, IInv, TypeOK, SavingIsActive, OneWriter,
            Active, Behind
<1>1. ASSUME NEW p \in Putter, NEW k \in Key, Put(p, k)
      PROVE  (SavingIsActive /\ OneWriter)'
  BY <1>1 DEF Put
<1>2. ASSUME NEW p \in Putter, Save(p)
      PROVE  (SavingIsActive /\ OneWriter)'
  BY <1>2 DEF Save
<1>3. ASSUME NEW w \in Writer, EndWindow(w)
      PROVE  (SavingIsActive /\ OneWriter)'
  BY <1>3 DEF EndWindow
<1>4. ASSUME NEW w \in Writer, Serialize(w)
      PROVE  (SavingIsActive /\ OneWriter)'
  BY <1>4 DEF Serialize
<1>5. ASSUME NEW w \in Writer, WriteBeside(w)
      PROVE  (SavingIsActive /\ OneWriter)'
  BY <1>5 DEF WriteBeside
<1>6. ASSUME NEW w \in Writer, Rename(w)
      PROVE  (SavingIsActive /\ OneWriter)'
  BY <1>6 DEF Rename
<1>7. ASSUME NEW w \in Writer, WriteFails(w)
      PROVE  (SavingIsActive /\ OneWriter)'
  BY <1>7 DEF WriteFails
<1>8. ASSUME NEW w \in Writer, WriterPanics(w)
      PROVE  (SavingIsActive /\ OneWriter)'
  BY <1>8 DEF WriterPanics
<1>9. ASSUME NEW w \in Writer, Follow(w)
      PROVE  (SavingIsActive /\ OneWriter)'
  BY <1>9 DEF Follow
<1>10. ASSUME NEW w \in Writer, Clear(w)
      PROVE  (SavingIsActive /\ OneWriter)'
  BY <1>10 DEF Clear
<1>11. ASSUME NEW w \in Writer, CheckAgain(w)
      PROVE  (SavingIsActive /\ OneWriter)'
  BY <1>11 DEF CheckAgain
<1>12. ASSUME NEW image \in {disk, Empty}, Restart(image)
      PROVE  (SavingIsActive /\ OneWriter)'
  BY <1>12 DEF Restart
<1>13. ASSUME MoveClock
      PROVE  (SavingIsActive /\ OneWriter)'
  BY <1>13 DEF MoveClock
<1>14. CASE UNCHANGED vars
  BY <1>14 DEF vars
<1> QED BY <1>1, <1>2, <1>3, <1>4, <1>5, <1>6, <1>7, <1>8, <1>9, <1>10, <1>11, <1>12, <1>13,
           <1>14 DEF Next, WriterStep

(* Put numbers a row past all others; one coordinator at a time carries rows *)
(* to the file.                                                              *)
LEMMA NextNoneFromAhead == IInv /\ [Next]_vars => NoneFromAhead'
<1> SUFFICES ASSUME IInv, [Next]_vars
             PROVE  NoneFromAhead'
  OBVIOUS
<1> USE BoundsAssumption
        DEF cacheVars, writerVars, fileVars, timeVars, IInv, TypeOK, Image, Row, Empty, NoneFromAhead,
            OneWriter, Active, PassCarries
<1>1. ASSUME NEW p \in Putter, NEW k \in Key, Put(p, k)
      PROVE  NoneFromAhead'
  <2>1. PICK room \in [Key -> Row] :
          /\ \A j \in Key : room[j] \in {rows[j], 0}
          /\ rows' = [room EXCEPT ![k] = puts + 1]
    BY <1>1, PutMakesRoom
  <2>2. \A j \in Key : rows'[j] = IF j = k THEN puts + 1 ELSE room[j]
    BY <2>1
  <2>3. /\ rows \in [Key -> Row] /\ disk.rows \in [Key -> Row] /\ puts \in Nat /\ generation \in Nat
        /\ \A w \in Writer : snapshot[w].rows \in [Key -> Row]
    OBVIOUS
  <2>4. /\ puts' = puts + 1 /\ generation' = generation + 1
        /\ disk' = disk /\ snapshot' = snapshot /\ pc' = pc
    BY <1>1 DEF Put
  <2> QED BY <2>1, <2>2, <2>3, <2>4
<1>2. ASSUME NEW p \in Putter, Save(p)
      PROVE  NoneFromAhead'
  BY <1>2 DEF Save
<1>3. ASSUME NEW w \in Writer, EndWindow(w)
      PROVE  NoneFromAhead'
  BY <1>3 DEF EndWindow
<1>4. ASSUME NEW w \in Writer, Serialize(w)
      PROVE  NoneFromAhead'
  BY <1>4 DEF Serialize
<1>5. ASSUME NEW w \in Writer, WriteBeside(w)
      PROVE  NoneFromAhead'
  BY <1>5 DEF WriteBeside
<1>6. ASSUME NEW w \in Writer, Rename(w)
      PROVE  NoneFromAhead'
  <2>1. disk' = snapshot[w] /\ rows' = rows /\ puts' = puts /\ generation' = generation /\ snapshot' = snapshot
    BY <1>6 DEF Rename
  <2>2. \A v \in Writer : pc'[v] \notin {"writing", "renaming"}
    BY <1>6 DEF Rename
  <2>3. \A k \in Key : snapshot[w].rows[k] <= puts /\ (rows[k] # 0 => snapshot[w].rows[k] <= rows[k])
    BY <1>6 DEF Rename
  <2> QED BY <2>1, <2>2, <2>3
<1>7. ASSUME NEW w \in Writer, WriteFails(w)
      PROVE  NoneFromAhead'
  BY <1>7 DEF WriteFails
<1>8. ASSUME NEW w \in Writer, WriterPanics(w)
      PROVE  NoneFromAhead'
  BY <1>8 DEF WriterPanics
<1>9. ASSUME NEW w \in Writer, Follow(w)
      PROVE  NoneFromAhead'
  BY <1>9 DEF Follow
<1>10. ASSUME NEW w \in Writer, Clear(w)
      PROVE  NoneFromAhead'
  BY <1>10 DEF Clear
<1>11. ASSUME NEW w \in Writer, CheckAgain(w)
      PROVE  NoneFromAhead'
  BY <1>11 DEF CheckAgain
<1>12. ASSUME NEW image \in {disk, Empty}, Restart(image)
      PROVE  NoneFromAhead'
  BY <1>12 DEF Restart
<1>13. ASSUME MoveClock
      PROVE  NoneFromAhead'
  BY <1>13 DEF MoveClock
<1>14. CASE UNCHANGED vars
  BY <1>14 DEF vars
<1> QED BY <1>1, <1>2, <1>3, <1>4, <1>5, <1>6, <1>7, <1>8, <1>9, <1>10, <1>11, <1>12, <1>13,
           <1>14 DEF Next, WriterStep

(* Rows and generation are read together, and every put counts. *)
LEMMA NextPassCarries == IInv /\ [Next]_vars => PassCarries'
<1> SUFFICES ASSUME IInv, [Next]_vars
             PROVE  PassCarries'
  OBVIOUS
<1> USE BoundsAssumption
        DEF cacheVars, writerVars, fileVars, timeVars, IInv, TypeOK, Image, Row, PassCarries,
            OneWriter, Active, Behind
<1>1. ASSUME NEW p \in Putter, NEW k \in Key, Put(p, k)
      PROVE  PassCarries'
  BY <1>1 DEF Put
<1>2. ASSUME NEW p \in Putter, Save(p)
      PROVE  PassCarries'
  BY <1>2 DEF Save
<1>3. ASSUME NEW w \in Writer, EndWindow(w)
      PROVE  PassCarries'
  BY <1>3 DEF EndWindow
<1>4. ASSUME NEW w \in Writer, Serialize(w)
      PROVE  PassCarries'
  BY <1>4 DEF Serialize
<1>5. ASSUME NEW w \in Writer, WriteBeside(w)
      PROVE  PassCarries'
  BY <1>5 DEF WriteBeside
<1>6. ASSUME NEW w \in Writer, Rename(w)
      PROVE  PassCarries'
  BY <1>6 DEF Rename
<1>7. ASSUME NEW w \in Writer, WriteFails(w)
      PROVE  PassCarries'
  BY <1>7 DEF WriteFails
<1>8. ASSUME NEW w \in Writer, WriterPanics(w)
      PROVE  PassCarries'
  BY <1>8 DEF WriterPanics
<1>9. ASSUME NEW w \in Writer, Follow(w)
      PROVE  PassCarries'
  BY <1>9 DEF Follow
<1>10. ASSUME NEW w \in Writer, Clear(w)
      PROVE  PassCarries'
  BY <1>10 DEF Clear
<1>11. ASSUME NEW w \in Writer, CheckAgain(w)
      PROVE  PassCarries'
  BY <1>11 DEF CheckAgain
<1>12. ASSUME NEW image \in {disk, Empty}, Restart(image)
      PROVE  PassCarries'
  BY <1>12 DEF Restart
<1>13. ASSUME MoveClock
      PROVE  PassCarries'
  BY <1>13 DEF MoveClock
<1>14. CASE UNCHANGED vars
  BY <1>14 DEF vars
<1> QED BY <1>1, <1>2, <1>3, <1>4, <1>5, <1>6, <1>7, <1>8, <1>9, <1>10, <1>11, <1>12, <1>13,
           <1>14 DEF Next, WriterStep

(* A pass reads the generation after those that left the loop reported theirs. *)
LEMMA NextLater == IInv /\ [Next]_vars => LaterPassCarriesMore'
<1> SUFFICES ASSUME IInv, [Next]_vars
             PROVE  LaterPassCarriesMore'
  OBVIOUS
<1> USE BoundsAssumption
        DEF cacheVars, writerVars, fileVars, timeVars, IInv, TypeOK, Image, Row, PassCarries,
            LaterPassCarriesMore, OneWriter, Active, Behind
<1>1. ASSUME NEW p \in Putter, NEW k \in Key, Put(p, k)
      PROVE  LaterPassCarriesMore'
  BY <1>1 DEF Put
<1>2. ASSUME NEW p \in Putter, Save(p)
      PROVE  LaterPassCarriesMore'
  BY <1>2 DEF Save
<1>3. ASSUME NEW w \in Writer, EndWindow(w)
      PROVE  LaterPassCarriesMore'
  BY <1>3 DEF EndWindow
<1>4. ASSUME NEW w \in Writer, Serialize(w)
      PROVE  LaterPassCarriesMore'
  BY <1>4 DEF Serialize
<1>5. ASSUME NEW w \in Writer, WriteBeside(w)
      PROVE  LaterPassCarriesMore'
  BY <1>5 DEF WriteBeside
<1>6. ASSUME NEW w \in Writer, Rename(w)
      PROVE  LaterPassCarriesMore'
  BY <1>6 DEF Rename
<1>7. ASSUME NEW w \in Writer, WriteFails(w)
      PROVE  LaterPassCarriesMore'
  BY <1>7 DEF WriteFails
<1>8. ASSUME NEW w \in Writer, WriterPanics(w)
      PROVE  LaterPassCarriesMore'
  BY <1>8 DEF WriterPanics
<1>9. ASSUME NEW w \in Writer, Follow(w)
      PROVE  LaterPassCarriesMore'
  BY <1>9 DEF Follow
<1>10. ASSUME NEW w \in Writer, Clear(w)
      PROVE  LaterPassCarriesMore'
  BY <1>10 DEF Clear
<1>11. ASSUME NEW w \in Writer, CheckAgain(w)
      PROVE  LaterPassCarriesMore'
  <2>1. \A v \in Writer : pc'[v] # pc[v] => pc'[v] \in {"window", "off"}
    BY <1>11 DEF CheckAgain
  <2> QED BY <1>11, <2>1 DEF CheckAgain
<1>12. ASSUME NEW image \in {disk, Empty}, Restart(image)
      PROVE  LaterPassCarriesMore'
  BY <1>12 DEF Restart
<1>13. ASSUME MoveClock
      PROVE  LaterPassCarriesMore'
  BY <1>13 DEF MoveClock
<1>14. CASE UNCHANGED vars
  BY <1>14 DEF vars
<1> QED BY <1>1, <1>2, <1>3, <1>4, <1>5, <1>6, <1>7, <1>8, <1>9, <1>10, <1>11, <1>12, <1>13,
           <1>14 DEF Next, WriterStep

LEMMA NextReported == IInv /\ [Next]_vars => ReportedIsSaved'
<1> SUFFICES ASSUME IInv, [Next]_vars
             PROVE  ReportedIsSaved'
  OBVIOUS
<1> USE BoundsAssumption
        DEF cacheVars, writerVars, fileVars, timeVars, IInv, TypeOK, Row, PassCarries,
            LaterPassCarriesMore, ReportedIsSaved, FileHolds, OneWriter, Active, Behind
<1>1. ASSUME NEW p \in Putter, NEW k \in Key, Put(p, k)
      PROVE  ReportedIsSaved'
  <2>1. \A w \in Writer : written[w] # generation'
    BY <1>1 DEF Put
  <2> QED BY <1>1, <2>1 DEF Put
<1>2. ASSUME NEW p \in Putter, Save(p)
      PROVE  ReportedIsSaved'
  BY <1>2 DEF Save
<1>3. ASSUME NEW w \in Writer, EndWindow(w)
      PROVE  ReportedIsSaved'
  BY <1>3 DEF EndWindow
<1>4. ASSUME NEW w \in Writer, Serialize(w)
      PROVE  ReportedIsSaved'
  BY <1>4 DEF Serialize
<1>5. ASSUME NEW w \in Writer, WriteBeside(w)
      PROVE  ReportedIsSaved'
  BY <1>5 DEF WriteBeside
<1>6. ASSUME NEW w \in Writer, Rename(w)
      PROVE  ReportedIsSaved'
  <2>1. disk' = snapshot[w] /\ rows' = rows /\ generation' = generation /\ written' = written
    BY <1>6 DEF Rename
  <2>2. written[w] \in Nat /\ written[w] <= generation /\ generation \in Nat
    BY <1>6 DEF Rename
  <2>3. \A v \in Writer : pc'[v] \in {"reported", "clearing", "cleared"} => v = w \/ pc[v] = "cleared"
    BY <1>6 DEF Rename
  <2>4. \A v \in Writer : pc[v] = "cleared" /\ written[v] = generation => written[w] = generation
    BY <1>6, <2>2 DEF Rename
  <2>5. written[w] = generation => FileHolds'
    BY <1>6, <2>1 DEF Rename
  <2> QED BY <2>1, <2>3, <2>4, <2>5
<1>7. ASSUME NEW w \in Writer, WriteFails(w)
      PROVE  ReportedIsSaved'
  BY <1>7 DEF WriteFails
<1>8. ASSUME NEW w \in Writer, WriterPanics(w)
      PROVE  ReportedIsSaved'
  BY <1>8 DEF WriterPanics
<1>9. ASSUME NEW w \in Writer, Follow(w)
      PROVE  ReportedIsSaved'
  BY <1>9 DEF Follow
<1>10. ASSUME NEW w \in Writer, Clear(w)
      PROVE  ReportedIsSaved'
  BY <1>10 DEF Clear
<1>11. ASSUME NEW w \in Writer, CheckAgain(w)
      PROVE  ReportedIsSaved'
  BY <1>11 DEF CheckAgain
<1>12. ASSUME NEW image \in {disk, Empty}, Restart(image)
      PROVE  ReportedIsSaved'
  BY <1>12 DEF Restart
<1>13. ASSUME MoveClock
      PROVE  ReportedIsSaved'
  BY <1>13 DEF MoveClock
<1>14. CASE UNCHANGED vars
  BY <1>14 DEF vars
<1> QED BY <1>1, <1>2, <1>3, <1>4, <1>5, <1>6, <1>7, <1>8, <1>9, <1>10, <1>11, <1>12, <1>13,
           <1>14 DEF Next, WriterStep

LEMMA NextSaved == IInv /\ [Next]_vars => SavedOrOwed'
<1> SUFFICES ASSUME IInv, [Next]_vars
             PROVE  SavedOrOwed'
  OBVIOUS
<1> USE BoundsAssumption
        DEF cacheVars, writerVars, fileVars, timeVars, IInv, TypeOK, Row, PassCarries,
            ReportedIsSaved, SavedOrOwed, Owes, FileHolds, OneWriter, SavingIsActive,
            Active, Behind
<1>1. ASSUME NEW p \in Putter, NEW k \in Key, Put(p, k)
      PROVE  SavedOrOwed'
  BY <1>1 DEF Put
<1>2. ASSUME NEW p \in Putter, Save(p)
      PROVE  SavedOrOwed'
  BY <1>2 DEF Save
<1>3. ASSUME NEW w \in Writer, EndWindow(w)
      PROVE  SavedOrOwed'
  BY <1>3 DEF EndWindow
<1>4. ASSUME NEW w \in Writer, Serialize(w)
      PROVE  SavedOrOwed'
  BY <1>4 DEF Serialize
<1>5. ASSUME NEW w \in Writer, WriteBeside(w)
      PROVE  SavedOrOwed'
  BY <1>5 DEF WriteBeside
<1>6. ASSUME NEW w \in Writer, Rename(w)
      PROVE  SavedOrOwed'
  BY <1>6 DEF Rename
<1>7. ASSUME NEW w \in Writer, WriteFails(w)
      PROVE  SavedOrOwed'
  BY <1>7 DEF WriteFails
<1>8. ASSUME NEW w \in Writer, WriterPanics(w)
      PROVE  SavedOrOwed'
  BY <1>8 DEF WriterPanics
<1>9. ASSUME NEW w \in Writer, Follow(w)
      PROVE  SavedOrOwed'
  BY <1>9 DEF Follow
<1>10. ASSUME NEW w \in Writer, Clear(w)
      PROVE  SavedOrOwed'
  BY <1>10 DEF Clear
<1>11. ASSUME NEW w \in Writer, CheckAgain(w)
      PROVE  SavedOrOwed'
  BY <1>11 DEF CheckAgain
<1>12. ASSUME NEW image \in {disk, Empty}, Restart(image)
      PROVE  SavedOrOwed'
  <2>1. FileHolds'
    BY <1>12 DEF Restart, Empty
  <2> QED BY <2>1
<1>13. ASSUME MoveClock
      PROVE  SavedOrOwed'
  BY <1>13 DEF MoveClock
<1>14. CASE UNCHANGED vars
  BY <1>14 DEF vars
<1> QED BY <1>1, <1>2, <1>3, <1>4, <1>5, <1>6, <1>7, <1>8, <1>9, <1>10, <1>11, <1>12, <1>13,
           <1>14 DEF Next, WriterStep

LEMMA NextIInv == IInv /\ [Next]_vars => IInv'
<1> SUFFICES ASSUME IInv, [Next]_vars
             PROVE  IInv'
  OBVIOUS
<1>1. TypeOK' /\ (SavingIsActive /\ OneWriter)' /\ NoneFromAhead'
  BY NextTypeOK, NextOneWriter, NextNoneFromAhead
<1>2. PassCarries' /\ LaterPassCarriesMore' /\ ReportedIsSaved' /\ SavedOrOwed'
  BY NextPassCarries, NextLater, NextReported, NextSaved
<1> QED BY <1>1, <1>2 DEF IInv

(* The inductive invariant holds of every behaviour. *)
THEOREM Invariance == Spec => []IInv
<1> QED BY InitIInv, NextIInv, PTL DEF Spec

(* `saving` keeps the coordinators apart: one at a time is in its loop. *)
THEOREM SingleWriter == Spec => []OneWriter
<1>1. IInv => OneWriter
  BY DEF IInv
<1> QED BY <1>1, Invariance, PTL

(* `save`: a row stored while a pass waits or writes is in it or in a      *)
(* guaranteed follow-up; only a failed pass leaves it to the next put.     *)
THEOREM NothingForgotten == Spec => []SavedOrPending
<1>1. IInv => SavedOrPending
  <2> SUFFICES ASSUME IInv, NEW k \in Key, rows[k] # 0, disk.rows[k] # rows[k], ~failed
               PROVE  Pending
    BY DEF SavedOrPending
  <2>1. putting # {} \/ \E w \in Writer : Owes(w)
    BY DEF IInv, SavedOrOwed, FileHolds
  <2> QED BY <2>1 DEF Pending, Owes, Active
<1> QED BY <1>1, Invariance, PTL

(* An older snapshot is never renamed over a newer file, within a run of   *)
(* the process or across its restarts.                                     *)
THEOREM NoOlderFile == Spec => FileNeverGoesBack
<1> DEFINE Forward == \A k \in Key : disk'.rows[k] = 0 \/ disk'.rows[k] >= disk.rows[k]
<1>1. ASSUME IInv, [Next]_vars
      PROVE  [Forward]_vars
  <2>1. \A k \in Key : disk.rows[k] \in Nat
    BY <1>1, BoundsAssumption DEF IInv, TypeOK, Image, Row
  <2>2. ASSUME NEW w \in Writer, Rename(w)
        PROVE  Forward
    <3>1. disk' = snapshot[w] /\ pc[w] = "renaming"
      BY <1>1, <2>2 DEF Rename, IInv, PassCarries
    <3>2. \A k \in Key : snapshot[w].rows[k] \in Nat
      BY <1>1, BoundsAssumption DEF IInv, TypeOK, Image, Row
    <3> QED BY <1>1, <2>1, <3>1, <3>2 DEF IInv, NoneFromAhead
  <2>3. CASE disk' = disk
    BY <2>1, <2>3
  <2> QED BY <1>1, <2>2, <2>3
          DEF Next, WriterStep, vars, fileVars, timeVars, Put, Save, EndWindow, Serialize, WriteBeside,
              WriteFails, WriterPanics, Follow, Clear, CheckAgain, Restart, MoveClock
<1> QED BY <1>1, Invariance, PTL DEF Spec, FileNeverGoesBack

(* While nobody has set the clock back, a put leaves the later times with the    *)
(* later rows: it stamps its own, the latest, with the time there is.      *)
LEMMA PutFollows ==
    ASSUME IInv, SteadyInv, steady, NEW p \in Putter, NEW k \in Key, Put(p, k)
    PROVE  TimesFollowPuts([rows |-> rows, stored |-> stored])'
<1>1. PICK room \in [Key -> Row] :
         /\ \A j \in Key : room[j] \in {rows[j], 0}
         /\ rows' = [room EXCEPT ![k] = puts + 1]
         /\ stored' = Stamped(room, k)
  BY PutMakesRoom
<1>2. \A j \in Key : /\ rows[j] \in Nat /\ rows[j] <= puts /\ puts \in Nat /\ clock \in Nat
                     /\ stored[j] \in Nat /\ stored[j] <= clock
  BY BoundsAssumption DEF IInv, TypeOK, NoneFromAhead, Row, SteadyInv, TimesFollowPuts
<1>3. \A i, j \in Key : rows[j] # 0 /\ rows[j] < rows[i] => stored[j] <= stored[i]
  BY DEF SteadyInv, TimesFollowPuts
<1>4. /\ rows'[k] = puts + 1 /\ stored'[k] = clock
      /\ \A j \in Key \ {k} : /\ rows'[j] = room[j]
                              /\ stored'[j] = IF room[j] = 0 THEN 0 ELSE stored[j]
  BY <1>1 DEF Stamped
<1>5. clock' = clock /\ \A i \in Key : stored'[i] <= clock
  BY <1>2, <1>4 DEF Put, timeVars
<1>6. ASSUME NEW i \in Key, NEW j \in Key, rows'[j] # 0, rows'[j] < rows'[i]
      PROVE  stored'[j] <= stored'[i]
  <2>1. CASE i = k
    BY <1>4, <1>5, <2>1
  <2>2. CASE i # k
    <3>1. rows'[i] \in {rows[i], 0} /\ j # k
      BY <1>1, <1>2, <1>4, <1>6, <2>2
    <3>2. rows'[i] = rows[i] /\ rows'[j] = rows[j] /\ room[i] = rows[i] /\ room[j] = rows[j]
      BY <1>1, <1>2, <1>4, <1>6, <2>2, <3>1
    <3>3. stored'[i] = stored[i] /\ stored'[j] = stored[j]
      BY <1>2, <1>4, <1>6, <2>2, <3>1, <3>2
    <3> QED BY <1>3, <1>6, <3>2, <3>3
  <2> QED BY <2>1, <2>2
<1> QED BY <1>5, <1>6 DEF TimesFollowPuts

LEMMA EmptyFollows == IInv => TimesFollowPuts(Empty)
BY DEF IInv, TypeOK, TimesFollowPuts, Empty

(* The file and what is written of it follow the rows they were made of.   *)
LEMMA SteadyStep == IInv /\ SteadyInv /\ [Next]_vars => SteadyInv'
<1> SUFFICES ASSUME IInv, SteadyInv, [Next]_vars, steady'
             PROVE  SteadyInv'
  BY DEF SteadyInv
<1> DEFINE Kept(image) == \A k \in Key :
              /\ image.stored[k] <= clock'
              /\ \A j \in Key : image.rows[j] # 0 /\ image.rows[j] < image.rows[k]
                    => image.stored[j] <= image.stored[k]
           memory == [rows |-> rows, stored |-> stored]
<1>1. steady /\ clock' >= clock /\ clock \in Nat /\ clock' \in Nat
  <2>1. TypeOK'
    BY NextTypeOK
  <2>2. clock \in Nat /\ clock' \in Nat
    BY <2>1, BoundsAssumption DEF IInv, TypeOK
  <2>3. (clock' = clock /\ steady' = steady) \/ MoveClock
    BY DEF Next, WriterStep, vars, timeVars, Put, Save, EndWindow, Serialize, WriteBeside, Rename,
           WriteFails, WriterPanics, Follow, Clear, CheckAgain, Restart
  <2>4. MoveClock => steady /\ clock' > clock
    BY Zenon DEF MoveClock
  <2>5. steady /\ (clock' = clock \/ clock' > clock)
    BY <2>3, <2>4
  <2> QED BY <2>2, <2>5
<1>2. /\ \A k \in Key : stored[k] \in Nat /\ disk.stored[k] \in Nat /\ partial.stored[k] \in Nat
      /\ \A w \in Writer : \A k \in Key : snapshot[w].stored[k] \in Nat
  BY BoundsAssumption DEF IInv, TypeOK, Image
<1>3. Kept(memory) /\ Kept(disk) /\ Kept(partial) /\ Kept(Empty)
      /\ \A w \in Writer : Kept(snapshot[w])
  <2>1. TimesFollowPuts(Empty) /\ \A k \in Key : Empty.stored[k] = 0
    BY EmptyFollows DEF Empty
  <2> QED BY <1>1, <1>2, <2>1 DEF SteadyInv, TimesFollowPuts
<1>4. SUFFICES /\ TimesFollowPuts([rows |-> rows, stored |-> stored])'
               /\ Kept(disk') /\ Kept(partial') /\ \A w \in Writer : Kept(snapshot'[w])
  BY DEF SteadyInv, TimesFollowPuts
<1>5. rows' = rows /\ stored' = stored => TimesFollowPuts([rows |-> rows, stored |-> stored])'
  BY <1>3 DEF TimesFollowPuts
<1> HIDE DEF Kept
<1>6. ASSUME NEW p \in Putter, NEW k \in Key, Put(p, k)
      PROVE  /\ TimesFollowPuts([rows |-> rows, stored |-> stored])'
             /\ Kept(disk') /\ Kept(partial') /\ \A w \in Writer : Kept(snapshot'[w])
  BY <1>1, <1>3, <1>6, PutFollows DEF Put, fileVars, timeVars, writerVars
<1>7. ASSUME NEW w \in Writer, Serialize(w)
      PROVE  /\ rows' = rows /\ stored' = stored /\ Kept(disk') /\ Kept(partial')
             /\ \A v \in Writer : Kept(snapshot'[v])
  <2>1. \A v \in Writer : snapshot'[v] = memory \/ snapshot'[v] = snapshot[v]
    BY <1>7 DEF Serialize, IInv, TypeOK
  <2> QED BY <1>3, <1>7, <2>1 DEF Serialize, cacheVars, fileVars, timeVars
<1>8. ASSUME NEW w \in Writer, WriteBeside(w)
      PROVE  /\ rows' = rows /\ stored' = stored /\ Kept(disk') /\ Kept(partial')
             /\ \A v \in Writer : Kept(snapshot'[v])
  BY <1>3, <1>8 DEF WriteBeside, cacheVars
<1>9. ASSUME NEW w \in Writer, Rename(w)
      PROVE  /\ rows' = rows /\ stored' = stored /\ Kept(disk') /\ Kept(partial')
             /\ \A v \in Writer : Kept(snapshot'[v])
  BY <1>3, <1>9 DEF Rename, cacheVars
<1>10. ASSUME NEW image \in {disk, Empty}, Restart(image)
       PROVE  /\ TimesFollowPuts([rows |-> rows, stored |-> stored])'
              /\ Kept(disk') /\ Kept(partial') /\ \A w \in Writer : Kept(snapshot'[w])
  <2>1. Kept(image) /\ rows' = image.rows /\ stored' = image.stored
    BY <1>3, <1>10 DEF Restart
  <2>2. TimesFollowPuts([rows |-> rows, stored |-> stored])'
    BY <2>1 DEF TimesFollowPuts, Kept
  <2> QED BY <1>3, <1>10, <2>2 DEF Restart, fileVars, timeVars
<1>11. CASE rows' = rows /\ stored' = stored /\ disk' = disk /\ partial' = partial /\ snapshot' = snapshot
  BY <1>3, <1>5, <1>11
<1> QED BY <1>5, <1>6, <1>7, <1>8, <1>9, <1>10, <1>11
        DEF Next, WriterStep, vars, cacheVars, writerVars, fileVars, timeVars, Save, EndWindow,
            WriteFails, WriterPanics, Follow, Clear, CheckAgain, MoveClock

(* "The newest survive; the oldest are the ones dropped", while nobody has   *)
(* set the clock back: `evict_one` goes by the time, and the times follow   *)
(* the puts, in the rows read back after a restart too.                    *)
THEOREM NewestRowsSurvive == Spec => NewestSurvive
<1>1. Init => SteadyInv
  <2> SUFFICES ASSUME Init PROVE SteadyInv
    OBVIOUS
  <2>1. TimesFollowPuts(Empty)
    BY InitIInv, EmptyFollows
  <2>2. /\ disk = Empty /\ partial = Empty /\ \A w \in Writer : snapshot[w] = Empty
        /\ rows = Empty.rows /\ stored = Empty.stored
    BY DEF Init
  <2>3. TimesFollowPuts([rows |-> rows, stored |-> stored])
    BY <2>1, <2>2 DEF TimesFollowPuts
  <2> QED BY <2>1, <2>2, <2>3 DEF SteadyInv
<1>2. ASSUME IInv, SteadyInv, [Next]_vars
      PROVE  [steady => DropsAnOlder]_vars
  <2> USE DEF DropsAnOlder
  <2>1. rows \in [Key -> Nat] /\ stored \in [Key -> Nat] /\ generation \in Nat /\ puts \in Nat
    BY <1>2, BoundsAssumption DEF IInv, TypeOK, Row
  <2>2. ASSUME NEW p \in Putter, NEW k \in Key, Put(p, k)
        PROVE  steady => DropsAnOlder
    <3> SUFFICES ASSUME steady, NEW i \in Key, rows[i] # 0, rows'[i] = 0, NEW j \in Held(rows)
                 PROVE  rows[i] <= rows[j] \/ stored[i] = stored[j]
      OBVIOUS
    <3>1. CASE Cardinality(Held(rows)) >= MaxEntries /\ rows[k] = 0
      <4>1. PICK old \in Oldest(rows, stored) : rows' = [[rows EXCEPT ![old] = 0] EXCEPT ![k] = puts + 1]
        <5>1. PICK room \in {[rows EXCEPT ![old] = 0] : old \in Oldest(rows, stored)} :
                 rows' = [room EXCEPT ![k] = puts + 1]
          BY <2>2, <3>1 DEF Put
        <5> QED BY <5>1
      <4>2. i = old
        BY <2>1, <4>1
      <4>3. stored[i] <= stored[j] /\ j \in Key /\ rows[j] # 0
        BY <4>1, <4>2 DEF Oldest, Held
      <4>4. rows[j] < rows[i] => stored[j] <= stored[i]
        BY <1>2, <4>3 DEF SteadyInv, TimesFollowPuts
      <4> QED BY <2>1, <4>3, <4>4
    <3>2. CASE ~(Cardinality(Held(rows)) >= MaxEntries /\ rows[k] = 0)
      <4>1. rows' = [rows EXCEPT ![k] = puts + 1]
        BY <2>2, <3>2 DEF Put
      <4> QED BY <2>1, <4>1
    <3> QED BY <3>1, <3>2
  <2>3. ASSUME NEW image \in {disk, Empty}, Restart(image)
        PROVE  steady => DropsAnOlder
    BY <2>1, <2>3 DEF Restart
  <2>4. CASE rows' = rows
    BY <2>4
  <2> QED BY <1>2, <2>2, <2>3, <2>4
          DEF Next, WriterStep, vars, cacheVars, Save, EndWindow, Serialize, WriteBeside, Rename,
              WriteFails, WriterPanics, Follow, Clear, CheckAgain, MoveClock
<1>3. Spec => []SteadyInv
  BY <1>1, Invariance, SteadyStep, PTL DEF Spec
<1> QED BY <1>2, <1>3, Invariance, PTL DEF Spec, NewestSurvive

-----------------------------------------------------------------------------
(* EmbedProxy.                                                             *)

(* Requests and what is spawned for them are jobs of their own.            *)
LEMMA JobsApart ==
    /\ Request \subseteq Job
    /\ \A r \in Search \cup Rank :
          /\ r \in Request /\ Early(r) \in Job /\ Early(r) \notin Request
          /\ \A q \in Search \cup Rank : Early(r) = Early(q) => r = q
BY ProxyAssumption DEF Job, Request, Early

LEMMA KindsApart ==
    /\ \A r \in Post : r \notin Search /\ r \notin Rank
    /\ \A r \in Search : r \notin Post /\ r \notin Rank
    /\ \A r \in Request : r \in Post \/ r \in Search \/ r \in Rank
BY ProxyAssumption DEF Request

LEMMA InitProxy == ProxyInit => ProxyIInv
<1> SUFFICES ASSUME ProxyInit PROVE ProxyIInv
  OBVIOUS
<1>1. <<>> \in Seq(Job)
  OBVIOUS
<1>2. InLineOnce
  <2>1. IsInjective(<<>>) /\ ToSet(<<>>) = {}
    BY <1>1, HeadOfQueue
  <2> QED BY <2>1 DEF ProxyInit, InLineOnce
<1>3. /\ at = [r \in Request |-> "off"] /\ job = [j \in Job |-> "off"] /\ text = [j \in Job |-> "none"]
      /\ wants = [r \in Search |-> "none"] /\ rankedBy = [r \in Search |-> "none"]
      /\ age = [r \in Search |-> "none"]
      /\ bodies = {} /\ cpus = {} /\ line = <<>> /\ memo = {} /\ strict = {}
  BY DEF ProxyInit
<1>4. ProxyTypeOK
  <2>1. at \in [Request -> {"off", "body", "index", "early", "embed", "admit", "lists",
                           "work", "left"} \cup Over]
    BY <1>3
  <2>2. job \in [Job -> {"off", "spawned", "queued", "calling", "vector", "failed"}]
    BY <1>3
  <2>3. text \in [Job -> {"none", "whole", "rest", "title", "warm", "body"}]
    BY <1>3
  <2>4. wants \in [Search -> {"none", "whole", "rest"}] /\ rankedBy \in [Search -> {"none", "whole", "rest"}]
    BY <1>3
  <2>5. age \in [Search -> {"none", "short", "long"}]
    BY <1>3
  <2>6. readiness \in {"checking", "ready", "failed"}
    BY DEF ProxyInit
  <2> QED BY <1>1, <1>3, <2>1, <2>2, <2>3, <2>4, <2>5, <2>6 DEF ProxyTypeOK
<1>5. BodiesHeld
  BY <1>3, JobsApart DEF BodiesHeld, Request
<1>6. OwnWords /\ RankedLast
  BY <1>3 DEF OwnWords, RankedLast
<1>7. OwnCalls
  BY <1>3, JobsApart DEF OwnCalls
<1>8. EarlyCalls
  BY <1>3, JobsApart DEF EarlyCalls
<1>9. PermitsKept
  BY <1>3, KindsApart DEF PermitsKept, Request
<1> QED BY <1>2, <1>4, <1>5, <1>6, <1>7, <1>8, <1>9 DEF ProxyIInv

(* Whoever did not wait yet comes to the line's end.                        *)
LEMMA QueueKeeps ==
    ASSUME ProxyTypeOK, InLineOnce, NEW j \in Job, job[j] # "queued",
           NEW words \in {"none", "whole", "rest", "title", "warm", "body"}, Queue(j, words)
    PROVE  /\ job' = [job EXCEPT ![j] = "queued"] /\ text' = [text EXCEPT ![j] = words] /\ memo' = memo
           /\ line' \in Seq(Job) /\ InLineOnce'
<1>1. /\ job' = [job EXCEPT ![j] = "queued"] /\ text' = [text EXCEPT ![j] = words] /\ memo' = memo
      /\ line' = Append(line, j)
  BY DEF Queue
<1>2. line' \in Seq(Job) /\ IsInjective(line') /\ ToSet(line') = ToSet(line) \cup {j}
  BY <1>1, AppendToQueue DEF ProxyTypeOK, InLineOnce
<1>3. InLineOnce'
  BY <1>1, <1>2 DEF InLineOnce, ProxyTypeOK
<1> QED BY <1>1, <1>2, <1>3

(* Whoever waited goes from wherever in the line it was.                    *)
LEMMA LeaveKeeps ==
    ASSUME ProxyTypeOK, InLineOnce, NEW j \in Job, Leave(j),
           NEW outcome \in {"off", "failed"}, job' = [job EXCEPT ![j] = outcome]
    PROVE  line' \in Seq(Job) /\ InLineOnce'
<1>1. PICK i \in DOMAIN line : line[i] = j /\ line' = RemoveAt(line, i)
  BY DEF Leave
<1>2. line' \in Seq(Job) /\ IsInjective(line') /\ ToSet(line') = ToSet(line) \ {j}
  BY <1>1, RemoveFromQueue DEF ProxyTypeOK, InLineOnce
<1>3. InLineOnce'
  BY <1>2 DEF InLineOnce, ProxyTypeOK
<1> QED BY <1>2, <1>3

(* The line is as it was for those that neither waited nor do.              *)
LEMMA LineRests ==
    ASSUME ProxyTypeOK, InLineOnce, NEW j \in Job, job[j] # "queued", line' = line,
           NEW next \in {"off", "spawned", "calling", "vector", "failed"},
           job' = [job EXCEPT ![j] = next] \/ job' = job
    PROVE  line' \in Seq(Job) /\ InLineOnce'
BY DEF ProxyTypeOK, InLineOnce

(* A request goes on: to wait for a call of its own, or to where it has none. *)
LEMMA RequestKeeps ==
    ASSUME ProxyIInv, NEW r \in Request,
           NEW place \in {"body", "index", "early", "embed", "admit", "lists", "work", "left"} \cup Over,
           NEW mine \in {"off", "queued", "vector"},
           NEW words \in {"none", "whole", "rest", "title", "warm", "body"},
           at' = [at EXCEPT ![r] = place], job' = [job EXCEPT ![r] = mine],
           text' = [text EXCEPT ![r] = words], UNCHANGED <<readiness, memo, strict>>,
           mine # "off" <=> place = "embed",
           line' \in Seq(Job), InLineOnce',
           wants' \in [Search -> {"none", "whole", "rest"}],
           rankedBy' \in [Search -> {"none", "whole", "rest"}],
           age' \in [Search -> {"none", "short", "long"}],
           \A q \in Search \ {r} : wants'[q] = wants[q] /\ rankedBy'[q] = rankedBy[q],
           r \in Search => /\ rankedBy'[r] \in {"none", wants'[r]}
                           /\ place \in {"index", "early", "embed"} => rankedBy'[r] = "none"
                           /\ place = "embed" => words = wants'[r]
                           /\ place = "early" => wants'[r] = "whole",
           bodies' \subseteq Post \cup Rank, cpus' \subseteq Search \cup Rank,
           \A q \in Request \ {r} : (q \in bodies' <=> q \in bodies) /\ (q \in cpus' <=> q \in cpus),
           r \in bodies' => place \in {"body", "index", "embed", "admit"},
           place = "body" \/ (mine = "queued" /\ r \in Post) => r \in bodies',
           r \in cpus' => place \in {"lists", "work", "left"} \/ (r \in Rank /\ place = "embed"),
           r \in Rank /\ place = "embed" => r \in cpus',
           place = "admit" => r \notin Post
    PROVE  ProxyIInv'
<1>1. /\ ProxyTypeOK /\ BodiesHeld /\ OwnWords /\ OwnCalls /\ EarlyCalls /\ PermitsKept /\ RankedLast
      /\ r \in Job /\ Request \subseteq Job
  BY JobsApart DEF ProxyIInv
<1>2. /\ at \in [Request -> {"off", "body", "index", "early", "embed", "admit", "lists", "work", "left"} \cup Over]
      /\ job \in [Job -> {"off", "spawned", "queued", "calling", "vector", "failed"}]
      /\ text \in [Job -> {"none", "whole", "rest", "title", "warm", "body"}]
  BY <1>1 DEF ProxyTypeOK
<1>3. /\ at'[r] = place /\ job'[r] = mine /\ text'[r] = words
      /\ \A q \in Request \ {r} : at'[q] = at[q]
      /\ \A j \in Job \ {r} : job'[j] = job[j] /\ text'[j] = text[j]
  BY <1>1, <1>2
<1>4. ProxyTypeOK'
  <2>1. /\ at' \in [Request -> {"off", "body", "index", "early", "embed", "admit", "lists", "work", "left"} \cup Over]
        /\ job' \in [Job -> {"off", "spawned", "queued", "calling", "vector", "failed"}]
        /\ text' \in [Job -> {"none", "whole", "rest", "title", "warm", "body"}]
    BY <1>2
  <2> QED BY <1>1, <2>1 DEF ProxyTypeOK
<1>5. BodiesHeld'
  BY <1>1, <1>3 DEF BodiesHeld, Request
<1>6. OwnWords' /\ RankedLast'
  <2> SUFFICES ASSUME NEW q \in Search
               PROVE  /\ rankedBy'[q] \in {"none", wants'[q]}
                      /\ at'[q] \in {"off", "index", "early", "embed"} => rankedBy'[q] = "none"
    BY DEF OwnWords, RankedLast
  <2>1. CASE q = r
    BY <1>3, <2>1 DEF Over
  <2>2. CASE q # r
    <3>1. at'[q] = at[q] /\ rankedBy'[q] = rankedBy[q] /\ wants'[q] = wants[q]
      BY <1>3, <2>2 DEF Request
    <3> QED BY <1>1, <3>1 DEF OwnWords, RankedLast
  <2> QED BY <2>1, <2>2
<1>7. OwnCalls'
  <2> SUFFICES ASSUME NEW q \in Request
               PROVE  /\ job'[q] # "spawned"
                      /\ job'[q] # "off" <=> at'[q] = "embed"
                      /\ at'[q] = "embed" /\ q \in Search => text'[q] = wants'[q]
    BY DEF OwnCalls
  <2>1. CASE q = r
    BY <1>3, <2>1
  <2>2. CASE q # r
    BY <1>1, <1>3, <2>2 DEF OwnCalls
  <2> QED BY <2>1, <2>2
<1>8. EarlyCalls'
  <2>1. ASSUME NEW q \in Search \cup Rank, at'[q] = "off"
        PROVE  job'[Early(q)] = "off"
    <3>1. q \in Request /\ Early(q) \in Job /\ Early(q) # r
      BY JobsApart
    <3> QED BY <1>1, <1>3, <2>1, <3>1 DEF EarlyCalls, Over
  <2>2. ASSUME NEW q \in Search, at'[q] = "early"
        PROVE  wants'[q] = "whole"
    BY <1>1, <1>3, <2>2 DEF EarlyCalls, Request
  <2> QED BY <2>1, <2>2 DEF EarlyCalls
<1>9. PermitsKept'
  <2>1. bodies' \subseteq Request /\ cpus' \subseteq Request /\ Rank \subseteq Request /\ Post \subseteq Request
    BY DEF Request
  <2> QED BY <1>1, <1>3, <2>1 DEF PermitsKept
<1> QED BY <1>4, <1>5, <1>6, <1>7, <1>8, <1>9 DEF ProxyIInv

(* A request without a call of its own goes on to where it has none.        *)
LEMMA MoveKeeps ==
    ASSUME ProxyIInv, NEW r \in Request, at[r] # "embed",
           NEW place \in {"body", "index", "admit", "lists", "work", "left"} \cup Over,
           at' = [at EXCEPT ![r] = place], UNCHANGED <<readiness, jobs, answers>>,
           place = "index" => r \notin Search,
           \/ bodies' = bodies
           \/ bodies' = bodies \ {r}
           \/ bodies' = bodies \cup {r} /\ r \in Post \cup Rank,
           \/ cpus' = cpus
           \/ cpus' = cpus \ {r}
           \/ cpus' = cpus \cup {r} /\ r \in Search \cup Rank,
           r \in bodies' => place \in {"body", "index", "admit"},
           place = "body" => r \in bodies',
           r \in cpus' => place \in {"lists", "work", "left"},
           place = "admit" => r \notin Post
    PROVE  ProxyIInv'
<1>1. /\ ProxyTypeOK /\ InLineOnce /\ OwnWords /\ OwnCalls /\ r \in Job /\ job[r] = "off"
      /\ UNCHANGED <<readiness, job, text, line, memo, strict, wants, rankedBy, age>>
  BY JobsApart DEF ProxyIInv, OwnCalls, jobs, answers
<1>2. job' = [job EXCEPT ![r] = "off"] /\ text' = [text EXCEPT ![r] = text[r]]
      /\ text[r] \in {"none", "whole", "rest", "title", "warm", "body"}
  BY <1>1 DEF ProxyTypeOK
<1>3. line' \in Seq(Job) /\ InLineOnce'
  BY <1>1, LineRests
<1>4. /\ wants' \in [Search -> {"none", "whole", "rest"}] /\ rankedBy' \in [Search -> {"none", "whole", "rest"}]
      /\ age' \in [Search -> {"none", "short", "long"}]
      /\ r \in Search => rankedBy'[r] \in {"none", wants'[r]}
      /\ \A q \in Search \ {r} : wants'[q] = wants[q] /\ rankedBy'[q] = rankedBy[q]
  BY <1>1 DEF ProxyTypeOK, OwnWords
<1>5. /\ bodies' \subseteq Post \cup Rank /\ cpus' \subseteq Search \cup Rank
      /\ \A q \in Request \ {r} : (q \in bodies' <=> q \in bodies) /\ (q \in cpus' <=> q \in cpus)
  BY <1>1 DEF ProxyTypeOK
<1>6. place \notin {"early", "embed"}
  BY DEF Over
<1> QED BY <1>1, <1>2, <1>3, <1>4, <1>5, <1>6, RequestKeeps

(* A job's call goes on.                                                    *)
LEMMA CallKeeps ==
    ASSUME ProxyIInv, NEW j \in Job, job[j] # "off",
           NEW next \in {"queued", "calling", "vector", "failed"},
           job' = [job EXCEPT ![j] = next], text' = text, memo' \subseteq {"whole", "rest", "title"},
           line' \in Seq(Job), InLineOnce', next = "queued" => j \notin Request,
           bodies' = bodies \/ bodies' = bodies \ {j}, UNCHANGED <<readiness, at, cpus, answers>>
    PROVE  ProxyIInv'
<1>1. /\ ProxyTypeOK /\ BodiesHeld /\ OwnWords /\ OwnCalls /\ EarlyCalls /\ PermitsKept /\ RankedLast
      /\ Request \subseteq Job /\ UNCHANGED <<readiness, at, cpus, text, strict, wants, rankedBy, age>>
  BY JobsApart DEF ProxyIInv, answers
<1>2. job' \in [Job -> {"off", "spawned", "queued", "calling", "vector", "failed"}]
      /\ job'[j] = next /\ \A k \in Job \ {j} : job'[k] = job[k]
  BY <1>1 DEF ProxyTypeOK
<1>3. ProxyTypeOK'
  BY <1>1, <1>2 DEF ProxyTypeOK
<1>4. BodiesHeld'
  BY <1>1, <1>2 DEF BodiesHeld, Request
<1>5. OwnWords' /\ RankedLast'
  BY <1>1 DEF OwnWords, RankedLast
<1>6. OwnCalls'
  BY <1>1, <1>2 DEF OwnCalls
<1>7. EarlyCalls'
  BY <1>1, <1>2, JobsApart DEF EarlyCalls
<1>8. PermitsKept'
  <2>1. \A r \in Request : r \in bodies /\ r \notin bodies' => r = j /\ at[r] # "body"
    BY <1>1 DEF OwnCalls
  <2> QED BY <1>1, <2>1 DEF PermitsKept
<1> QED BY <1>3, <1>4, <1>5, <1>6, <1>7, <1>8 DEF ProxyIInv

(* Requests come, read their bodies, are admitted and leave again.          *)
LEMMA RequestMoves ==
    ASSUME ProxyIInv, NEW r \in Request,
           \/ TakeBody(r) \/ BodyFails(r) \/ IndexFails(r) \/ ArriveRank(r)
           \/ RankIndexed(r) \/ Overloaded(r) \/ Listed(r) \/ Worked(r)
    PROVE  ProxyIInv'
<1> DEFINE Moves(place) ==
             /\ at[r] # "embed" /\ at' = [at EXCEPT ![r] = place]
             /\ UNCHANGED <<readiness, jobs, answers>>
             /\ place = "index" => r \notin Search
             /\ \/ bodies' = bodies
                \/ bodies' = bodies \ {r}
                \/ bodies' = bodies \cup {r} /\ r \in Post \cup Rank
             /\ \/ cpus' = cpus
                \/ cpus' = cpus \ {r}
             /\ r \in bodies' => place \in {"body", "index", "admit"}
             /\ place = "body" => r \in bodies'
             /\ r \in cpus' => place \in {"lists", "work", "left"}
             /\ place = "admit" => r \notin Post
<1>1. ProxyTypeOK /\ PermitsKept /\ (r \in Rank => r \notin Search /\ r \notin Post)
  BY KindsApart DEF ProxyIInv
<1>2. ASSUME NEW place \in {"body", "index", "admit", "lists", "work", "left"} \cup Over, Moves(place)
      PROVE  ProxyIInv'
  BY <1>2, MoveKeeps
<1>3. CASE TakeBody(r)
  <2>1. Moves("body") \/ Moves("ended")
    BY <1>1, <1>3 DEF TakeBody, PermitsKept, Goes
  <2> QED BY <1>2, <2>1 DEF Over
<1>4. CASE BodyFails(r)
  <2>1. Moves("ended")
    BY <1>1, <1>4 DEF BodyFails, PermitsKept, Goes
  <2> QED BY <1>2, <2>1 DEF Over
<1>5. CASE IndexFails(r)
  <2>1. Moves("ended")
    BY <1>1, <1>5 DEF IndexFails, PermitsKept, Goes
  <2> QED BY <1>2, <2>1 DEF Over
<1>6. CASE ArriveRank(r)
  <2>1. Moves("index")
    BY <1>1, <1>6 DEF ArriveRank, PermitsKept, Goes
  <2> QED BY <1>2, <2>1
<1>7. CASE RankIndexed(r)
  <2>1. Moves("admit")
    BY <1>1, <1>7 DEF RankIndexed, PermitsKept, Goes
  <2> QED BY <1>2, <2>1
<1>8. CASE Overloaded(r)
  <2>1. Moves("ended")
    BY <1>1, <1>8 DEF Overloaded, PermitsKept, Goes
  <2> QED BY <1>2, <2>1 DEF Over
<1>9. CASE Listed(r)
  <2>1. Moves("work")
    BY <1>1, <1>9 DEF Listed, PermitsKept, Goes
  <2> QED BY <1>2, <2>1
<1>10. CASE Worked(r)
  <2>1. Moves("answered") \/ Moves("ended")
    BY <1>1, <1>10 DEF Worked, PermitsKept, Goes
  <2> QED BY <1>2, <2>1 DEF Over
<1> QED BY <1>3, <1>4, <1>5, <1>6, <1>7, <1>8, <1>9, <1>10

(* A job begins, waits, calls and hears.                                    *)
LEMMA JobStepKeeps ==
    ASSUME ProxyIInv, NEW j \in Job, JobStep(j)
    PROVE  ProxyIInv'
<1>1. ProxyTypeOK /\ InLineOnce /\ OwnCalls /\ line \in Seq(Job) /\ memo \subseteq {"whole", "rest", "title"}
      /\ text[j] \in {"none", "whole", "rest", "title", "warm", "body"}
      /\ text \in [Job -> {"none", "whole", "rest", "title", "warm", "body"}]
  BY DEF ProxyIInv, ProxyTypeOK
<1>2. CASE Begins(j)
  <2>1. job[j] = "spawned" /\ UNCHANGED <<readiness, at, bodies, cpus, answers>>
    BY <1>2 DEF Begins
  <2>2. j \notin Request
    BY <1>1, <2>1 DEF OwnCalls
  <2>3. CASE text[j] \in memo
    <3>1. job' = [job EXCEPT ![j] = "vector"] /\ UNCHANGED <<text, line, memo>>
      BY <1>2, <2>3 DEF Begins
    <3>2. line' \in Seq(Job) /\ InLineOnce'
      BY <1>1, <2>1, <3>1, LineRests
    <3> QED BY <1>1, <2>1, <2>2, <3>1, <3>2, CallKeeps
  <2>4. CASE text[j] \notin memo
    <3>1. Queue(j, text[j])
      BY <1>2, <2>4 DEF Begins
    <3>2. /\ job' = [job EXCEPT ![j] = "queued"] /\ text' = [text EXCEPT ![j] = text[j]] /\ memo' = memo
          /\ line' \in Seq(Job) /\ InLineOnce'
      BY <1>1, <2>1, <3>1, QueueKeeps
    <3>3. text' = text
      BY <1>1, <3>2
    <3> QED BY <1>1, <2>1, <2>2, <3>2, <3>3, CallKeeps
  <2> QED BY <2>3, <2>4
<1>3. CASE TakePermit(j)
  <2>1. /\ line # <<>> /\ Head(line) = j /\ line' = Tail(line) /\ bodies' = bodies \ {j}
        /\ job' = [job EXCEPT ![j] = IF readiness = "ready" THEN "calling" ELSE "failed"]
        /\ UNCHANGED <<readiness, at, cpus, text, memo, answers>>
    BY <1>3 DEF TakePermit
  <2>2. job[j] = "queued"
    BY <1>1, <2>1, HeadOfQueue DEF InLineOnce
  <2>3. line' \in Seq(Job) /\ IsInjective(line') /\ ToSet(line') = ToSet(line) \ {j}
    BY <1>1, <2>1, TailOfQueue DEF InLineOnce
  <2>4. InLineOnce'
    BY <1>1, <2>1, <2>2, <2>3 DEF InLineOnce, ProxyTypeOK
  <2>5. PICK next \in {"calling", "failed"} : job' = [job EXCEPT ![j] = next]
    BY <2>1
  <2> QED BY <1>1, <2>1, <2>2, <2>3, <2>4, <2>5, CallKeeps
<1>4. CASE Busy(j)
  <2>1. /\ job[j] = "queued" /\ Leave(j) /\ job' = [job EXCEPT ![j] = "failed"]
        /\ UNCHANGED <<readiness, at, bodies, cpus, text, memo, answers>>
    BY <1>4 DEF Busy
  <2>2. line' \in Seq(Job) /\ InLineOnce'
    BY <1>1, <2>1, LeaveKeeps
  <2> QED BY <1>1, <2>1, <2>2, CallKeeps
<1>5. CASE Answered(j) \/ CallFails(j)
  <2>1. PICK next \in {"vector", "failed"} :
           /\ job[j] = "calling" /\ job' = [job EXCEPT ![j] = next]
           /\ memo' \subseteq {"whole", "rest", "title"}
           /\ UNCHANGED <<readiness, at, bodies, cpus, text, line, answers>>
    BY <1>1, <1>5 DEF Answered, CallFails
  <2>2. line' \in Seq(Job) /\ InLineOnce'
    BY <1>1, <2>1, LineRests
  <2> QED BY <1>1, <2>1, <2>2, CallKeeps
<1> QED BY <1>2, <1>3, <1>4, <1>5 DEF JobStep

(* A search asks for its words' vector: from the memo, or by a call.        *)
LEMMA AskKeeps ==
    ASSUME ProxyIInv, NEW r \in Search, at[r] = "index", NEW words \in {"whole", "rest"},
           EmbedQuery(r, words), wants' = [wants EXCEPT ![r] = words],
           UNCHANGED <<readiness, bodies, cpus, strict, rankedBy, age>>
    PROVE  ProxyIInv'
<1>1. /\ ProxyTypeOK /\ InLineOnce /\ OwnCalls /\ PermitsKept /\ RankedLast
      /\ r \in Request /\ r \in Job /\ r \notin Post /\ r \notin Rank
  BY JobsApart, KindsApart DEF ProxyIInv
<1>2. job[r] = "off"
  BY <1>1 DEF OwnCalls
<1>3. PICK mine \in {"queued", "vector"} :
         /\ job' = [job EXCEPT ![r] = mine] /\ text' = [text EXCEPT ![r] = words] /\ memo' = memo
         /\ line' \in Seq(Job) /\ InLineOnce'
  <2>1. CASE words \in memo
    <3>1. job' = [job EXCEPT ![r] = "vector"] /\ text' = [text EXCEPT ![r] = words] /\ UNCHANGED <<line, memo>>
      BY <2>1 DEF EmbedQuery
    <3>2. line' \in Seq(Job) /\ InLineOnce'
      BY <1>1, <1>2, <3>1, LineRests
    <3> QED BY <3>1, <3>2
  <2>2. CASE words \notin memo
    <3>1. Queue(r, words)
      BY <2>2 DEF EmbedQuery
    <3> QED BY <1>1, <1>2, <3>1, QueueKeeps
  <2> QED BY <2>1, <2>2
<1>4. at' = [at EXCEPT ![r] = "embed"]
  BY DEF EmbedQuery, Goes
<1>5. r \notin bodies /\ r \notin cpus
  BY <1>1 DEF PermitsKept, ProxyTypeOK
<1>6. /\ wants' \in [Search -> {"none", "whole", "rest"}] /\ rankedBy' \in [Search -> {"none", "whole", "rest"}]
      /\ age' \in [Search -> {"none", "short", "long"}] /\ wants'[r] = words /\ rankedBy'[r] = "none"
      /\ \A q \in Search \ {r} : wants'[q] = wants[q] /\ rankedBy'[q] = rankedBy[q]
      /\ bodies' \subseteq Post \cup Rank /\ cpus' \subseteq Search \cup Rank
  BY <1>1 DEF ProxyTypeOK, RankedLast
<1> QED BY <1>1, <1>3, <1>4, <1>5, <1>6, RequestKeeps

(* A search has what it is ranked by, and no call of its own (left).        *)
LEMMA FlagKeeps ==
    ASSUME ProxyIInv, NEW r \in Search, at[r] \in {"index", "early", "embed"},
           NEW by \in {"none", "whole", "rest"}, NEW words, Flag(r, by, words),
           \/ UNCHANGED <<job, text>> /\ at[r] # "embed"
           \/ Forget(r) /\ job[r] \in {"vector", "failed"},
           UNCHANGED <<readiness, line, memo, strict, cpus>>,
           bodies' = bodies \/ bodies' = bodies \ {r},
           wants' \in [Search -> {"none", "whole", "rest"}],
           \A q \in Search \ {r} : wants'[q] = wants[q], by \in {"none", wants'[r]}
    PROVE  ProxyIInv'
<1>1. /\ ProxyTypeOK /\ InLineOnce /\ OwnCalls /\ PermitsKept
      /\ r \in Request /\ r \in Job /\ r \notin Post /\ r \notin Rank
  BY JobsApart, KindsApart DEF ProxyIInv
<1>2. PICK words0 \in {"none", "whole", "rest", "title", "warm", "body"} :
         job' = [job EXCEPT ![r] = "off"] /\ text' = [text EXCEPT ![r] = words0]
  BY <1>1 DEF OwnCalls, Forget, ProxyTypeOK
<1>3. line' \in Seq(Job) /\ InLineOnce'
  <2>1. job[r] # "queued"
    BY <1>1 DEF OwnCalls
  <2> QED BY <1>1, <1>2, <2>1, LineRests
<1>4. /\ at' = [at EXCEPT ![r] = "admit"] /\ rankedBy' = [rankedBy EXCEPT ![r] = by]
      /\ \E long \in {"short", "long"} : age' = [age EXCEPT ![r] = long]
  BY DEF Flag, Goes
<1>5. r \notin bodies /\ r \notin cpus
  BY <1>1 DEF PermitsKept, ProxyTypeOK
<1>6. /\ rankedBy' \in [Search -> {"none", "whole", "rest"}] /\ age' \in [Search -> {"none", "short", "long"}]
      /\ rankedBy'[r] = by /\ \A q \in Search \ {r} : rankedBy'[q] = rankedBy[q]
      /\ bodies' \subseteq Post \cup Rank /\ cpus' \subseteq Search \cup Rank
  BY <1>1, <1>4 DEF ProxyTypeOK
<1> QED BY <1>1, <1>2, <1>3, <1>4, <1>5, <1>6, RequestKeeps

(* A search takes the early vector, asks for its own, or goes without.      *)
LEMMA SearchStepKeeps ==
    ASSUME ProxyIInv, NEW r \in Search,
           SearchStep(r) \/ AskStrictly(r)
    PROVE  ProxyIInv'
<1>1. /\ ProxyTypeOK /\ InLineOnce /\ OwnCalls /\ EarlyCalls /\ PermitsKept /\ RankedLast
      /\ r \in Request /\ r \in Job /\ r \notin Post /\ r \notin Rank
  BY JobsApart, KindsApart DEF ProxyIInv
<1>2. CASE AskStrictly(r)
  BY <1>2, AskKeeps DEF AskStrictly
<1>3. CASE EarlyHeard(r)
  <2>1. PICK by \in {"none", "whole"} : Flag(r, by, wants[r])
    BY <1>3 DEF EarlyHeard
  <2>2. at[r] = "early" /\ UNCHANGED <<readiness, bodies, cpus, job, text, line, memo, strict, wants>>
    BY <1>3 DEF EarlyHeard, jobs
  <2>3. wants[r] = "whole" /\ wants \in [Search -> {"none", "whole", "rest"}]
    BY <1>1, <2>2 DEF EarlyCalls, ProxyTypeOK
  <2> QED BY <2>1, <2>2, <2>3, FlagKeeps
<1>4. ASSUME NEW words \in {"none", "whole", "rest"}, Words(r, words)
      PROVE  ProxyIInv'
  <2>1. /\ at[r] = "index" /\ wants' = [wants EXCEPT ![r] = words]
        /\ UNCHANGED <<readiness, bodies, cpus, strict>>
    BY <1>4 DEF Words
  <2>2. /\ wants' \in [Search -> {"none", "whole", "rest"}] /\ wants'[r] = words
        /\ \A q \in Search \ {r} : wants'[q] = wants[q]
    BY <1>1, <2>1 DEF ProxyTypeOK
  <2>3. CASE words = "whole" /\ text[Early(r)] = "whole"
    <3>1. at' = [at EXCEPT ![r] = "early"] /\ UNCHANGED <<job, text, line, memo, rankedBy, age>>
      BY <1>4, <2>3 DEF Words, Goes, jobs
    <3>2. job[r] = "off"
      BY <1>1, <2>1 DEF OwnCalls
    <3>3. /\ job' = [job EXCEPT ![r] = "off"] /\ text' = [text EXCEPT ![r] = text[r]]
          /\ text[r] \in {"none", "whole", "rest", "title", "warm", "body"}
      BY <1>1, <3>1, <3>2 DEF ProxyTypeOK
    <3>4. line' \in Seq(Job) /\ InLineOnce'
      BY <1>1, <3>1, <3>2, LineRests
    <3>5. r \notin bodies /\ r \notin cpus
      BY <1>1, <2>1 DEF PermitsKept, ProxyTypeOK
    <3>6. /\ rankedBy' \in [Search -> {"none", "whole", "rest"}] /\ rankedBy'[r] = "none"
          /\ age' \in [Search -> {"none", "short", "long"}]
          /\ \A q \in Search \ {r} : rankedBy'[q] = rankedBy[q]
          /\ bodies' \subseteq Post \cup Rank /\ cpus' \subseteq Search \cup Rank
      BY <1>1, <2>1, <3>1 DEF ProxyTypeOK, RankedLast
    <3>7. /\ UNCHANGED <<readiness, memo, strict, bodies, cpus>> /\ wants'[r] = "whole"
          /\ wants' \in [Search -> {"none", "whole", "rest"}]
          /\ \A q \in Search \ {r} : wants'[q] = wants[q] /\ rankedBy'[q] = rankedBy[q]
          /\ \A q \in Request \ {r} : (q \in bodies' <=> q \in bodies) /\ (q \in cpus' <=> q \in cpus)
      BY <2>1, <2>2, <2>3, <3>1, <3>6
    <3> QED BY <1>1, <3>1, <3>3, <3>4, <3>5, <3>6, <3>7, RequestKeeps
  <2>4. CASE EmbedQuery(r, words) /\ UNCHANGED <<rankedBy, age>> /\ words # "none"
    BY <2>1, <2>4, AskKeeps
  <2>5. CASE Flag(r, "none", words) /\ UNCHANGED jobs
    BY <2>1, <2>2, <2>5, FlagKeeps DEF jobs
  <2> QED BY <1>4, <2>3, <2>4, <2>5 DEF Words
<1> QED BY <1>2, <1>3, <1>4 DEF SearchStep

(* A request's body is read: for /embed it goes to the service.             *)
LEMMA BodyReadKeeps ==
    ASSUME ProxyIInv, NEW r \in Request, BodyRead(r)
    PROVE  ProxyIInv'
<1>1. /\ ProxyTypeOK /\ InLineOnce /\ OwnCalls /\ PermitsKept
      /\ r \in Job /\ at[r] = "body" /\ r \in bodies /\ r \notin cpus /\ r \notin Search
      /\ UNCHANGED <<readiness, bodies, cpus, strict, wants, rankedBy, age>>
  BY JobsApart, KindsApart DEF ProxyIInv, ProxyTypeOK, PermitsKept, BodyRead, answers
<1>2. job[r] = "off"
  BY <1>1 DEF OwnCalls
<1>3. CASE r \in Post
  <2>1. at' = [at EXCEPT ![r] = "embed"] /\ Queue(r, "body")
    BY <1>3 DEF BodyRead, Goes
  <2>2. /\ job' = [job EXCEPT ![r] = "queued"] /\ text' = [text EXCEPT ![r] = "body"] /\ memo' = memo
        /\ line' \in Seq(Job) /\ InLineOnce'
    BY <1>1, <1>2, <2>1, QueueKeeps
  <2>3. /\ wants' \in [Search -> {"none", "whole", "rest"}] /\ rankedBy' \in [Search -> {"none", "whole", "rest"}]
        /\ age' \in [Search -> {"none", "short", "long"}]
        /\ bodies' \subseteq Post \cup Rank /\ cpus' \subseteq Search \cup Rank /\ r \notin Rank
    BY <1>1, <1>3, KindsApart DEF ProxyTypeOK
  <2> QED BY <1>1, <1>3, <2>1, <2>2, <2>3, RequestKeeps
<1>4. CASE r \notin Post
  <2>1. at' = [at EXCEPT ![r] = "index"] /\ UNCHANGED <<readiness, jobs, answers>>
    BY <1>4 DEF BodyRead, Goes
  <2> QED BY <1>1, <2>1, MoveKeeps
<1> QED BY <1>3, <1>4

(* A request hears of its own call, and gives a body's permit back.         *)
LEMMA HeardKeeps ==
    ASSUME ProxyIInv, NEW r \in Request, Heard(r)
    PROVE  ProxyIInv'
<1>1. /\ ProxyTypeOK /\ InLineOnce /\ OwnCalls /\ PermitsKept /\ OwnWords /\ RankedLast
      /\ r \in Job /\ at[r] = "embed" /\ job[r] \in {"vector", "failed"}
      /\ bodies' = bodies \ {r} /\ Forget(r) /\ UNCHANGED <<readiness, cpus, line, memo, strict, wants>>
  BY JobsApart DEF ProxyIInv, Heard
<1>2. CASE r \in Search \ strict
  <2>1. Flag(r, IF job[r] = "vector" THEN text[r] ELSE "none", wants[r])
    BY <1>2 DEF Heard
  <2>2. text[r] = wants[r] /\ wants[r] \in {"none", "whole", "rest"}
    BY <1>1, <1>2 DEF OwnCalls, ProxyTypeOK
  <2>3. PICK by \in {"none", "whole", "rest"} : Flag(r, by, wants[r]) /\ by \in {"none", wants[r]}
    BY <2>1, <2>2
  <2>4. wants' \in [Search -> {"none", "whole", "rest"}] /\ \A q \in Search \ {r} : wants'[q] = wants[q]
    BY <1>1 DEF ProxyTypeOK
  <2> QED BY <1>1, <1>2, <2>3, <2>4, FlagKeeps
<1>3. CASE r \notin Search \ strict
  <2>1. PICK place \in {"lists", "ended", "answered", "admit"} :
           /\ at' = [at EXCEPT ![r] = place] /\ (place = "lists" <=> r \in Rank)
           /\ place = "admit" => r \notin Post
    BY <1>3, KindsApart DEF Heard, Goes
  <2>2. /\ rankedBy' = IF r \in strict /\ job[r] = "vector" THEN [rankedBy EXCEPT ![r] = text[r]] ELSE rankedBy
        /\ age' = IF r \in strict THEN [age EXCEPT ![r] = "long"] ELSE age
    BY <1>3 DEF Heard
  <2>3. r \in Search => text[r] = wants[r] /\ wants[r] \in {"none", "whole", "rest"}
    BY <1>1 DEF OwnCalls, ProxyTypeOK
  <2>4. /\ rankedBy' \in [Search -> {"none", "whole", "rest"}]
        /\ \A q \in Search \ {r} : rankedBy'[q] = rankedBy[q]
        /\ r \in Search => rankedBy'[r] \in {"none", wants'[r]}
    <3>1. strict \subseteq Search /\ rankedBy \in [Search -> {"none", "whole", "rest"}] /\ wants' = wants
      BY <1>1 DEF ProxyTypeOK
    <3>2. r \in Search => rankedBy[r] = "none"
      BY <1>1 DEF RankedLast
    <3> QED BY <2>2, <2>3, <3>1, <3>2
  <2>5. age' \in [Search -> {"none", "short", "long"}]
    BY <1>1, <2>2 DEF ProxyTypeOK
  <2>6. PICK words \in {"none"} : job' = [job EXCEPT ![r] = "off"] /\ text' = [text EXCEPT ![r] = words]
    BY <1>1 DEF Forget
  <2>7. line' \in Seq(Job) /\ InLineOnce'
    BY <1>1, <2>6, LineRests
  <2>8. /\ bodies' \subseteq Post \cup Rank /\ cpus' \subseteq Search \cup Rank /\ r \notin bodies'
        /\ wants' \in [Search -> {"none", "whole", "rest"}] /\ wants' = wants
        /\ \A q \in Request \ {r} : (q \in bodies' <=> q \in bodies) /\ (q \in cpus' <=> q \in cpus)
    BY <1>1 DEF ProxyTypeOK
  <2>9. r \in cpus' => place = "lists"
    BY <1>1, <2>1 DEF PermitsKept
  <2> QED BY <1>1, <2>1, <2>4, <2>5, <2>6, <2>7, <2>8, <2>9, RequestKeeps DEF Over
<1> QED BY <1>2, <1>3

(* A request gets a cpu permit: a library is embedded under it.             *)
LEMMA AdmitKeeps ==
    ASSUME ProxyIInv, NEW r \in Request, Admit(r)
    PROVE  ProxyIInv'
<1>1. /\ ProxyTypeOK /\ InLineOnce /\ OwnCalls /\ PermitsKept /\ OwnWords
      /\ r \in Job /\ at[r] = "admit"
      /\ cpus' = cpus \cup {r} /\ bodies' = bodies \ {r} /\ UNCHANGED <<readiness, answers>>
  BY JobsApart DEF ProxyIInv, Admit
<1>2. CASE UNCHANGED jobs /\ at' \in {[at EXCEPT ![r] = "work"], [at EXCEPT ![r] = "lists"]}
           /\ r \in Search \cup Rank
  <2>1. PICK place \in {"work", "lists"} : at' = [at EXCEPT ![r] = place]
    BY <1>2
  <2> QED BY <1>1, <1>2, <2>1, MoveKeeps
<1>3. CASE at' = [at EXCEPT ![r] = "embed"] /\ Queue(r, "title") /\ r \in Rank
  <2>1. job[r] = "off"
    BY <1>1 DEF OwnCalls
  <2>2. /\ job' = [job EXCEPT ![r] = "queued"] /\ text' = [text EXCEPT ![r] = "title"] /\ memo' = memo
        /\ line' \in Seq(Job) /\ InLineOnce'
    BY <1>1, <1>3, <2>1, QueueKeeps
  <2>3. /\ bodies' \subseteq Post \cup Rank /\ cpus' \subseteq Search \cup Rank
        /\ UNCHANGED <<readiness, strict, wants, rankedBy, age>>
        /\ wants' \in [Search -> {"none", "whole", "rest"}] /\ rankedBy' \in [Search -> {"none", "whole", "rest"}]
        /\ age' \in [Search -> {"none", "short", "long"}]
        /\ r \notin Search /\ r \notin Post
    BY <1>1, <1>3, KindsApart DEF ProxyTypeOK, answers
  <2> QED BY <1>1, <1>3, <2>2, <2>3, RequestKeeps
<1>4. r \in Search \cup Rank
  <2>1. r \notin Post
    BY <1>1 DEF PermitsKept
  <2> QED BY <2>1, KindsApart
<1> QED BY <1>2, <1>3, <1>4 DEF Admit, Goes

(* A request is dropped, with its call and its permits unless it works.     *)
LEMMA DropKeeps ==
    ASSUME ProxyIInv, NEW r \in Request, Drop(r)
    PROVE  ProxyIInv'
<1>1. /\ ProxyTypeOK /\ InLineOnce /\ OwnCalls /\ PermitsKept /\ OwnWords
      /\ r \in Job /\ at[r] # "off" /\ UNCHANGED <<readiness, memo, answers>>
  BY JobsApart DEF ProxyIInv, Drop
<1>2. CASE at[r] = "work"
  <2>1. at' = [at EXCEPT ![r] = "left"] /\ UNCHANGED <<bodies, cpus, jobs>>
    BY <1>1, <1>2 DEF Drop, Goes, jobs
  <2>2. r \notin bodies'
    BY <1>1, <1>2, <2>1 DEF PermitsKept
  <2> QED BY <1>1, <1>2, <2>1, <2>2, MoveKeeps
<1>3. CASE at[r] # "work"
  <2>1. /\ at' = [at EXCEPT ![r] = "ended"] /\ bodies' = bodies \ {r} /\ cpus' = cpus \ {r}
        /\ job' = [job EXCEPT ![r] = "off"] /\ text' = [text EXCEPT ![r] = "none"]
        /\ IF job[r] = "queued" THEN Leave(r) ELSE UNCHANGED line
    BY <1>3 DEF Drop, Goes, Forget
  <2>2. line' \in Seq(Job) /\ InLineOnce'
    BY <1>1, <2>1, LeaveKeeps, LineRests
  <2>3. /\ bodies' \subseteq Post \cup Rank /\ cpus' \subseteq Search \cup Rank
        /\ UNCHANGED <<readiness, memo, strict, wants, rankedBy, age>>
        /\ wants' \in [Search -> {"none", "whole", "rest"}] /\ rankedBy' \in [Search -> {"none", "whole", "rest"}]
        /\ age' \in [Search -> {"none", "short", "long"}]
        /\ r \in Search => rankedBy'[r] \in {"none", wants'[r]}
    BY <1>1, <2>1 DEF ProxyTypeOK, answers, OwnWords
  <2> QED BY <1>1, <2>1, <2>2, <2>3, RequestKeeps DEF Over
<1> QED BY <1>2, <1>3

(* A call is spawned for a request that came, or comes now.                 *)
LEMMA SpawnKeeps ==
    ASSUME ProxyIInv, NEW r \in Search \cup Rank, ArriveSearch(r) \/ Warm(r)
    PROVE  ProxyIInv'
<1>1. /\ ProxyTypeOK /\ BodiesHeld /\ OwnWords /\ InLineOnce /\ OwnCalls /\ EarlyCalls /\ PermitsKept
      /\ RankedLast /\ r \in Request /\ Early(r) \in Job /\ Early(r) \notin Request
  BY JobsApart DEF ProxyIInv
<1>2. PICK next \in {"off", "spawned"}, words \in {"none", "whole", "rest", "title", "warm", "body"} :
         job' = [job EXCEPT ![Early(r)] = next] /\ text' = [text EXCEPT ![Early(r)] = words]
  <2>1. job[Early(r)] = "off"
    BY <1>1 DEF ArriveSearch, Warm, EarlyCalls
  <2>2. CASE UNCHANGED <<job, text>>
    BY <1>1, <2>1, <2>2 DEF ProxyTypeOK
  <2>3. CASE job' = [job EXCEPT ![Early(r)] = "spawned"]
             /\ text' \in {[text EXCEPT ![Early(r)] = "whole"], [text EXCEPT ![Early(r)] = "warm"]}
    BY <2>3
  <2> QED BY <2>2, <2>3 DEF ArriveSearch, Warm
<1>3. /\ at[r] \in {"off", "index"} /\ job[Early(r)] = "off"
      /\ at' = [at EXCEPT ![r] = "index"]
      /\ strict' \subseteq Search /\ UNCHANGED <<readiness, bodies, cpus, line, memo, wants, rankedBy, age>>
  BY <1>1 DEF ArriveSearch, Warm, Goes, ProxyTypeOK, answers, EarlyCalls
<1>4. \A q \in Request : job'[q] = job[q] /\ text'[q] = text[q]
  BY <1>1, <1>2, JobsApart DEF ProxyTypeOK
<1>5. line' \in Seq(Job) /\ InLineOnce'
  BY <1>1, <1>2, <1>3, LineRests
<1>6. ProxyTypeOK'
  <2>1. at' \in [Request -> {"off", "body", "index", "early", "embed", "admit", "lists", "work", "left"} \cup Over]
    BY <1>1, <1>3 DEF ProxyTypeOK
  <2>2. /\ job' \in [Job -> {"off", "spawned", "queued", "calling", "vector", "failed"}]
        /\ text' \in [Job -> {"none", "whole", "rest", "title", "warm", "body"}]
    BY <1>1, <1>2 DEF ProxyTypeOK
  <2> QED BY <1>1, <1>3, <1>5, <2>1, <2>2 DEF ProxyTypeOK
<1>7. BodiesHeld'
  BY <1>1, <1>3, <1>4 DEF BodiesHeld, Request
<1>8. OwnWords' /\ RankedLast'
  BY <1>1, <1>3 DEF OwnWords, RankedLast, ProxyTypeOK, Request
<1>9. OwnCalls'
  BY <1>1, <1>3, <1>4 DEF OwnCalls, ProxyTypeOK
<1>10. EarlyCalls'
  <2>1. ASSUME NEW q \in Search \cup Rank, at'[q] = "off"
        PROVE  job'[Early(q)] = "off"
    <3>1. q # r /\ q \in Request /\ Early(q) \in Job /\ Early(q) # Early(r)
      BY <1>1, <1>3, <2>1, JobsApart DEF ProxyTypeOK
    <3> QED BY <1>1, <1>2, <1>3, <2>1, <3>1 DEF EarlyCalls, ProxyTypeOK
  <2>2. \A q \in Search : at'[q] = "early" => wants'[q] = "whole"
    BY <1>1, <1>3 DEF EarlyCalls, ProxyTypeOK, Request
  <2> QED BY <2>1, <2>2 DEF EarlyCalls
<1>11. PermitsKept'
  <2>1. bodies \subseteq Request /\ cpus \subseteq Request /\ Rank \subseteq Request /\ Post \subseteq Request
    BY <1>1 DEF ProxyTypeOK, Request
  <2> QED BY <1>1, <1>3, <2>1 DEF PermitsKept, ProxyTypeOK
<1> QED BY <1>5, <1>6, <1>7, <1>8, <1>9, <1>10, <1>11 DEF ProxyIInv

(* The canary's outcome changes no job and no request.                      *)
LEMMA CanaryKeeps ==
    ASSUME ProxyIInv, Canary \/ UNCHANGED proxyVars
    PROVE  ProxyIInv'
<1>1. /\ readiness' \in {"checking", "ready", "failed"}
      /\ UNCHANGED <<at, bodies, cpus, job, text, line, memo, strict, wants, rankedBy, age>>
  BY DEF Canary, proxyVars, jobs, answers, ProxyIInv, ProxyTypeOK
<1>2. ProxyTypeOK'
  BY <1>1 DEF ProxyIInv, ProxyTypeOK
<1> QED BY <1>1, <1>2 DEF ProxyIInv, BodiesHeld, OwnWords, InLineOnce, OwnCalls, EarlyCalls,
                          PermitsKept, RankedLast

LEMMA NextProxy == ProxyIInv /\ [ProxyNext]_proxyVars => ProxyIInv'
<1> SUFFICES ASSUME ProxyIInv, [ProxyNext]_proxyVars
             PROVE  ProxyIInv'
  OBVIOUS
<1>1. ASSUME NEW r \in Request, RequestStep(r)
      PROVE  ProxyIInv'
  <2>1. CASE ArriveSearch(r)
    BY <2>1, SpawnKeeps DEF ArriveSearch
  <2>2. CASE AskStrictly(r)
    BY <2>2, SearchStepKeeps DEF AskStrictly, ProxyIInv, ProxyTypeOK
  <2> QED BY <1>1, <2>1, <2>2, RequestMoves, BodyReadKeeps, HeardKeeps, AdmitKeeps, DropKeeps
          DEF RequestStep
<1>2. CASE \E r \in Search : SearchStep(r)
  BY <1>2, SearchStepKeeps
<1>3. CASE \E r \in Search \cup Rank : Warm(r)
  BY <1>3, SpawnKeeps
<1>4. CASE \E j \in Job : JobStep(j)
  BY <1>4, JobStepKeeps
<1>5. CASE Canary \/ UNCHANGED proxyVars
  BY <1>5, CanaryKeeps
<1> QED BY <1>1, <1>2, <1>3, <1>4, <1>5 DEF ProxyNext

(* EmbedProxy: whoever leaves or fails, no body waits for the service       *)
(* outside its permit, no library costs it anything before it is admitted,  *)
(* a search is ranked by its own words, and what is over keeps nothing.     *)
THEOREM ProxyKeepsItsPermits == ProxySpec => []ProxyInv
<1>1. ProxyIInv => ProxyInv
  <2> SUFFICES ASSUME ProxyIInv PROVE ProxyInv
    OBVIOUS
  <2>1. RankReserved
    BY DEF ProxyIInv, RankReserved, OwnCalls, PermitsKept, Request
  <2>2. NothingLeft
    BY DEF ProxyIInv, NothingLeft, OwnCalls, PermitsKept, Over
  <2> QED BY <2>1, <2>2 DEF ProxyIInv, ProxyInv
<1> QED BY <1>1, InitProxy, NextProxy, PTL DEF ProxySpec

-----------------------------------------------------------------------------
(* TitleExports.                                                           *)

LEMMA TitlesInitIInv == TitlesInit => TitlesIInv
BY TitlesAssumption
   DEF TitlesInit, TitlesIInv, TitlesTypeOK, OneDayOnward, LaterDaysTried, OthersWait, Today

LEMMA TitlesTypeStep == TitlesTypeOK /\ [TitlesNext]_titleVars => TitlesTypeOK'
<1> SUFFICES ASSUME TitlesTypeOK, [TitlesNext]_titleVars PROVE TitlesTypeOK'
  OBVIOUS
<1> USE TitlesAssumption DEF TitlesTypeOK
<1>1. Today \in Int /\ hour + 1 \in Int /\ hour + DayHours \in Int /\ trying - 1 \in Int
  BY QuotientIsExact DEF Today
<1>2. ASSUME Refresh PROVE TitlesTypeOK'
  BY <1>1, <1>2 DEF Refresh
<1>3. ASSUME NEW export \in Export, NEW both, After(export, both)
      PROVE  /\ {trying', wake'} \subseteq Int
             /\ step' \in {"asleep", "movies", "series", "building"}
  BY <1>1, <1>3 DEF After, AfterMovies, AfterSeries, Sleep
<1>4. ASSUME NEW export \in Export, AlreadyKept(export) PROVE TitlesTypeOK'
  BY <1>3, <1>4 DEF AlreadyKept
<1>5. ASSUME NEW export \in Export, Downloads(export) PROVE TitlesTypeOK'
  <2>1. downloaded' \subseteq [export : Export, day : Int, readable : BOOLEAN]
    BY <1>5 DEF Downloads
  <2> QED BY <1>3, <1>5, <2>1 DEF Downloads
<1>6. ASSUME NEW export \in Export, DownloadFails(export) PROVE TitlesTypeOK'
  BY <1>3, <1>6 DEF DownloadFails
<1>7. ASSUME Builds PROVE TitlesTypeOK'
  BY <1>1, <1>7 DEF Builds, KeptFor, Sleep
<1>8. ASSUME BuildFails PROVE TitlesTypeOK'
  BY <1>1, <1>8 DEF BuildFails, Sleep
<1>9. ASSUME HoursPass PROVE TitlesTypeOK'
  BY <1>1, <1>9 DEF HoursPass
<1>10. CASE UNCHANGED titleVars
  BY <1>10 DEF titleVars
<1> QED BY <1>2, <1>4, <1>5, <1>6, <1>7, <1>8, <1>9, <1>10 DEF TitlesNext

(* An export that was there, or was not got, moves the pass on or ends it. *)
LEMMA AfterKeepsDays ==
    ASSUME TitlesIInv, NEW export \in Export, NEW both, step = export, After(export, both),
           UNCHANGED <<hour, index, until, newest>>
    PROVE  OneDayOnward' /\ LaterDaysTried'
<1> USE TitlesAssumption DEF TitlesIInv, TitlesTypeOK, Export
<1>1. OneDayOnward'
  BY DEF OneDayOnward
<1>2. /\ newest <= until /\ until < Today /\ trying \in {until, until + 1}
      /\ (newest' + 1) * DayHours <= hour' /\ Today' = Today
  BY DEF LaterDaysTried, Today
<1>3. CASE step' = "asleep"
  <2>1. wake' = hour + 1
    BY <1>3 DEF After, AfterMovies, AfterSeries, Sleep
  <2>2. (newest' + 1) * DayHours \in Int
    OBVIOUS
  <2>3. (newest' + 1) * DayHours <= wake'
    BY <1>2, <2>1, <2>2
  <2> QED BY <1>1, <1>3, <2>3 DEF LaterDaysTried
<1>4. CASE step' # "asleep"
  <2>1. trying' \in {until, until + 1}
    BY <1>2, <1>4 DEF After, AfterMovies, AfterSeries, Sleep
  <2>2. newest' <= until' /\ until' < Today'
    BY <1>2
  <2> QED BY <1>1, <1>2, <1>4, <2>1, <2>2 DEF LaterDaysTried
<1> QED BY <1>3, <1>4

LEMMA TitlesDaysStep == TitlesIInv /\ [TitlesNext]_titleVars => OneDayOnward' /\ LaterDaysTried'
<1> SUFFICES ASSUME TitlesIInv, [TitlesNext]_titleVars PROVE OneDayOnward' /\ LaterDaysTried'
  OBVIOUS
<1> USE TitlesAssumption DEF TitlesIInv, TitlesTypeOK
<1>1. /\ Today \in Int /\ (newest + 1) * DayHours \in Int
      /\ \A n \in Int : n * DayHours <= hour <=> n <= Today
  BY DaysOfHours, QuotientIsExact DEF Today
<1>2. ASSUME Refresh PROVE OneDayOnward' /\ LaterDaysTried'
  <2>1. (newest + 1) * DayHours <= hour
    BY <1>1, <1>2 DEF Refresh, LaterDaysTried
  <2>2. newest + 1 <= Today
    BY <1>1, <2>1
  <2> QED BY <1>1, <1>2, <2>1, <2>2 DEF Refresh, LaterDaysTried, OneDayOnward, Today
<1>3. ASSUME NEW export \in Export, AlreadyKept(export) \/ Downloads(export) \/ DownloadFails(export)
      PROVE  OneDayOnward' /\ LaterDaysTried'
  BY <1>3, AfterKeepsDays DEF AlreadyKept, Downloads, DownloadFails
<1>4. ASSUME Builds PROVE OneDayOnward' /\ LaterDaysTried'
  <2>1. /\ step = "building" /\ index' = [movies |-> trying, series |-> trying]
        /\ newest' = IF trying > newest THEN trying ELSE newest
        /\ step' = "asleep" /\ wake' = hour + DayHours
    BY <1>4 DEF Builds, KeptFor, Sleep
  <2>2. newest <= until /\ until < Today /\ trying \in {until, until + 1}
    BY <2>1 DEF LaterDaysTried
  <2>3. newest' = trying /\ trying <= Today
    BY <1>1, <2>1, <2>2
  <2>4. trying * DayHours <= hour
    BY <1>1, <2>3
  <2>5. (newest' + 1) * DayHours <= hour + DayHours
    <3>1. (trying + 1) * DayHours = trying * DayHours + DayHours
      OBVIOUS
    <3>2. trying * DayHours \in Int
      OBVIOUS
    <3> QED BY <2>3, <2>4, <3>1, <3>2
  <2> QED BY <2>1, <2>3, <2>5 DEF OneDayOnward, LaterDaysTried
<1>5. ASSUME BuildFails PROVE OneDayOnward' /\ LaterDaysTried'
  BY <1>1, <1>5 DEF BuildFails, Sleep, OneDayOnward, LaterDaysTried
<1>6. ASSUME HoursPass PROVE OneDayOnward' /\ LaterDaysTried'
  <2>1. \A n \in Int : n * DayHours <= hour' <=> n <= Today'
    BY <1>6, DaysOfHours DEF HoursPass, Today
  <2>2. Today * DayHours <= hour /\ Today * DayHours \in Int
    BY <1>1
  <2>3. Today <= Today' /\ Today' \in Int
    BY <1>1, <1>6, <2>1, <2>2, QuotientIsExact DEF HoursPass, Today
  <2> QED BY <1>1, <1>6, <2>3 DEF HoursPass, OneDayOnward, LaterDaysTried
<1>7. CASE UNCHANGED titleVars
  BY <1>7 DEF titleVars, OneDayOnward, LaterDaysTried, Today
<1> QED BY <1>2, <1>3, <1>4, <1>5, <1>6, <1>7 DEF TitlesNext

(* A pair is complete only while it is being fetched or built. *)
LEMMA TitlesWaitStep == TitlesIInv /\ [TitlesNext]_titleVars => OthersWait'
<1> SUFFICES ASSUME TitlesIInv, [TitlesNext]_titleVars PROVE OthersWait'
  OBVIOUS
<1> USE DEF TitlesIInv, Export
<1>0. ASSUME NEW day, Waits(day), UNCHANGED downloaded PROVE Waits(day)'
  BY <1>0 DEF Waits
<1>1. ASSUME Refresh PROVE OthersWait'
  <2>1. \A kept \in downloaded' : kept \in downloaded /\ kept.day \in {until', until' + 1}
    BY <1>1, QuotientIsExact, TitlesAssumption DEF Refresh, TitlesTypeOK, Today
  <2>2. ASSUME NEW kept \in downloaded' PROVE Waits(kept.day)'
    <3>1. kept \in downloaded /\ Waits(kept.day) /\ kept.day \in {Today, Today - 1}
      BY <1>1, <2>1 DEF Refresh, OthersWait
    <3>2. \A other \in downloaded : other.day = kept.day => other \in downloaded'
      BY <1>1, <3>1 DEF Refresh
    <3>3. downloaded' \subseteq downloaded
      BY <2>1
    <3> QED BY <3>1, <3>2, <3>3 DEF Waits
  <2> QED BY <2>1, <2>2 DEF OthersWait
<1>2. ASSUME NEW export \in Export, AlreadyKept(export) PROVE OthersWait'
  <2>1. CASE export = "movies"
    <3>1. step' = "series" /\ UNCHANGED <<trying, until, downloaded>>
      BY <1>2, <2>1 DEF AlreadyKept, After, AfterMovies
    <3> QED BY <1>0, <1>2, <2>1, <3>1 DEF AlreadyKept, OthersWait
  <2>2. CASE export = "series"
    <3>1. UNCHANGED <<until, downloaded>> /\ step = "series"
      BY <1>2, <2>2 DEF AlreadyKept
    <3>2. CASE KeptFor("movies") # {}
      <4>1. step' = "building" /\ trying' = trying
        BY <1>2, <2>2, <3>2 DEF AlreadyKept, After, AfterSeries
      <4> QED BY <1>0, <3>1, <4>1 DEF OthersWait
    <3>3. CASE KeptFor("movies") = {}
      <4>1. Waits(trying)
        BY <3>3 DEF Waits, KeptFor
      <4>2. \A kept \in downloaded : Waits(kept.day)
        BY <3>1, <4>1 DEF OthersWait
      <4> QED BY <1>0, <3>1, <4>2 DEF OthersWait
    <3> QED BY <3>2, <3>3
  <2> QED BY <2>1, <2>2
<1>3. ASSUME NEW export \in Export, Downloads(export) PROVE OthersWait'
  <2>1. PICK readable \in BOOLEAN :
          downloaded' = downloaded \cup {[export |-> export, day |-> trying, readable |-> readable]}
    BY <1>3 DEF Downloads
  <2>2. trying \in {until, until + 1} /\ UNCHANGED until /\ step = export
    BY <1>3 DEF Downloads, LaterDaysTried
  <2>3. \A kept \in downloaded' : kept.day \in {until', until' + 1}
    BY <2>1, <2>2 DEF OthersWait
  <2>4. ASSUME NEW kept \in downloaded', kept.day # trying PROVE Waits(kept.day)'
    <3>1. kept \in downloaded /\ Waits(kept.day)
      BY <2>1, <2>4 DEF OthersWait
    <3> QED BY <2>1, <2>4, <3>1 DEF Waits
  <2>5. CASE export = "movies"
    <3>1. step' = "series" /\ UNCHANGED trying
      BY <1>3, <2>5 DEF Downloads, After, AfterMovies
    <3> QED BY <2>3, <2>4, <3>1 DEF OthersWait
  <2>6. CASE export = "series"
    <3>1. CASE KeptFor("movies") # {}
      <4>1. step' = "building" /\ trying' = trying
        BY <1>3, <2>6, <3>1 DEF Downloads, After, AfterSeries
      <4> QED BY <2>3, <2>4, <4>1 DEF OthersWait
    <3>2. CASE KeptFor("movies") = {}
      <4>1. \A kept \in downloaded' : ~ (kept.export = "movies" /\ kept.day = trying)
        BY <2>1, <2>6, <3>2 DEF KeptFor
      <4> QED BY <2>3, <2>4, <4>1 DEF OthersWait, Waits
    <3> QED BY <3>1, <3>2
  <2> QED BY <2>5, <2>6
<1>4. ASSUME NEW export \in Export, DownloadFails(export) PROVE OthersWait'
  <2>1. UNCHANGED <<until, downloaded>> /\ step = export
    BY <1>4 DEF DownloadFails
  <2>2. \A kept \in downloaded : Waits(kept.day)
    <3>1. CASE export = "movies"
      BY <2>1, <3>1 DEF OthersWait
    <3>2. CASE export = "series"
      <4>1. Waits(trying)
        BY <1>4, <3>2 DEF DownloadFails, Waits, KeptFor
      <4> QED BY <2>1, <4>1, <3>2 DEF OthersWait
    <3> QED BY <3>1, <3>2
  <2> QED BY <1>0, <2>1, <2>2 DEF OthersWait
<1>5. ASSUME Builds PROVE OthersWait'
  BY <1>5 DEF Builds, OthersWait
<1>6. ASSUME BuildFails PROVE OthersWait'
  <2>1. UNCHANGED <<until, trying, downloaded>> /\ Waits(trying)
    BY <1>6 DEF BuildFails, Waits, KeptFor
  <2>2. \A kept \in downloaded : Waits(kept.day)
    BY <2>1 DEF OthersWait
  <2> QED BY <1>0, <2>1, <2>2 DEF OthersWait
<1>7. ASSUME HoursPass \/ UNCHANGED titleVars PROVE OthersWait'
  BY <1>0, <1>7 DEF HoursPass, titleVars, OthersWait
<1> QED BY <1>1, <1>2, <1>3, <1>4, <1>5, <1>6, <1>7 DEF TitlesNext

LEMMA TitlesIInvImplies == TitlesIInv => TitlesInv
<1> SUFFICES ASSUME TitlesIInv, step = "asleep" PROVE NothingKeptInVain
  BY DEF TitlesIInv, TitlesInv, NothingKeptInVain
<1>1. \A kept \in downloaded : kept.day \in {until, until + 1} /\ Waits(kept.day)
  BY DEF TitlesIInv, OthersWait
<1>2. ASSUME NEW kept \in downloaded
      PROVE  \/ \E export \in Export : [export |-> export, day |-> kept.day] \notin
                     {[export |-> other.export, day |-> other.day] : other \in downloaded}
             \/ \E other \in downloaded : other.day = kept.day /\ ~ other.readable
  BY <1>1 DEF Waits
<1> QED BY <1>1, <1>2 DEF NothingKeptInVain

(* Whichever downloads and builds fail: the title search never goes back to  *)
(* an earlier day's exports, is built from a pair of one day, and keeps       *)
(* neither a pair it could build from nor what no pass will try.            *)
THEOREM SearchGoesForward == TitlesSpec => []TitlesInv
<1>1. TitlesIInv /\ [TitlesNext]_titleVars => TitlesIInv'
  BY TitlesTypeStep, TitlesDaysStep, TitlesWaitStep DEF TitlesIInv
<1> QED BY TitlesInitIInv, <1>1, TitlesIInvImplies, PTL DEF TitlesSpec

-----------------------------------------------------------------------------
(* FilterAnswers.                                                          *)

(* An item a question may have.                                             *)
ItemOK(i) ==
    /\ i = [kind |-> i.kind, exclude |-> i.exclude, ids |-> i.ids]
    /\ i.kind \in Kind /\ i.exclude \in BOOLEAN
    /\ i.ids # {} /\ i.ids \subseteq ToSet(ValuesOf[i.kind])

LEMMA SetOfRange == \A q : ToSet(q) = Range(q)
BY DEF ToSet, Range

(* A value is put in the place of what it is counted without.               *)
LEMMA StaysOrApart ==
    ASSUME FilterAssumption, NEW i, ItemOK(i), NEW k \in Kind
    PROVE  Stays(i, k) <=> ~ (i.kind = k /\ CountedApart(i))
<1>1. IsFiniteSet(i.ids) /\ Cardinality(i.ids) \in Nat /\ Cardinality(i.ids) # 0
  <2>1. i.kind \in Kind /\ i.ids # {} /\ i.ids \subseteq ToSet(ValuesOf[i.kind])
    BY DEF ItemOK
  <2>2. IsFiniteSet(ToSet(ValuesOf[i.kind]))
    BY <2>1, FinitelyMany, SetOfRange DEF FilterAssumption
  <2>3. IsFiniteSet(i.ids)
    BY <2>1, <2>2, Fewer
  <2> QED BY <2>1, <2>3, FS_EmptySet, FS_CardinalityType
<1>2. CASE i.kind # k
  BY <1>2 DEF Stays
<1>3. CASE i.kind = k
  <2>1. Mode[k] = "and" <=> ~ (Mode[k] = "single")
    BY DEF FilterAssumption
  <2>2. Cardinality(i.ids) = 1 <=> ~ (Cardinality(i.ids) > 1)
    BY <1>1
  <2> QED BY <1>3, <2>1, <2>2 DEF Stays, CountedApart
<1> QED BY <1>2, <1>3

(* What still matches when one value more is asked for: in both tiers those that *)
(* carry it, and in the one those it may belong to.                         *)
Narrows(more, base, carrying, guessed) ==
    /\ more.any = base.any \cap (carrying \cup guessed)
    /\ more.sure = base.sure \cap carrying

LEMMA MatchedWith ==
    ASSUME NEW d, NEW scope, NEW restricted, NEW items, NEW k, NEW v, NEW new,
           new = [kind |-> k, exclude |-> FALSE, ids |-> {v}]
    PROVE  Narrows(Matched(d, scope, restricted, items \cup {new}),
                   Matched(d, scope, restricted, items), ValueTitles(d, k, v), Guessed[v])
<1> DEFINE from == Of(scope) \cap (IF restricted THEN Admitted ELSE Title)
           Left(item) == Known(d, item.kind, scope) \ ItemTitles(d, item)
           SureOf(i) == IF i.exclude THEN Left(i) ELSE ItemTitles(d, i)
           AnyOf(i) == IF i.exclude THEN Left(i) ELSE ItemTitles(d, i) \cup ItemLikely(i)
           base == Matched(d, scope, restricted, items)
           more == Matched(d, scope, restricted, items \cup {new})
<1>1. SureOf(new) = ItemTitles(d, new) /\ AnyOf(new) = ItemTitles(d, new) \cup ItemLikely(new)
  OBVIOUS
<1>2. ItemTitles(d, new) = ValueTitles(d, k, v) /\ ItemLikely(new) = Guessed[v]
  BY DEF ItemTitles, ItemLikely
<1>3. /\ base.sure = {t \in from : \A i \in items : t \in SureOf(i)}
      /\ base.any = {t \in from : \A i \in items : t \in AnyOf(i)}
  BY DEF Matched
<1>4. /\ more.sure = {t \in from : \A i \in items \cup {new} : t \in SureOf(i)}
      /\ more.any = {t \in from : \A i \in items \cup {new} : t \in AnyOf(i)}
  BY DEF Matched
<1> HIDE DEF SureOf, AnyOf, from, base, more
<1>5. /\ more.sure = base.sure \cap SureOf(new)
      /\ more.any = base.any \cap AnyOf(new)
  BY <1>3, <1>4
<1> QED BY <1>1, <1>2, <1>5 DEF Narrows, base, more

(* Both tiers' titles are counted apart, and each once.                     *)
CountedAs(d, scope, restricted, items, k, v, new) ==
    Tally(Matched(d, scope, restricted, items \cup {new}))
      = Counted(d, Matched(d, scope, restricted, items), k, v)

LEMMA CountedIsTallied ==
    ASSUME FilterAssumption, NEW d, NEW scope, NEW restricted, NEW items,
           NEW k \in Kind, NEW v \in ToSet(ValuesOf[k]), NEW new,
           new = [kind |-> k, exclude |-> FALSE, ids |-> {v}]
    PROVE  CountedAs(d, scope, restricted, items, k, v, new)
<1> DEFINE base == Matched(d, scope, restricted, items)
           more == Matched(d, scope, restricted, items \cup {new})
           C == ValueTitles(d, k, v)
           G == Guessed[v]
           c == Cardinality(base.any \cap C)
           g == Cardinality(base.any \cap G)
           s == Cardinality(base.sure \cap C)
<1>1. Narrows(more, base, C, G)
  BY MatchedWith
<1>2. base.any \subseteq Title
  <2>1. Of(scope) \subseteq Title
    BY DEF Of, Title
  <2> QED BY <2>1 DEF Matched
<1>3. IsFiniteSet(base.any)
  BY <1>2, Fewer DEF FilterAssumption
<1>4. C \cap G = {}
  BY DEF FilterAssumption, TiersApart, ValueTitles
<1>5. Counted(d, base, k, v) = [total |-> c + g, likely |-> (c + g) - s]
  BY Zenon DEF Counted
<1>6. Tally(more) = [total |-> Cardinality(more.any), likely |-> Cardinality(more.any) - Cardinality(more.sure)]
  BY DEF Tally
<1> HIDE DEF base, more, C, G
<1>7. IsFiniteSet(base.any \cap C) /\ IsFiniteSet(base.any \cap G)
  BY <1>3, FS_Intersection
<1>8. (base.any \cap C) \cap (base.any \cap G) = {}
  BY <1>4
<1>9. Cardinality((base.any \cap C) \cup (base.any \cap G)) = c + g
  BY <1>7, <1>8, CountedApartly
<1>11. more.any = (base.any \cap C) \cup (base.any \cap G) /\ more.sure = base.sure \cap C
  BY <1>1 DEF Narrows
<1>12. Cardinality(more.any) = c + g /\ Cardinality(more.sure) = s
  BY <1>9, <1>11
<1> HIDE DEF c, g, s
<1>13. Tally(more) = Counted(d, base, k, v)
  BY <1>5, <1>6, <1>12
<1> QED BY <1>13 DEF base, more, CountedAs

(* A kind's values are told under what is left without those they replace.  *)
LEMMA WouldBeCounted ==
    ASSUME FilterAssumption, NEW d, NEW scope, NEW restricted, NEW items, \A i \in items : ItemOK(i),
           NEW k \in Kind, NEW v \in ToSet(ValuesOf[k])
    PROVE  Would(d, scope, restricted, items, k, v) =
             Counted(d, Base(d, scope, restricted, items, k), k, v)
<1> DEFINE stay == {i \in items : Stays(i, k)}
<1>1. stay = items \ {i \in items : i.kind = k /\ CountedApart(i)}
  BY StaysOrApart
<1> HIDE DEF stay
<1>2. Base(d, scope, restricted, items, k) = Matched(d, scope, restricted, stay)
  BY <1>1 DEF Base
<1> DEFINE new == [kind |-> k, exclude |-> FALSE, ids |-> {v}]
<1>3. Would(d, scope, restricted, items, k, v) = Tally(Matched(d, scope, restricted, stay \cup {new}))
  BY DEF Would, stay
<1>4. new = [kind |-> k, exclude |-> FALSE, ids |-> {v}]
  OBVIOUS
<1> HIDE DEF new
<1>5. CountedAs(d, scope, restricted, stay, k, v, new)
  BY <1>4, CountedIsTallied
<1> QED BY <1>2, <1>3, <1>5 DEF CountedAs

(* The first few of an order, and how those that are left out stand to them. *)
LEMMA FirstFew ==
    ASSUME NEW n \in Nat, NEW found \in SUBSET (1..n), NEW total,
           \A i \in found : total[i] \in Int, NEW few \in Nat
    PROVE  /\ \A i \in found : Cardinality(AheadOf(i, found, total)) < Cardinality(found)
           /\ \A i, j \in found : /\ Cardinality(AheadOf(j, found, total)) < few
                                 /\ ~ (Cardinality(AheadOf(i, found, total)) < few)
                                 => total[i] <= total[j]
<1>1. IsFiniteSet(found)
  BY FirstNumbers, Fewer
<1>2. ASSUME NEW i \in found
      PROVE  /\ IsFiniteSet(AheadOf(i, found, total))
             /\ Cardinality(AheadOf(i, found, total)) \in Nat
             /\ Cardinality(AheadOf(i, found, total)) < Cardinality(found)
  <2> DEFINE A == AheadOf(i, found, total)
  <2>1. A \subseteq found /\ i \notin A
    BY DEF AheadOf
  <2> HIDE DEF A
  <2>2. A # found
    BY <2>1
  <2>3. IsFiniteSet(A) /\ Cardinality(A) \in Nat /\ Cardinality(A) < Cardinality(found)
    BY <1>1, <2>1, <2>2, Fewer
  <2> QED BY <2>3 DEF A
<1>3. ASSUME NEW i \in found, NEW j \in found, Cardinality(AheadOf(j, found, total)) < few,
             ~ (Cardinality(AheadOf(i, found, total)) < few), ~ (total[i] <= total[j])
      PROVE  FALSE
  <2>1. AheadOf(i, found, total) \subseteq AheadOf(j, found, total)
    <3>1. total[i] \in Int /\ total[j] \in Int /\ total[i] > total[j]
      BY <1>3
    <3>2. \A m \in found : total[m] \in Int
      OBVIOUS
    <3>3. \A m \in found : total[m] > total[i] \/ total[m] = total[i] => total[m] > total[j]
      BY <3>1, <3>2
    <3> QED BY <3>3 DEF AheadOf
  <2>2. Cardinality(AheadOf(i, found, total)) <= Cardinality(AheadOf(j, found, total))
    BY <1>2, <2>1, Fewer
  <2> QED BY <1>2, <1>3, <2>2
<1> QED BY <1>2, <1>3

(* A kind's answer tells.                                                   *)
LEMMA KindAnswerTells ==
    ASSUME FilterAssumption, NEW d, NEW k \in Kind, NEW base, NEW selected, NEW would,
           \A i \in selected : i.ids \subseteq ToSet(ValuesOf[k]),
           would = [v \in ToSet(ValuesOf[k]) |-> Counted(d, base, k, v)],
           \A v \in ToSet(ValuesOf[k]) : would[v].total \in Nat
    PROVE  KindTells(KindAnswer(d, k, base, selected), k, UNION {i.ids : i \in selected}, would)
<1> DEFINE order == ValuesOf[k]
           n == Len(order)
           total == [i \in DOMAIN order |-> would[order[i]].total]
           found == {i \in DOMAIN order : total[i] > 0 /\ Listable(k, order[i])}
           top == {i \in found : Data[k] = "entity" => Cardinality(AheadOf(i, found, total)) < TopK}
           listed == IF Data[k] = "like" THEN {} ELSE {order[i] : i \in top}
           asked == UNION {i.ids : i \in selected}
           values == [v \in listed \cup asked |-> would[v]]
           complete == CASE Data[k] = "like" -> FALSE
                         [] Data[k] = "entity" -> Cardinality(found) <= TopK
                         [] OTHER -> TRUE
<1>1. KindAnswer(d, k, base, selected) = [values |-> values, complete |-> complete]
  BY DEF KindAnswer
<1>2. /\ n \in Nat /\ DOMAIN order = 1..n /\ ToSet(order) = {order[i] : i \in 1..n}
      /\ IsInjective(order)
  <2>1. order \in Seq(ToSet(order)) /\ IsInjective(order)
    BY DEF FilterAssumption
  <2> HIDE DEF order, total, found, top, listed, asked, values, complete
  <2>2. n \in Nat /\ DOMAIN order = 1..n
    BY <2>1
  <2> QED BY <2>1, <2>2 DEF ToSet
<1>3. DOMAIN would = ToSet(order)
  OBVIOUS
<1> HIDE DEF n
<1>4. \A i \in 1..n : order[i] \in ToSet(order) /\ total[i] = would[order[i]].total /\ total[i] \in Nat
  <2>1. \A i \in 1..n : order[i] \in ToSet(order)
    BY <1>2
  <2>2. \A v \in ToSet(order) : would[v].total \in Nat
    OBVIOUS
  <2>3. total = [i \in 1..n |-> would[order[i]].total]
    BY <1>2
  <2> HIDE DEF total, order
  <2> QED BY <2>1, <2>2, <2>3
<1> HIDE DEF order
<1>5. /\ found \subseteq 1..n /\ \A i \in 1..n : i \in found <=> total[i] > 0 /\ Listable(k, order[i])
      /\ \A i \in found : total[i] \in Int
  BY <1>2, <1>4
<1>6. TopK \in Nat
  BY DEF FilterAssumption
<1> HIDE DEF total, found
<1>7. /\ \A i \in found : Cardinality(AheadOf(i, found, total)) < Cardinality(found)
      /\ \A i, j \in found : /\ Cardinality(AheadOf(j, found, total)) < TopK
                            /\ ~ (Cardinality(AheadOf(i, found, total)) < TopK)
                            => total[i] <= total[j]
  BY <1>2, <1>5, <1>6, FirstFew
<1>8. top \subseteq found /\ (Data[k] # "entity" => top = found)
  OBVIOUS
<1>9. listed \cup asked \subseteq ToSet(order) /\ \A v \in listed : Listable(k, v)
  BY <1>4, <1>5, <1>8 DEF order
<1>10. DOMAIN values = listed \cup asked /\ \A v \in DOMAIN values : values[v] = would[v]
  OBVIOUS
<1>11. ASSUME NEW v \in ToSet(order) \ (listed \cup asked), Listable(k, v), complete
       PROVE  would[v].total = 0
  <2>1. PICK i \in 1..n : v = order[i]
    BY <1>2
  <2>2. Data[k] # "like" /\ (Data[k] = "entity" => Cardinality(found) <= TopK)
    BY <1>11
  <2>3. i \in found => i \in top
    <3>1. Cardinality(found) \in Nat /\ \A j \in found : Cardinality(AheadOf(j, found, total)) \in Nat
      <4>1. IsFiniteSet(found)
        BY <1>2, <1>5, FirstNumbers, Fewer
      <4>2. \A j : AheadOf(j, found, total) \subseteq found
        BY DEF AheadOf
      <4> QED BY <4>1, <4>2, Fewer
    <3> QED BY <1>6, <1>7, <2>2, <3>1
  <2>4. i \notin top
    BY <1>11, <2>1, <2>2
  <2> QED BY <1>4, <1>5, <1>11, <2>1, <2>3, <2>4
<1>12. ASSUME Data[k] = "entity", NEW v \in ToSet(order) \ (listed \cup asked), Listable(k, v),
              NEW w \in (listed \cup asked) \ asked
       PROVE  would[v].total <= would[w].total
  <2>1. PICK i \in 1..n : v = order[i]
    BY <1>2
  <2>2. PICK j \in top : w = order[j]
    BY <1>12
  <2>3. i \notin top
    BY <1>12, <2>1
  <2>4. j \in found /\ j \in 1..n
    BY <1>5, <1>8, <2>2
  <2>5. CASE i \in found
    BY <1>4, <1>7, <1>12, <2>1, <2>2, <2>3, <2>4, <2>5
  <2>6. CASE i \notin found
    BY <1>4, <1>5, <1>12, <2>1, <2>2, <2>4, <2>6
  <2> QED BY <2>5, <2>6
<1> HIDE DEF listed, asked, values, complete
<1>13. KindTells([values |-> values, complete |-> complete], k, asked, would)
  BY <1>3, <1>9, <1>10, <1>11, <1>12 DEF KindTells
<1> QED BY <1>1, <1>13 DEF asked

(* What is worked out of a selection tells.                                 *)
LEMMA WorkedOutTells ==
    ASSUME FilterAssumption, NEW d, NEW scope, NEW restricted, NEW items,
           \A i \in items : ItemOK(i) /\ i.kind \in Ready(d)
    PROVE  Tells(WorkKinds(d, scope, restricted, items), d, scope, restricted, items)
<1> DEFINE Selected(k) == {i \in items : i.kind = k}
           shown == {k \in Ready(d) : Data[k] # "like" \/ Selected(k) # {}}
           tally == Tally(Matched(d, scope, restricted, items))
           kinds == [k \in shown |-> KindAnswer(d, k, Base(d, scope, restricted, items, k), Selected(k))]
           would(k) == [v \in ToSet(ValuesOf[k]) |-> Would(d, scope, restricted, items, k, v)]
<1>1. WorkKinds(d, scope, restricted, items) = [total |-> tally.total, likely |-> tally.likely, kinds |-> kinds]
  BY DEF WorkKinds
<1>2. tally = [total |-> tally.total, likely |-> tally.likely]
  BY DEF Tally
<1>3. {k \in Ready(d) : Data[k] # "like"} \subseteq shown /\ DOMAIN kinds = shown
  OBVIOUS
<1>4. ASSUME NEW k \in shown
      PROVE  KindTells(kinds[k], k, UNION {i.ids : i \in Selected(k)}, would(k))
  <2> DEFINE base == Base(d, scope, restricted, items, k)
             selected == Selected(k)
             all == would(k)
  <2>1. k \in Kind
    BY DEF Ready
  <2>2. kinds[k] = KindAnswer(d, k, base, selected)
    BY <1>4
  <2>3. \A i \in selected : i.ids \subseteq ToSet(ValuesOf[k])
    BY DEF ItemOK
  <2>4. \A v \in ToSet(ValuesOf[k]) : Would(d, scope, restricted, items, k, v) = Counted(d, base, k, v)
    BY <2>1, WouldBeCounted
  <2>5. all = [v \in ToSet(ValuesOf[k]) |-> Counted(d, base, k, v)]
    BY <2>4
  <2>6. \A v \in ToSet(ValuesOf[k]) : all[v].total \in Nat
    <3> SUFFICES ASSUME NEW v \in ToSet(ValuesOf[k]) PROVE all[v].total \in Nat
      OBVIOUS
    <3> DEFINE some == {i \in items : Stays(i, k)} \cup {[kind |-> k, exclude |-> FALSE, ids |-> {v}]}
    <3>1. all[v] = Tally(Matched(d, scope, restricted, some))
      BY DEF Would
    <3> HIDE DEF some
    <3>2. Matched(d, scope, restricted, some).any \subseteq Title
      <4>1. Of(scope) \subseteq Title
        BY DEF Of, Title
      <4> QED BY <4>1 DEF Matched
    <3>3. Cardinality(Matched(d, scope, restricted, some).any) \in Nat
      BY <3>2, Fewer DEF FilterAssumption
    <3> QED BY <3>1, <3>3 DEF Tally
  <2> HIDE DEF base, selected, all, kinds
  <2>7. KindTells(KindAnswer(d, k, base, selected), k, UNION {i.ids : i \in selected}, all)
    BY <2>1, <2>3, <2>5, <2>6, KindAnswerTells
  <2> QED BY <2>2, <2>7 DEF selected, all
<1> HIDE DEF tally, kinds, shown
<1>5. ASSUME NEW told, told = [total |-> tally.total, likely |-> tally.likely, kinds |-> kinds]
      PROVE  Tells(told, d, scope, restricted, items)
  <2>1. [total |-> told.total, likely |-> told.likely] = tally /\ told.kinds = kinds
    BY <1>2, <1>5
  <2> QED BY <1>3, <1>4, <2>1 DEF Tells, tally
<1> QED BY <1>1, <1>5

-----------------------------------------------------------------------------
(* The pages of titles.json, one after another: the order they are in, the   *)
(* merge of the two types' orders, and the walk the pages are cut from.      *)

(* Every two of S are in order, one way.                                    *)
OrdersAll(S, before) ==
    /\ \A a \in S : <<a, a>> \notin before
    /\ \A a, b \in S : a # b => <<a, b>> \in before \/ <<b, a>> \in before
    /\ \A a, b, c \in S : <<a, b>> \in before /\ <<b, c>> \in before => <<a, c>> \in before

(* S in this order, each with the number of those before it.                *)
InTurn(q, S, before) ==
    /\ q \in Seq(S) /\ Len(q) = Cardinality(S) /\ IsInjective(q) /\ Range(q) = S
    /\ \A i, j \in DOMAIN q : i < j => <<q[i], q[j]>> \in before
    /\ \A i \in DOMAIN q : Cardinality({u \in S : <<u, q[i]>> \in before}) = i - 1

LEMMA InTheOrderFacts ==
    ASSUME NEW S, IsFiniteSet(S), NEW before, OrdersAll(S, before)
    PROVE  InTurn(InTheOrder(S, before), S, before)
<1> DEFINE L == Cardinality(S)
           Lower(i) == {u \in S : <<u, i>> \in before}
           f == [i \in S |-> Cardinality(Lower(i))]
           q == InTheOrder(S, before)
<1>1. /\ \A a \in S : <<a, a>> \notin before
      /\ \A a, b \in S : a # b => <<a, b>> \in before \/ <<b, a>> \in before
      /\ \A a, b, c \in S : <<a, b>> \in before /\ <<b, c>> \in before => <<a, c>> \in before
  BY DEF OrdersAll
<1>2. \A i \in S : IsFiniteSet(Lower(i)) /\ f[i] \in Nat
  <2> SUFFICES ASSUME NEW i \in S PROVE IsFiniteSet(Lower(i)) /\ f[i] \in Nat
    OBVIOUS
  <2>1. Lower(i) \subseteq S
    OBVIOUS
  <2>2. IsFiniteSet(Lower(i)) /\ Cardinality(Lower(i)) \in Nat
    BY <2>1, Fewer, Zenon
  <2> QED BY <2>2
<1>3. ASSUME NEW a \in S, NEW b \in S, <<a, b>> \in before PROVE f[a] < f[b]
  <2>1. Lower(a) \subseteq Lower(b) /\ a \in Lower(b) /\ a \notin Lower(a)
    BY <1>1, <1>3
  <2>2. IsFiniteSet(Lower(b)) /\ Lower(a) # Lower(b)
    BY <1>2, <2>1
  <2>3. Cardinality(Lower(a)) < Cardinality(Lower(b))
    BY <2>1, <2>2, Fewer, Zenon
  <2> QED BY <2>3
<1>4. \A a, b \in S : f[a] < f[b] <=> <<a, b>> \in before
  <2> SUFFICES ASSUME NEW a \in S, NEW b \in S, f[a] < f[b] PROVE <<a, b>> \in before
    BY <1>3
  <2>1. <<b, a>> \in before => f[b] < f[a]
    BY <1>3
  <2> HIDE DEF f
  <2>2. f[a] \in Nat /\ f[b] \in Nat
    BY <1>2
  <2>3. ~ (f[b] < f[a])
    BY <2>2
  <2>4. a # b
    BY <2>2
  <2> QED BY <1>1, <2>1, <2>3, <2>4
<1>5. \A i \in S : RankIn(S, f, i) = f[i] /\ f[i] = Cardinality(Lower(i))
  <2> SUFFICES ASSUME NEW i \in S PROVE RankIn(S, f, i) = f[i] /\ f[i] = Cardinality(Lower(i))
    OBVIOUS
  <2>1. f[i] = Cardinality(Lower(i))
    OBVIOUS
  <2> HIDE DEF f
  <2>2. {j \in S : f[j] < f[i]} = Lower(i)
    BY <1>4
  <2> QED BY <2>1, <2>2 DEF RankIn
<1>6. q = [n \in 1..L |-> CHOOSE t \in S : Cardinality(Lower(t)) = n - 1]
  BY DEF InTheOrder
<1> HIDE DEF f, Lower
<1>7. \A i, j \in S : f[i] = f[j] => i = j
  <2>1. \A i, j \in S : i # j => f[i] < f[j] \/ f[j] < f[i]
    BY <1>1, <1>4
  <2> QED BY <1>2, <2>1
<1>8. RankedApart(S, f)
  <2>1. \A i \in S : f[i] \in Int
    BY <1>2
  <2> QED BY <1>7, <2>1, RanksFill
<1>9. L \in Nat /\ \A n \in 1..L : \E i \in S : Cardinality(Lower(i)) = n - 1
  BY <1>5, <1>8 DEF RankedApart
<1>10. \A i \in S : Cardinality(Lower(i)) \in 0..(L - 1)
  BY <1>5, <1>8 DEF RankedApart
<1> HIDE DEF L
<1>11. /\ DOMAIN q = 1..L
       /\ \A n \in 1..L : q[n] \in S /\ Cardinality(Lower(q[n])) = n - 1
  BY <1>6, <1>9
<1> HIDE DEF q
<1>12. \A i, j \in 1..L : i < j => <<q[i], q[j]>> \in before
  <2> SUFFICES ASSUME NEW i \in 1..L, NEW j \in 1..L, i < j PROVE <<q[i], q[j]>> \in before
    OBVIOUS
  <2>1. f[q[i]] = i - 1 /\ f[q[j]] = j - 1 /\ i - 1 < j - 1
    BY <1>5, <1>9, <1>11
  <2> QED BY <1>4, <1>11, <2>1
<1>13. IsInjective(q)
  <2>1. \A i, j \in 1..L : q[i] = q[j] => i - 1 = j - 1
    BY <1>11
  <2>2. \A i, j \in 1..L : i - 1 = j - 1 => i = j
    BY <1>9
  <2> QED BY <1>11, <2>1, <2>2 DEF IsInjective
<1>14. Range(q) = S
  <2>1. \A t \in S : \E n \in 1..L : q[n] = t
    <3> SUFFICES ASSUME NEW t \in S PROVE \E n \in 1..L : q[n] = t
      OBVIOUS
    <3>1. PICK n \in 1..L : Cardinality(Lower(t)) = n - 1
      <4>1. Cardinality(Lower(t)) \in 0..(L - 1)
        BY <1>10
      <4>2. Cardinality(Lower(t)) + 1 \in 1..L /\ Cardinality(Lower(t)) = (Cardinality(Lower(t)) + 1) - 1
        BY <1>9, <4>1
      <4> QED BY <4>2
    <3>2. f[q[n]] = f[t]
      BY <1>5, <1>11, <3>1
    <3> QED BY <1>7, <1>11, <3>2
  <2> QED BY <1>11, <2>1 DEF Range
<1>15. q \in Seq(S) /\ Len(q) = L
  <2>1. q \in [1..L -> S]
    <3>1. q = [n \in 1..L |-> q[n]]
      BY <1>6 DEF q
    <3> QED BY <1>11, <3>1
  <2> QED BY <1>9, <2>1
<1> QED BY <1>11, <1>12, <1>13, <1>14, <1>15 DEF InTurn, L, Lower, q

(* A row's members, in its order.                                           *)
LEMMA AlongFacts ==
    ASSUME NEW T, NEW row \in Seq(T), IsInjective(row)
    PROVE  /\ OrdersAll(Range(row), Along(row))
           /\ \A i, j \in DOMAIN row : <<row[i], row[j]>> \in Along(row) <=> i < j
<1>1. Len(row) \in Nat /\ DOMAIN row = 1..Len(row)
  OBVIOUS
<1>2. \A i, j \in DOMAIN row : <<row[i], row[j]>> \in Along(row) <=> i < j
  <2> SUFFICES ASSUME NEW i \in DOMAIN row, NEW j \in DOMAIN row
               PROVE  <<row[i], row[j]>> \in Along(row) <=> i < j
    OBVIOUS
  <2>1. <<row[i], row[j]>> \in Along(row)
          <=> \E b \in DOMAIN row : \E a \in 1..(b - 1) : <<row[i], row[j]>> = <<row[a], row[b]>>
    BY DEF Along
  <2>2. \A b \in DOMAIN row : \A a \in 1..(b - 1) :
            a \in DOMAIN row /\ (<<row[i], row[j]>> = <<row[a], row[b]>> => i = a /\ j = b)
    BY <1>1 DEF IsInjective
  <2>3. i < j <=> i \in 1..(j - 1)
    BY <1>1
  <2> QED BY <2>1, <2>2, <2>3
<1>3. \A t \in Range(row) : \E i \in DOMAIN row : row[i] = t
  BY DEF Range
<1>4. \A i, j \in DOMAIN row : i # j => i < j \/ j < i
  BY <1>1
<1>5. \A i, j, k \in DOMAIN row : ~ (i < i) /\ (i < j /\ j < k => i < k)
  BY <1>1
<1>6. \A a \in Range(row) : <<a, a>> \notin Along(row)
  BY <1>2, <1>3, <1>5
<1>7. \A a, b \in Range(row) : a # b => <<a, b>> \in Along(row) \/ <<b, a>> \in Along(row)
  BY <1>2, <1>3, <1>4
<1>8. \A a, b, c \in Range(row) :
          <<a, b>> \in Along(row) /\ <<b, c>> \in Along(row) => <<a, c>> \in Along(row)
  BY <1>2, <1>3, <1>5
<1> QED BY <1>2, <1>6, <1>7, <1>8 DEF OrdersAll

(* Of an order of all, that of some.                                        *)
LEMMA OrdersSome ==
    ASSUME NEW S, NEW before, OrdersAll(S, before), NEW T \in SUBSET S
    PROVE  OrdersAll(T, before)
BY DEF OrdersAll

(* By a number, equal ones in an order.                                     *)
LEMMA SurerOrders ==
    ASSUME NEW S, NEW before, OrdersAll(S, before), NEW odds, \A t \in S : odds[t] \in Int
    PROVE  OrdersAll(S, Surer(S, odds, before))
<1> DEFINE R == Surer(S, odds, before)
<1>1. \A a, b \in S : <<a, b>> \in R <=> odds[a] > odds[b] \/ (odds[a] = odds[b] /\ <<a, b>> \in before)
  BY DEF Surer
<1> HIDE DEF R
<1>2. /\ \A a \in S : <<a, a>> \notin before
      /\ \A a, b \in S : a # b => <<a, b>> \in before \/ <<b, a>> \in before
      /\ \A a, b, c \in S : <<a, b>> \in before /\ <<b, c>> \in before => <<a, c>> \in before
  BY DEF OrdersAll
<1>3. ASSUME NEW a \in S PROVE <<a, a>> \notin R
  <2>1. odds[a] \in Int
    OBVIOUS
  <2> QED BY <1>1, <1>2, <2>1
<1>4. ASSUME NEW a \in S, NEW b \in S, a # b PROVE <<a, b>> \in R \/ <<b, a>> \in R
  <2>1. odds[a] \in Int /\ odds[b] \in Int
    OBVIOUS
  <2>2. odds[a] > odds[b] \/ odds[b] > odds[a] \/ (odds[a] = odds[b] /\ odds[b] = odds[a])
    BY <2>1
  <2>3. <<a, b>> \in before \/ <<b, a>> \in before
    BY <1>2, <1>4
  <2> QED BY <1>1, <2>2, <2>3
<1>5. \A a, b, c \in S : <<a, b>> \in R /\ <<b, c>> \in R => <<a, c>> \in R
  BY <1>1, <1>2
<1> QED BY <1>3, <1>4, <1>5 DEF OrdersAll, R

LEMMA VotesAreNumbers ==
    ASSUME OrderAssumption, NEW d \in 0..Len(Tables), NEW t \in Title
    PROVE  Votes(d, t) \in Nat /\ t \in Nat
<1>1. Len(Tables) \in Nat /\ DOMAIN Tables = 1..Len(Tables)
  BY DEF OrderAssumption
<1>2. d # 0 => d \in DOMAIN Tables
  BY <1>1
<1> QED BY <1>2 DEF OrderAssumption, Votes

(* The most voted first.                                                    *)
LEMMA MoreVotedOrders ==
    ASSUME OrderAssumption, NEW d \in 0..Len(Tables), NEW titles \in SUBSET Title
    PROVE  OrdersAll(titles, {p \in titles \X titles : MoreVoted(d, p[1], p[2])})
<1> DEFINE R == {p \in titles \X titles : MoreVoted(d, p[1], p[2])}
           votes == [t \in titles |-> Votes(d, t)]
<1>1. \A a, b \in titles : <<a, b>> \in R <=> MoreVoted(d, a, b)
  OBVIOUS
<1>2. \A a, b \in titles : <<a, b>> \in R <=> votes[a] > votes[b] \/ (votes[a] = votes[b] /\ a < b)
  BY <1>1 DEF MoreVoted
<1>3. \A a \in titles : votes[a] \in Nat /\ a \in Nat
  BY VotesAreNumbers
<1> HIDE DEF R, votes
<1>4. \A a \in titles : <<a, a>> \notin R
  BY <1>2, <1>3
<1>5. \A a, b \in titles : a # b => <<a, b>> \in R \/ <<b, a>> \in R
  BY <1>2, <1>3
<1>6. \A a, b, c \in titles : <<a, b>> \in R /\ <<b, c>> \in R => <<a, c>> \in R
  BY <1>2, <1>3
<1> QED BY <1>4, <1>5, <1>6 DEF OrdersAll, R

(* A type's titles in their order, each at its place.                       *)
OrderedBy(q, d, titles) ==
    /\ q \in Seq(titles) /\ Len(q) = Cardinality(titles) /\ IsInjective(q) /\ Range(q) = titles
    /\ \A i \in DOMAIN q : Place(d, q[i], titles) = i - 1

LEMMA OrderFacts ==
    ASSUME OrderAssumption, NEW d \in 0..Len(Tables), NEW titles \in SUBSET Title, IsFiniteSet(titles)
    PROVE  OrderedBy(Order(d, titles), d, titles)
<1> DEFINE R == {p \in titles \X titles : MoreVoted(d, p[1], p[2])}
           q == Order(d, titles)
<1>1. InTurn(q, titles, R)
  BY MoreVotedOrders, InTheOrderFacts DEF Order
<1>2. \A t \in titles : {u \in titles : <<u, t>> \in R} = {u \in titles : MoreVoted(d, u, t)}
  OBVIOUS
<1> HIDE DEF q, R
<1>3. \A i \in DOMAIN q : q[i] \in titles
  BY <1>1 DEF InTurn
<1>4. \A i \in DOMAIN q : Place(d, q[i], titles) = i - 1
  BY <1>1, <1>2, <1>3 DEF InTurn, Place
<1> QED BY <1>1, <1>4 DEF InTurn, OrderedBy, q

(* What one turn of the merge makes of the films placed before it, and the     *)
(* first k turns.                                                             *)
Turn(n, m, i, x) ==
    LET j == x - 1 - i IN IF j = m \/ (i < n /\ i * m <= j * n) THEN i + 1 ELSE i

TurnsTo(f, n, m, k) == f = [x \in 0..k |-> IF x = 0 THEN 0 ELSE Turn(n, m, f[x - 1], x)]

LEMMA PlacedIsChosen == \A n, m : Placed(n, m) = CHOOSE f : TurnsTo(f, n, m, n + m)
BY DEF Placed, TurnsTo, Turn

LEMMA TurnsExtend ==
    ASSUME NEW n, NEW m, NEW k \in Nat, NEW g, TurnsTo(g, n, m, k)
    PROVE  \E f : TurnsTo(f, n, m, k + 1)
<1> DEFINE f == [x \in 0..(k + 1) |-> IF x = k + 1 THEN Turn(n, m, g[k], k + 1) ELSE g[x]]
<1>1. \A x \in 0..k : f[x] = g[x]
  OBVIOUS
<1>2. \A x \in 0..k : g[x] = IF x = 0 THEN 0 ELSE Turn(n, m, g[x - 1], x)
  BY DEF TurnsTo
<1>3. f[k + 1] = Turn(n, m, f[k], k + 1)
  BY <1>1
<1>4. f = [x \in 0..(k + 1) |-> f[x]]
  OBVIOUS
<1> HIDE DEF f
<1>5. \A x \in 0..(k + 1) : f[x] = IF x = 0 THEN 0 ELSE Turn(n, m, f[x - 1], x)
  <2> SUFFICES ASSUME NEW x \in 0..(k + 1)
               PROVE  f[x] = IF x = 0 THEN 0 ELSE Turn(n, m, f[x - 1], x)
    OBVIOUS
  <2>1. CASE x = k + 1
    <3>1. x # 0 /\ x - 1 = k
      BY <2>1
    <3> QED BY <1>3, <2>1, <3>1
  <2>2. CASE x = 0
    <3>1. x \in 0..k
      BY <2>2
    <3> QED BY <1>1, <1>2, <2>2, <3>1
  <2>3. CASE x \in 1..k
    <3>1. x \in 0..k /\ x - 1 \in 0..k /\ x # 0
      BY <2>3
    <3>2. f[x] = g[x] /\ f[x - 1] = g[x - 1] /\ g[x] = Turn(n, m, g[x - 1], x)
      BY <1>1, <1>2, <3>1
    <3> QED BY <3>1, <3>2
  <2> QED BY <2>1, <2>2, <2>3
<1>6. f = [x \in 0..(k + 1) |-> IF x = 0 THEN 0 ELSE Turn(n, m, f[x - 1], x)]
  BY <1>4, <1>5
<1> QED BY <1>6 DEF TurnsTo

LEMMA TurnsExist == ASSUME NEW n, NEW m, NEW k \in Nat PROVE \E f : TurnsTo(f, n, m, k)
<1> DEFINE S == {a \in Nat : ~ \E f : TurnsTo(f, n, m, a)}
<1> SUFFICES ASSUME S # {} PROVE FALSE
  OBVIOUS
<1>1. PICK a \in S : \A b \in S : a <= b
  BY LeastOf
<1>2. CASE a = 0
  <2> DEFINE g == [x \in 0..0 |-> 0]
  <2>1. \A x \in 0..0 : x = 0
    OBVIOUS
  <2>2. g = [x \in 0..0 |-> IF x = 0 THEN 0 ELSE Turn(n, m, g[x - 1], x)]
    BY <2>1
  <2>3. TurnsTo(g, n, m, 0)
    BY <2>2 DEF TurnsTo
  <2> QED BY <1>2, <2>3
<1>3. CASE a # 0
  <2>1. a - 1 \in Nat /\ ~ (a <= a - 1) /\ (a - 1) + 1 = a
    BY <1>3
  <2>2. PICK g : TurnsTo(g, n, m, a - 1)
    BY <1>1, <2>1
  <2>3. \E f : TurnsTo(f, n, m, (a - 1) + 1)
    BY <2>1, <2>2, TurnsExtend
  <2> QED BY <2>1, <2>3
<1> QED BY <1>2, <1>3

LEMMA PlacedTurns ==
    ASSUME NEW n \in Nat, NEW m \in Nat, NEW f, f = Placed(n, m)
    PROVE  f[0] = 0 /\ \A x \in 1..(n + m) : f[x] = Turn(n, m, f[x - 1], x)
<1>1. n + m \in Nat
  OBVIOUS
<1>2. TurnsTo(f, n, m, n + m)
  BY <1>1, PlacedIsChosen, TurnsExist
<1>3. \A x \in 0..(n + m) : f[x] = IF x = 0 THEN 0 ELSE Turn(n, m, f[x - 1], x)
  BY <1>2 DEF TurnsTo
<1>4. 0 \in 0..(n + m) /\ \A x \in 1..(n + m) : x \in 0..(n + m) /\ x # 0
  OBVIOUS
<1> QED BY <1>3, <1>4

(* Of the m series too, all placed are among the first x.                    *)
PlacedOK(f, n, m, x) == f[x] \in 0..n /\ x - f[x] \in 0..m

LEMMA TurnOK ==
    ASSUME NEW n \in Nat, NEW m \in Nat, NEW f, NEW x \in 1..(n + m),
           PlacedOK(f, n, m, x - 1), f[x] = Turn(n, m, f[x - 1], x)
    PROVE  /\ PlacedOK(f, n, m, x)
           /\ f[x] = f[x - 1] \/ f[x] = f[x - 1] + 1
<1> DEFINE i == f[x - 1]
           j == x - 1 - i
<1>1. i \in 0..n /\ j \in 0..m /\ i + j = x - 1 /\ x - 1 < n + m
  BY DEF PlacedOK
<1>2. f[x] = IF j = m \/ (i < n /\ i * m <= j * n) THEN i + 1 ELSE i
  BY DEF Turn
<1> HIDE DEF i, j
<1>3. CASE j = m \/ (i < n /\ i * m <= j * n)
  <2>1. f[x] = i + 1 /\ i < n
    BY <1>1, <1>2, <1>3
  <2>2. f[x] \in 0..n /\ x - f[x] = j
    BY <1>1, <2>1
  <2> QED BY <1>1, <2>1, <2>2 DEF PlacedOK, i
<1>4. CASE ~ (j = m \/ (i < n /\ i * m <= j * n))
  <2>1. f[x] = i /\ j # m
    BY <1>2, <1>4
  <2>2. x - f[x] = j + 1 /\ j + 1 \in 0..m
    BY <1>1, <2>1
  <2> QED BY <1>1, <2>1, <2>2 DEF PlacedOK, i
<1> QED BY <1>3, <1>4

LEMMA PlacedWithin ==
    ASSUME NEW n \in Nat, NEW m \in Nat, NEW f,
           f[0] = 0, \A x \in 1..(n + m) : f[x] = Turn(n, m, f[x - 1], x)
    PROVE  \A x \in 0..(n + m) : PlacedOK(f, n, m, x)
<1> DEFINE S == {x \in 0..(n + m) : ~ PlacedOK(f, n, m, x)}
<1> SUFFICES ASSUME S # {} PROVE FALSE
  OBVIOUS
<1>1. S \in SUBSET Nat
  OBVIOUS
<1>2. PICK x \in S : \A y \in S : x <= y
  <2> HIDE DEF S
  <2> QED BY <1>1, LeastOf
<1>3. CASE x = 0
  <2>1. PlacedOK(f, n, m, 0)
    BY DEF PlacedOK
  <2> QED BY <1>3, <2>1
<1>4. CASE x # 0
  <2>1. x \in 1..(n + m) /\ x - 1 \in 0..(n + m) /\ ~ (x <= x - 1)
    BY <1>4
  <2>2. PlacedOK(f, n, m, x - 1)
    BY <1>2, <2>1
  <2>3. PlacedOK(f, n, m, x)
    BY <2>1, <2>2, TurnOK
  <2> QED BY <2>3
<1> QED BY <1>3, <1>4

(* Neither type's titles placed grow fewer.                                  *)
LEMMA PlacedGrows ==
    ASSUME NEW N \in Nat, NEW f, \A x \in 0..N : f[x] \in Int,
           \A x \in 1..N : f[x] = f[x - 1] \/ f[x] = f[x - 1] + 1,
           NEW x \in 0..N
    PROVE  \A y \in 0..N : x <= y => f[x] <= f[y] /\ x - f[x] <= y - f[y]
<1> DEFINE Grown(y) == f[x] <= f[y] /\ x - f[x] <= y - f[y]
           S == {y \in x..N : ~ Grown(y)}
<1> SUFFICES ASSUME S # {} PROVE FALSE
  OBVIOUS
<1>1. S \in SUBSET Nat
  OBVIOUS
<1>2. PICK y \in S : \A z \in S : y <= z
  <2> HIDE DEF S
  <2> QED BY <1>1, LeastOf
<1>3. CASE y = x
  <2>1. Grown(x)
    OBVIOUS
  <2> QED BY <1>3, <2>1
<1>4. CASE y # x
  <2>1. y \in 1..N /\ y - 1 \in x..N /\ ~ (y <= y - 1) /\ y - 1 \in 0..N /\ y \in 0..N
    BY <1>4
  <2>2. Grown(y - 1)
    BY <1>2, <2>1
  <2>3. f[y] \in Int /\ f[y - 1] \in Int /\ f[x] \in Int /\ (f[y] = f[y - 1] \/ f[y] = f[y - 1] + 1)
    BY <2>1
  <2>4. Grown(y)
    BY <2>1, <2>2, <2>3
  <2> QED BY <2>4
<1> QED BY <1>3, <1>4

(* What the turns make of two places of the merged order.                     *)
IsFilm(f, x) == f[x] > f[x - 1]

TwoPlaces(f, n, m, x, y) ==
    /\ IsFilm(f, x) /\ IsFilm(f, y) => f[x] < f[y]
    /\ ~IsFilm(f, x) /\ ~IsFilm(f, y) => x - f[x] < y - f[y]
    /\ IsFilm(f, x) /\ ~IsFilm(f, y) => (f[x] - 1) * m <= (y - f[y] - 1) * n
    /\ ~IsFilm(f, x) /\ IsFilm(f, y) => (x - f[x] - 1) * n < (f[y] - 1) * m

(* What the turns make of one place.                                         *)
OnePlace(f, n, m, x) ==
    \/ /\ IsFilm(f, x) /\ f[x] \in 1..n /\ f[x] = f[x - 1] + 1
       /\ x - f[x] < m => (f[x] - 1) * m <= (x - f[x]) * n
    \/ /\ ~IsFilm(f, x) /\ x - f[x] \in 1..m /\ f[x] = f[x - 1]
       /\ f[x] < n => (x - f[x] - 1) * n < f[x] * m

LEMMA EachPlace ==
    ASSUME NEW n \in Nat, NEW m \in Nat, NEW f, NEW x \in 1..(n + m),
           PlacedOK(f, n, m, x - 1), f[x] = Turn(n, m, f[x - 1], x)
    PROVE  OnePlace(f, n, m, x)
<1> DEFINE i == f[x - 1]
           j == x - 1 - i
<1>1. i \in 0..n /\ j \in 0..m /\ i + j = x - 1 /\ x - 1 < n + m
  BY DEF PlacedOK
<1>2. f[x] = IF j = m \/ (i < n /\ i * m <= j * n) THEN i + 1 ELSE i
  BY DEF Turn
<1>3. IsFilm(f, x) <=> f[x] > i
  BY DEF IsFilm
<1>4. OnePlace(f, n, m, x) <=>
        \/ /\ IsFilm(f, x) /\ f[x] \in 1..n /\ f[x] = i + 1
           /\ x - f[x] < m => (f[x] - 1) * m <= (x - f[x]) * n
        \/ /\ ~IsFilm(f, x) /\ x - f[x] \in 1..m /\ f[x] = i
           /\ f[x] < n => (x - f[x] - 1) * n < f[x] * m
  BY DEF OnePlace
<1> HIDE DEF i, j
<1>5. CASE j = m \/ (i < n /\ i * m <= j * n)
  <2>1. f[x] = i + 1 /\ i < n /\ (j < m => i * m <= j * n)
    BY <1>1, <1>2, <1>5
  <2>2. f[x] \in 1..n /\ x - f[x] = j /\ f[x] - 1 = i /\ f[x] > i
    BY <1>1, <2>1
  <2> QED BY <1>3, <1>4, <2>1, <2>2
<1>6. CASE ~ (j = m \/ (i < n /\ i * m <= j * n))
  <2>1. f[x] = i /\ j # m /\ ~ (i < n /\ i * m <= j * n)
    BY <1>2, <1>6
  <2>2. x - f[x] = j + 1 /\ j + 1 \in 1..m /\ x - f[x] - 1 = j /\ ~ (f[x] > i)
    BY <1>1, <2>1
  <2>3. i * m \in Nat /\ j * n \in Nat
    BY <1>1
  <2>4. i < n => j * n < i * m
    BY <2>1, <2>3
  <2> QED BY <1>3, <1>4, <2>1, <2>2, <2>4
<1> QED BY <1>5, <1>6

LEMMA PlacesApart ==
    ASSUME NEW n \in Nat, NEW m \in Nat, NEW f, f = Placed(n, m)
    PROVE  /\ \A z \in 1..(n + m) : OnePlace(f, n, m, z) /\ (f[z] = f[z - 1] \/ f[z] = f[z - 1] + 1)
           /\ \A z \in 0..(n + m) : f[z] \in 0..n /\ z - f[z] \in 0..m
<1>1. f[0] = 0 /\ \A z \in 1..(n + m) : f[z] = Turn(n, m, f[z - 1], z)
  BY PlacedTurns
<1>2. \A z \in 0..(n + m) : PlacedOK(f, n, m, z)
  BY <1>1, PlacedWithin
<1>3. \A z \in 1..(n + m) : z - 1 \in 0..(n + m)
  OBVIOUS
<1>4. \A z \in 1..(n + m) : OnePlace(f, n, m, z) /\ (f[z] = f[z - 1] \/ f[z] = f[z - 1] + 1)
  BY <1>1, <1>2, <1>3, EachPlace, TurnOK
<1> QED BY <1>2, <1>4 DEF PlacedOK

LEMMA PlacesCompare ==
    ASSUME NEW n \in Nat, NEW m \in Nat, NEW f, f = Placed(n, m),
           NEW x \in 1..(n + m), NEW y \in 1..(n + m), x < y
    PROVE  TwoPlaces(f, n, m, x, y)
<1>1. \A z \in 1..(n + m) : z - 1 \in 0..(n + m) /\ z \in 0..(n + m)
  OBVIOUS
<1>2. \A z \in 1..(n + m) : OnePlace(f, n, m, z) /\ (f[z] = f[z - 1] \/ f[z] = f[z - 1] + 1)
  BY PlacesApart
<1>3. \A z \in 0..(n + m) : f[z] \in 0..n /\ z - f[z] \in 0..m
  BY PlacesApart
<1>4. n + m \in Nat /\ \A z \in 0..(n + m) : f[z] \in Int
  BY <1>3
<1>5. f[x] <= f[y - 1] /\ x - f[x] <= (y - 1) - f[y - 1]
  <2>1. x \in 0..(n + m) /\ y - 1 \in 0..(n + m) /\ x <= y - 1
    OBVIOUS
  <2> QED BY <1>2, <1>4, <2>1, PlacedGrows
<1>6. OnePlace(f, n, m, x) /\ OnePlace(f, n, m, y)
  BY <1>2
<1>7. /\ f[x] \in Nat /\ f[y] \in Nat /\ x - f[x] \in Nat /\ y - f[y] \in Nat /\ x \in Nat /\ y \in Nat
      /\ f[y - 1] \in Nat
  <2>1. y - 1 \in 0..(n + m) /\ y \in 0..(n + m) /\ x \in 0..(n + m)
    BY <1>1
  <2> QED BY <1>3, <2>1
<1>8. IsFilm(f, x) /\ IsFilm(f, y) => f[x] < f[y]
  BY <1>5, <1>6, <1>7 DEF OnePlace
<1>9. ~IsFilm(f, x) /\ ~IsFilm(f, y) => x - f[x] < y - f[y]
  BY <1>5, <1>6, <1>7 DEF OnePlace
<1>10. ASSUME IsFilm(f, x), ~IsFilm(f, y) PROVE (f[x] - 1) * m <= (y - f[y] - 1) * n
  <2>1. f[x] \in 1..n /\ (x - f[x] < m => (f[x] - 1) * m <= (x - f[x]) * n)
    BY <1>6, <1>10 DEF OnePlace
  <2>2. y - f[y] \in 1..m /\ f[y] = f[y - 1]
    BY <1>6, <1>10 DEF OnePlace
  <2>3. x - f[x] <= y - f[y] - 1 /\ x - f[x] < m /\ y - f[y] - 1 \in Nat
    BY <1>5, <1>7, <2>2
  <2>4. (x - f[x]) * n <= (y - f[y] - 1) * n
    BY <1>7, <2>3, TimesMore
  <2>5. (f[x] - 1) * m \in Int /\ (x - f[x]) * n \in Int /\ (y - f[y] - 1) * n \in Int
    BY <1>7, <2>1, <2>3
  <2> QED BY <2>1, <2>3, <2>4, <2>5
<1>11. ASSUME ~IsFilm(f, x), IsFilm(f, y) PROVE (x - f[x] - 1) * n < (f[y] - 1) * m
  <2>1. x - f[x] \in 1..m /\ (f[x] < n => (x - f[x] - 1) * n < f[x] * m)
    BY <1>6, <1>11 DEF OnePlace
  <2>2. f[y] \in 1..n /\ f[y] = f[y - 1] + 1
    BY <1>6, <1>11 DEF OnePlace
  <2>3. f[x] <= f[y] - 1 /\ f[x] < n /\ f[y] - 1 \in Nat
    BY <1>5, <1>7, <2>2
  <2>4. f[x] * m <= (f[y] - 1) * m
    BY <1>7, <2>3, TimesMore
  <2>5. (x - f[x] - 1) * n \in Int /\ f[x] * m \in Int /\ (f[y] - 1) * m \in Int
    BY <1>7, <2>1, <2>3
  <2> QED BY <2>1, <2>3, <2>4, <2>5
<1> QED BY <1>8, <1>9, <1>10, <1>11 DEF TwoPlaces

(* The two types, of which every title is.                                  *)
TypesApart ==
    /\ Title = Film \cup Series /\ Title \ Film = Series /\ Title \ Series = Film
    /\ IsFiniteSet(Film) /\ IsFiniteSet(Series) /\ IsFiniteSet(Title)
    /\ Cardinality(Film) \in Nat /\ Cardinality(Series) \in Nat
    /\ Cardinality(Title) = Cardinality(Film) + Cardinality(Series)

LEMMA TwoTypes == ASSUME FilterAssumption PROVE TypesApart
<1>1. IsFiniteSet(Title) /\ Film \cap Series = {} /\ Title = Film \cup Series
  BY DEF FilterAssumption, OrderAssumption, Title
<1>2. Film \subseteq Title /\ Series \subseteq Title
  BY <1>1
<1>3. IsFiniteSet(Film) /\ IsFiniteSet(Series)
  BY <1>1, <1>2, Fewer
<1>4. Cardinality(Film) \in Nat /\ Cardinality(Series) \in Nat
  BY <1>3, FS_CardinalityType
<1>5. Cardinality(Title) = Cardinality(Film) + Cardinality(Series)
  BY <1>1, <1>3, CountedApartly
<1>6. Title \ Film = Series /\ Title \ Series = Film
  BY <1>1
<1> QED BY <1>1, <1>3, <1>4, <1>5, <1>6 DEF TypesApart

(* A title of the merged order, from its place.                              *)
MergedAt(q, f, d, x) ==
    \/ IsFilm(f, x) /\ q[x] \in Film /\ Place(d, q[x], Film) = f[x] - 1
    \/ ~IsFilm(f, x) /\ q[x] \in Series /\ Place(d, q[x], Series) = x - f[x] - 1

LEMMA EachMerged ==
    ASSUME NEW d, NEW films, NEW series, OrderedBy(films, d, Film), OrderedBy(series, d, Series),
           NEW n \in Nat, NEW m \in Nat, Cardinality(Film) = n, Cardinality(Series) = m,
           NEW f, f = Placed(n, m), NEW q, q = Interleaved(films, series)
    PROVE  DOMAIN q = 1..(n + m) /\ \A x \in 1..(n + m) : MergedAt(q, f, d, x)
<1>1. Len(films) = n /\ Len(series) = m /\ DOMAIN films = 1..n /\ DOMAIN series = 1..m
  BY DEF OrderedBy
<1>2. q = [x \in 1..(n + m) |-> IF f[x] > f[x - 1] THEN films[f[x]] ELSE series[x - f[x]]]
  BY <1>1 DEF Interleaved
<1>3. \A i \in 1..n : films[i] \in Film /\ Place(d, films[i], Film) = i - 1
  BY <1>1 DEF OrderedBy
<1>4. \A i \in 1..m : series[i] \in Series /\ Place(d, series[i], Series) = i - 1
  BY <1>1 DEF OrderedBy
<1>5. ASSUME NEW x \in 1..(n + m) PROVE MergedAt(q, f, d, x)
  <2>1. OnePlace(f, n, m, x)
    BY PlacesApart
  <2>2. q[x] = IF IsFilm(f, x) THEN films[f[x]] ELSE series[x - f[x]]
    BY <1>2 DEF IsFilm
  <2>3. CASE IsFilm(f, x)
    <3>1. f[x] \in 1..n /\ q[x] = films[f[x]]
      BY <2>1, <2>2, <2>3 DEF OnePlace
    <3> QED BY <1>3, <2>3, <3>1 DEF MergedAt
  <2>4. CASE ~IsFilm(f, x)
    <3>1. x - f[x] \in 1..m /\ q[x] = series[x - f[x]]
      BY <2>1, <2>2, <2>4 DEF OnePlace
    <3> QED BY <1>4, <2>4, <3>1 DEF MergedAt
  <2> QED BY <2>3, <2>4
<1>6. DOMAIN q = 1..(n + m)
  BY <1>2
<1> QED BY <1>5, <1>6

(* What an order of titles is.                                              *)
AllAhead(q, d, titles) ==
    /\ q \in Seq(titles) /\ IsInjective(q) /\ Range(q) = titles
    /\ \A i, j \in DOMAIN q : i < j => Ahead(d, q[i], q[j])

LEMMA MergedAhead ==
    ASSUME NEW d, TypesApart,
           NEW n \in Nat, NEW m \in Nat, Cardinality(Film) = n, Cardinality(Series) = m,
           NEW f, NEW q, NEW x \in 1..(n + m), NEW y \in 1..(n + m),
           MergedAt(q, f, d, x), MergedAt(q, f, d, y),
           TwoPlaces(f, n, m, x, y), f[x] \in Int, f[y] \in Int
    PROVE  Ahead(d, q[x], q[y])
<1>1. \A t \in Film : t \notin Series /\ Share(d, t, Film) = Place(d, t, Film) * m
  BY DEF TypesApart, Share
<1>2. \A t \in Series : t \notin Film /\ Share(d, t, Series) = Place(d, t, Series) * n
  BY DEF TypesApart, Share
<1>3. CASE IsFilm(f, x) /\ IsFilm(f, y)
  <2>1. q[x] \in Film /\ q[y] \in Film /\ Place(d, q[x], Film) = f[x] - 1 /\ Place(d, q[y], Film) = f[y] - 1
    BY <1>3 DEF MergedAt
  <2>2. Place(d, q[x], Film) < Place(d, q[y], Film)
    BY <1>3, <2>1 DEF TwoPlaces
  <2> QED BY <1>1, <2>1, <2>2 DEF Ahead
<1>4. CASE IsFilm(f, x) /\ ~IsFilm(f, y)
  <2>1. q[x] \in Film /\ q[y] \in Series /\ Place(d, q[x], Film) = f[x] - 1
        /\ Place(d, q[y], Series) = y - f[y] - 1
    BY <1>4 DEF MergedAt
  <2>2. Share(d, q[x], Film) <= Share(d, q[y], Series)
    BY <1>1, <1>2, <1>4, <2>1 DEF TwoPlaces
  <2>3. q[x] \in Film /\ q[y] \in Series
    BY <2>1
  <2> QED BY <2>2, <2>3 DEF Ahead
<1>5. CASE ~IsFilm(f, x) /\ IsFilm(f, y)
  <2>1. q[x] \in Series /\ q[y] \in Film /\ Place(d, q[x], Series) = x - f[x] - 1
        /\ Place(d, q[y], Film) = f[y] - 1
    BY <1>5 DEF MergedAt
  <2>2. Share(d, q[x], Series) < Share(d, q[y], Film)
    BY <1>1, <1>2, <1>5, <2>1 DEF TwoPlaces
  <2> QED BY <1>2, <2>1, <2>2 DEF Ahead
<1>6. CASE ~IsFilm(f, x) /\ ~IsFilm(f, y)
  <2>1. q[x] \in Series /\ q[y] \in Series /\ Place(d, q[x], Series) = x - f[x] - 1
        /\ Place(d, q[y], Series) = y - f[y] - 1
    BY <1>6 DEF MergedAt
  <2>2. Place(d, q[x], Series) < Place(d, q[y], Series)
    BY <1>6, <2>1 DEF TwoPlaces
  <2> QED BY <1>2, <2>1, <2>2 DEF Ahead
<1> QED BY <1>3, <1>4, <1>5, <1>6

LEMMA PlaceIsNumber ==
    ASSUME NEW d, NEW titles, IsFiniteSet(titles), NEW t
    PROVE  Place(d, t, titles) \in Nat
<1>1. {u \in titles : MoreVoted(d, u, t)} \subseteq titles
  OBVIOUS
<1> QED BY <1>1, Fewer DEF Place

(* No title is ahead of itself.                                             *)
LEMMA NotAheadOfItself ==
    ASSUME TypesApart, NEW d, NEW t \in Title
    PROVE  ~ Ahead(d, t, t)
<1>1. Place(d, t, Film) \in Nat /\ Place(d, t, Series) \in Nat
  BY PlaceIsNumber DEF TypesApart
<1>2. ~ (Place(d, t, Film) < Place(d, t, Film)) /\ ~ (Place(d, t, Series) < Place(d, t, Series))
  BY <1>1
<1>3. ~ (t \in Film /\ t \in Series)
  BY DEF TypesApart
<1> QED BY <1>2, <1>3 DEF Ahead

LEMMA InterleavedAhead ==
    ASSUME FilterAssumption, NEW d \in 0..Len(Tables)
    PROVE  AllAhead(Interleaved(Order(d, Film), Order(d, Series)), d, Title)
<1> DEFINE n == Cardinality(Film)
           m == Cardinality(Series)
           films == Order(d, Film)
           series == Order(d, Series)
           f == Placed(n, m)
           q == Interleaved(films, series)
<1>1. TypesApart /\ OrderAssumption
  BY TwoTypes DEF FilterAssumption
<1>2. n \in Nat /\ m \in Nat /\ Film \in SUBSET Title /\ Series \in SUBSET Title
  BY <1>1 DEF TypesApart
<1>3. OrderedBy(films, d, Film) /\ OrderedBy(series, d, Series)
  BY <1>1, <1>2, OrderFacts DEF TypesApart
<1>4. \A x \in 0..(n + m) : f[x] \in 0..n
  BY <1>2, PlacesApart
<1>5. \A x, y \in 1..(n + m) : x < y => TwoPlaces(f, n, m, x, y)
  BY <1>2, PlacesCompare
<1>6. DOMAIN q = 1..(n + m) /\ \A x \in 1..(n + m) : MergedAt(q, f, d, x)
  BY <1>2, <1>3, EachMerged
<1>7. q = [x \in 1..(n + m) |-> q[x]]
  <2>1. Len(films) = n /\ Len(series) = m
    BY <1>3 DEF OrderedBy
  <2>2. q = [x \in 1..(n + m) |-> IF f[x] > f[x - 1] THEN films[f[x]] ELSE series[x - f[x]]]
    BY <2>1 DEF Interleaved
  <2> HIDE DEF f, n, m, films, series, q
  <2> QED BY <2>2
<1> HIDE DEF q, f, films, series
<1>8. \A x, y \in 1..(n + m) : x < y => Ahead(d, q[x], q[y])
  <2> SUFFICES ASSUME NEW x \in 1..(n + m), NEW y \in 1..(n + m), x < y PROVE Ahead(d, q[x], q[y])
    OBVIOUS
  <2>1. f[x] \in Int /\ f[y] \in Int
    BY <1>2, <1>4
  <2> QED BY <1>1, <1>2, <1>5, <1>6, <2>1, MergedAhead
<1>9. \A x \in 1..(n + m) : q[x] \in Title
  BY <1>1, <1>6 DEF MergedAt, TypesApart
<1>10. n + m = Cardinality(Title) /\ n + m \in Nat /\ IsFiniteSet(Title)
  BY <1>1, <1>2 DEF TypesApart
<1> HIDE DEF n, m
<1>11. q \in Seq(Title) /\ Len(q) = n + m
  <2>1. q \in [1..(n + m) -> Title]
    BY <1>7, <1>9
  <2> QED BY <1>10, <2>1
<1>12. IsInjective(q)
  <2> SUFFICES ASSUME NEW x \in 1..(n + m), NEW y \in 1..(n + m), q[x] = q[y], x # y PROVE FALSE
    BY <1>6 DEF IsInjective
  <2>1. x < y \/ y < x
    BY <1>10
  <2> QED BY <1>1, <1>8, <1>9, <2>1, NotAheadOfItself
<1>13. Range(q) = Title
  BY <1>10, <1>11, <1>12, AllOnce
<1> QED BY <1>6, <1>8, <1>11, <1>12, <1>13 DEF AllAhead, q, films, series

(* An item of a question, as it is asked.                                   *)
AskedOK(i) ==
    /\ i.kind \in Kind /\ i.ids # {} /\ i.ids \subseteq ToSet(ValuesOf[i.kind])
    /\ Data[i.kind] = "like" => \E v \in i.ids : i.ids = {v}

(* One type's order.                                                        *)
LEMMA OfOneTypeAhead ==
    ASSUME FilterAssumption, NEW d \in 0..Len(Tables), NEW titles \in {Film, Series}
    PROVE  AllAhead(Order(d, titles), d, titles)
<1> DEFINE q == Order(d, titles)
<1>1. TypesApart /\ OrderAssumption
  BY TwoTypes DEF FilterAssumption
<1>2. OrderedBy(q, d, titles)
  BY <1>1, OrderFacts DEF TypesApart
<1> HIDE DEF q
<1>3. DOMAIN q \subseteq Int /\ \A i \in DOMAIN q : q[i] \in titles /\ Place(d, q[i], titles) = i - 1
  BY <1>2 DEF OrderedBy
<1>4. ASSUME NEW i \in DOMAIN q, NEW j \in DOMAIN q, i < j PROVE Ahead(d, q[i], q[j])
  <2>1. i - 1 < j - 1
    BY <1>3, <1>4
  <2>2. Place(d, q[i], titles) < Place(d, q[j], titles)
    BY <1>3, <2>1
  <2>4. CASE titles = Film
    <3>1. q[i] \in Film /\ q[j] \in Film /\ Place(d, q[i], Film) < Place(d, q[j], Film)
      BY <1>3, <2>2, <2>4
    <3> QED BY <3>1 DEF Ahead
  <2>5. CASE titles = Series
    <3>1. q[i] \in Series /\ q[j] \in Series /\ Place(d, q[i], Series) < Place(d, q[j], Series)
      BY <1>3, <2>2, <2>5
    <3> QED BY <3>1 DEF Ahead
  <2> QED BY <2>4, <2>5
<1> QED BY <1>2, <1>4 DEF OrderedBy, AllAhead, q

LEMMA ScopeAhead ==
    ASSUME FilterAssumption, NEW d \in 0..Len(Tables), NEW scope \in Scope
    PROVE  AllAhead(OrderOf(d, scope), d, Of(scope))
<1>1. CASE scope = "all"
  BY <1>1, InterleavedAhead DEF OrderOf, Of
<1>2. CASE scope # "all"
  <2>1. Of(scope) \in {Film, Series} /\ OrderOf(d, scope) = Order(d, Of(scope))
    BY <1>2 DEF OrderOf, Of, Scope
  <2> QED BY <2>1, OfOneTypeAhead
<1> QED BY <1>1, <1>2

(* A row that holds the titles, in an order a selection may ask for.        *)
Follows(row, before, titles) ==
    /\ row \in Seq(Range(row)) /\ IsInjective(row) /\ titles \subseteq Range(row)
    /\ \A t, u \in titles : <<t, u>> \in Along(row) => <<t, u>> \in before

LEMMA FollowsIfInOrder ==
    ASSUME NEW row, row \in Seq(Range(row)), IsInjective(row), NEW titles \in SUBSET Range(row), NEW before,
           \A i, j \in DOMAIN row : i < j /\ row[i] \in titles /\ row[j] \in titles
                                      => <<row[i], row[j]>> \in before
    PROVE  Follows(row, before, titles)
<1>1. \A i, j \in DOMAIN row : <<row[i], row[j]>> \in Along(row) <=> i < j
  BY AlongFacts
<1>2. \A t \in Range(row) : \E i \in DOMAIN row : row[i] = t
  BY DEF Range
<1>3. \A t, u \in titles : <<t, u>> \in Along(row) => <<t, u>> \in before
  BY <1>1, <1>2
<1> QED BY <1>3 DEF Follows

(* A like's row holds what matches it.                                      *)
LEMMA LikeHolds ==
    ASSUME FilterAssumption, NEW d, NEW scope, NEW restricted, NEW items, \A i \in items : AskedOK(i),
           NEW v \in Liked(items)
    PROVE  /\ LikeRow[v] \in Seq(Range(LikeRow[v])) /\ IsInjective(LikeRow[v])
           /\ Matched(d, scope, restricted, items).any \subseteq Range(LikeRow[v])
<1>1. PICK i \in items : v \in i.ids /\ Data[i.kind] = "like" /\ ~i.exclude
  BY DEF Liked
<1>2. i.kind \in Kind /\ v \in ToSet(ValuesOf[i.kind]) /\ i.ids = {v}
  BY <1>1 DEF AskedOK
<1>3. LikeRow[v] \in Seq(Range(LikeRow[v])) /\ IsInjective(LikeRow[v])
  BY <1>1, <1>2, SetOfRange DEF FilterAssumption, OrderAssumption
<1>4. Guessed[v] = {}
  BY <1>1, <1>2 DEF FilterAssumption, TiersApart
<1>5. ValueTitles(d, i.kind, v) = Range(LikeRow[v])
  BY <1>1, SetOfRange DEF ValueTitles
<1>6. ItemTitles(d, i) \cup ItemLikely(i) = Range(LikeRow[v])
  BY <1>2, <1>4, <1>5 DEF ItemTitles, ItemLikely
<1>7. Matched(d, scope, restricted, items).any \subseteq ItemTitles(d, i) \cup ItemLikely(i)
  BY <1>1 DEF Matched
<1> QED BY <1>3, <1>6, <1>7

LEMMA OrderForFollows ==
    ASSUME FilterAssumption, NEW d \in 0..Len(Tables), NEW scope \in Scope, NEW restricted,
           NEW items, \A i \in items : AskedOK(i),
           NEW titles, titles = Matched(d, scope, restricted, items).any
    PROVE  \E before \in Orders(d, items, titles) : Follows(OrderFor(d, scope, items), before, titles)
<1>1. CASE Liked(items) = {}
  <2> DEFINE row == OrderOf(d, scope)
             before == {p \in titles \X titles : Ahead(d, p[1], p[2])}
  <2>1. OrderFor(d, scope, items) = row /\ before \in Orders(d, items, titles)
    BY <1>1 DEF OrderFor, Orders
  <2>2. AllAhead(row, d, Of(scope))
    BY ScopeAhead
  <2>3. titles \subseteq Of(scope)
    BY DEF Matched
  <2> HIDE DEF row
  <2>4. \A i, j \in DOMAIN row : i < j /\ row[i] \in titles /\ row[j] \in titles
                                   => <<row[i], row[j]>> \in before
    BY <2>2 DEF AllAhead
  <2> HIDE DEF before
  <2>5. row \in Seq(Range(row)) /\ IsInjective(row) /\ titles \subseteq Range(row)
    BY <2>2, <2>3 DEF AllAhead
  <2>6. Follows(row, before, titles)
    BY <2>4, <2>5, FollowsIfInOrder
  <2> QED BY <2>1, <2>6
<1>2. CASE Liked(items) # {}
  <2> DEFINE v == CHOOSE v \in Liked(items) : TRUE
             row == LikeRow[v]
  <2>1. v \in Liked(items)
    BY <1>2
  <2>2. OrderFor(d, scope, items) = row /\ Along(row) \in Orders(d, items, titles)
    BY <1>2, <2>1 DEF OrderFor, Orders
  <2>3. row \in Seq(Range(row)) /\ IsInjective(row) /\ titles \subseteq Range(row)
    BY <2>1, LikeHolds
  <2> HIDE DEF row
  <2>4. Follows(row, Along(row), titles)
    BY <2>3 DEF Follows
  <2> QED BY <2>2, <2>4
<1> QED BY <1>1, <1>2

(* The odds of a tentative match are a number.                              *)
LEMMA OddsAreNumbers ==
    ASSUME FilterAssumption, NEW d, NEW items, \A i \in items : AskedOK(i), NEW t \in Title
    PROVE  LowestTentative(d, items, t) \in Int
<1> DEFINE guesses == {Probability[i.kind][t] : i \in {i \in items :
                          ~i.exclude /\ ItemLikely(i) # {} /\ t \notin ItemTitles(d, i)}}
<1>1. guesses \subseteq Nat
  <2> SUFFICES ASSUME NEW i \in items, ItemLikely(i) # {} PROVE Probability[i.kind][t] \in Nat
    OBVIOUS
  <2>1. PICK v \in i.ids : Guessed[v] # {}
    BY DEF ItemLikely
  <2>2. i.kind \in Kind /\ v \in ToSet(ValuesOf[i.kind])
    BY DEF AskedOK
  <2> QED BY <2>1, <2>2 DEF FilterAssumption, OrderAssumption
<1>2. LowestTentative(d, items, t) =
          IF guesses = {} THEN 0 ELSE CHOOSE p \in guesses : \A q \in guesses : p <= q
  BY DEF LowestTentative
<1> HIDE DEF guesses
<1>3. guesses # {} => \E p \in guesses : \A q \in guesses : p <= q
  BY <1>1, LeastOf
<1>4. guesses # {} => (CHOOSE p \in guesses : \A q \in guesses : p <= q) \in guesses
  BY <1>3
<1>5. LowestTentative(d, items, t) = 0 \/ LowestTentative(d, items, t) \in guesses
  BY <1>2, <1>4, Zenon
<1>6. guesses \subseteq Int /\ 0 \in Int
  BY <1>1
<1> QED BY <1>5, <1>6, Zenon

LEMMA MatchedWithin ==
    ASSUME FilterAssumption, NEW d, NEW scope \in Scope, NEW restricted, NEW items,
           NEW matched, matched = Matched(d, scope, restricted, items)
    PROVE  matched.sure \subseteq matched.any /\ matched.any \subseteq Title
<1> DEFINE from == Of(scope) \cap (IF restricted THEN Admitted ELSE Title)
           Left(i) == Known(d, i.kind, scope) \ ItemTitles(d, i)
<1>1. from \subseteq Title
  BY DEF Of, Title
<1>2. /\ matched.sure = {t \in from : \A i \in items : t \in IF i.exclude THEN Left(i) ELSE ItemTitles(d, i)}
      /\ matched.any = {t \in from : \A i \in items :
             t \in IF i.exclude THEN Left(i) ELSE ItemTitles(d, i) \cup ItemLikely(i)}
  BY DEF Matched
<1> HIDE DEF from, Left
<1> QED BY <1>1, <1>2

(* The walk a page is taken from, what it is made of.                       *)
WalkOK(walks, matched) ==
    /\ walks.sure \in Seq(matched.any) /\ walks.likely \in Seq(matched.any)
    /\ Len(walks.sure) = walks.confident
    /\ Len(walks.sure \o walks.likely) = Cardinality(matched.any)

(* One part after the other, each in its order.                             *)
InParts(sure, likely, matched, odds, before) ==
    /\ InOrder(sure \o likely, matched, odds, before)
    /\ sure \in Seq(matched.any) /\ likely \in Seq(matched.any)
    /\ Len(sure) = Cardinality(matched.sure)
    /\ Len(sure \o likely) = Cardinality(matched.any)

LEMMA PartsInOrder ==
    ASSUME NEW matched, matched.sure \subseteq matched.any, IsFiniteSet(matched.any),
           NEW guessed, guessed = matched.any \ matched.sure, NEW along, NEW odds, NEW before,
           \A t, u \in matched.any : <<t, u>> \in along => <<t, u>> \in before,
           NEW sure, InTurn(sure, matched.sure, along),
           NEW likely, InTurn(likely, guessed, Surer(guessed, odds, along))
    PROVE  InParts(sure, likely, matched, odds, before)
<1> DEFINE T == matched.any
           q == sure \o likely
           n == Len(sure)
<1>1. sure \in Seq(matched.sure) /\ likely \in Seq(guessed)
  BY DEF InTurn
<1>2. sure \in Seq(T) /\ likely \in Seq(T)
  BY <1>1
<1>3. /\ IsInjective(sure) /\ IsInjective(likely) /\ Range(sure) = matched.sure /\ Range(likely) = guessed
      /\ Len(sure) = Cardinality(matched.sure) /\ Len(likely) = Cardinality(guessed)
  BY DEF InTurn
<1> HIDE DEF T
<1>4. IsInjective(q)
  BY <1>2, <1>3, JoinedOnce
<1>5. /\ q \in Seq(T) /\ n \in Nat /\ DOMAIN sure = 1..n
      /\ \A i \in DOMAIN q :
           \/ i \in DOMAIN sure /\ q[i] = sure[i]
           \/ i \notin DOMAIN sure /\ i - n \in DOMAIN likely /\ q[i] = likely[i - n]
      /\ Range(q) = Range(sure) \cup Range(likely)
  BY <1>2, JoinedFacts
<1>6. Range(q) = T
  BY <1>3, <1>5 DEF T
<1>7. \A i \in DOMAIN sure : sure[i] \in matched.sure
  BY <1>3 DEF Range
<1>8. \A i \in DOMAIN likely : likely[i] \in guessed
  BY <1>3 DEF Range
<1>9. \A i, j \in DOMAIN sure : i < j => <<sure[i], sure[j]>> \in along
  BY DEF InTurn
<1>10. \A i, j \in DOMAIN likely : i < j =>
          \/ odds[likely[i]] > odds[likely[j]]
          \/ odds[likely[i]] = odds[likely[j]] /\ <<likely[i], likely[j]>> \in along
  BY DEF InTurn, Surer
<1>11. Len(q) = Cardinality(T)
  <2>1. IsFiniteSet(matched.sure) /\ IsFiniteSet(guessed)
    BY Fewer
  <2>2. matched.sure \cap guessed = {} /\ matched.sure \cup guessed = T
    BY DEF T
  <2>3. Cardinality(T) = Cardinality(matched.sure) + Cardinality(guessed)
    BY <2>1, <2>2, CountedApartly
  <2>4. Len(q) = Len(sure) + Len(likely)
    BY <1>2
  <2> QED BY <1>3, <2>3, <2>4
<1>12. DOMAIN q \subseteq Int
  BY <1>5
<1> HIDE DEF q, n
<1>13. ASSUME NEW i \in DOMAIN q, NEW j \in DOMAIN q, i < j
       PROVE  \/ q[i] \in matched.sure /\ q[j] \notin matched.sure
              \/ q[i] \in matched.sure /\ q[j] \in matched.sure /\ <<q[i], q[j]>> \in before
              \/ /\ q[i] \notin matched.sure /\ q[j] \notin matched.sure
                 /\ odds[q[i]] > odds[q[j]] \/ (odds[q[i]] = odds[q[j]] /\ <<q[i], q[j]>> \in before)
  <2>1. i \in Int /\ j \in Int
    BY <1>12
  <2>2. j \in DOMAIN sure => i \in DOMAIN sure
    <3>1. \A k \in DOMAIN q : k \in Nat /\ k >= 1
      BY <1>5
    <3> QED BY <1>5, <1>13, <3>1
  <2>3. i - n < j - n
    BY <1>5, <1>13, <2>1
  <2>4. q[i] \in T /\ q[j] \in T
    BY <1>6 DEF Range
  <2>5. CASE j \in DOMAIN sure
    <3>1. q[i] = sure[i] /\ q[j] = sure[j] /\ i \in DOMAIN sure
      BY <1>5, <2>2, <2>5
    <3>2. q[i] \in matched.sure /\ q[j] \in matched.sure /\ <<q[i], q[j]>> \in along
      BY <1>7, <1>9, <1>13, <2>5, <3>1
    <3>3. <<q[i], q[j]>> \in before
      BY <2>4, <3>2 DEF T
    <3> QED BY <3>2, <3>3
  <2>6. CASE i \in DOMAIN sure /\ j \notin DOMAIN sure
    <3>1. q[i] = sure[i] /\ q[j] = likely[j - n] /\ j - n \in DOMAIN likely
      BY <1>5, <2>6
    <3>2. q[i] \in matched.sure /\ q[j] \in guessed
      BY <1>7, <1>8, <2>6, <3>1
    <3> QED BY <3>2
  <2>7. CASE i \notin DOMAIN sure /\ j \notin DOMAIN sure
    <3>1. q[i] = likely[i - n] /\ i - n \in DOMAIN likely /\ q[j] = likely[j - n] /\ j - n \in DOMAIN likely
      BY <1>5, <2>7
    <3>2. q[i] \in guessed /\ q[j] \in guessed
      BY <1>8, <3>1
    <3>3. odds[q[i]] > odds[q[j]] \/ (odds[q[i]] = odds[q[j]] /\ <<q[i], q[j]>> \in along)
      BY <1>10, <2>3, <3>1
    <3>4. <<q[i], q[j]>> \in along => <<q[i], q[j]>> \in before
      BY <2>4 DEF T
    <3> QED BY <3>2, <3>3, <3>4
  <2> QED BY <2>2, <2>5, <2>6, <2>7
<1>14. InOrder(q, matched, odds, before)
  BY <1>4, <1>6, <1>13, SetOfRange DEF InOrder, T
<1> QED BY <1>2, <1>3, <1>11, <1>14 DEF InParts, T, q

LEMMA WalkTells ==
    ASSUME FilterAssumption, NEW d \in 0..Len(Tables), NEW scope \in Scope, NEW restricted,
           NEW items, \A i \in items : AskedOK(i),
           NEW matched, matched = Matched(d, scope, restricted, items),
           NEW walks, walks = Walks(d, scope, restricted, items),
           NEW odds, odds = [t \in matched.any |-> LowestTentative(d, items, t)]
    PROVE  /\ WalkOK(walks, matched)
           /\ \E before \in Orders(d, items, matched.any) :
                  InOrder(walks.sure \o walks.likely, matched, odds, before)
<1> DEFINE order == OrderFor(d, scope, items)
           along == Along(order)
           guessed == matched.any \ matched.sure
           chances == [t \in guessed |-> LowestTentative(d, items, t)]
           sure == InTheOrder(matched.sure, along)
           likely == InTheOrder(guessed, Surer(guessed, chances, along))
<1>1. matched.sure \subseteq matched.any /\ matched.any \subseteq Title /\ IsFiniteSet(Title)
  BY MatchedWithin DEF FilterAssumption
<1>2. PICK before \in Orders(d, items, matched.any) : Follows(order, before, matched.any)
  BY OrderForFollows
<1>3. matched.sure \cap ToSet(order) = matched.sure /\ guessed \cap ToSet(order) = guessed
  BY <1>1, <1>2, SetOfRange DEF Follows
<1>4. walks = [confident |-> Cardinality(matched.sure), sure |-> sure, likely |-> likely]
  BY <1>3 DEF Walks
<1>5. walks.confident = Cardinality(matched.sure) /\ walks.sure = sure /\ walks.likely = likely
  BY <1>4
<1>6. \A t \in guessed : odds[t] = chances[t] /\ chances[t] \in Int
  BY <1>1, OddsAreNumbers
<1>7. OrdersAll(Range(order), along)
  BY <1>2, AlongFacts DEF Follows
<1>8. matched.sure \subseteq Range(order) /\ guessed \subseteq Range(order)
  BY <1>1, <1>2 DEF Follows
<1>9. Surer(guessed, odds, along) = Surer(guessed, chances, along)
  BY <1>6 DEF Surer
<1>10. IsFiniteSet(matched.any) /\ IsFiniteSet(matched.sure) /\ IsFiniteSet(guessed)
  BY <1>1, Fewer
<1>11. \A t, u \in matched.any : <<t, u>> \in along => <<t, u>> \in before
  BY <1>2 DEF Follows
<1> HIDE DEF along, order, chances
<1>12. InTurn(sure, matched.sure, along)
  BY <1>7, <1>8, <1>10, OrdersSome, InTheOrderFacts
<1>13. InTurn(likely, guessed, Surer(guessed, odds, along))
  BY <1>6, <1>7, <1>8, <1>9, <1>10, OrdersSome, SurerOrders, InTheOrderFacts
<1>14. guessed = matched.any \ matched.sure
  OBVIOUS
<1> HIDE DEF sure, likely, guessed
<1>15. InParts(sure, likely, matched, odds, before)
  BY <1>1, <1>10, <1>11, <1>12, <1>13, <1>14, PartsInOrder, Zenon
<1>16. WalkOK(walks, matched)
  BY <1>5, <1>15 DEF InParts, WalkOK
<1> QED BY <1>2, <1>5, <1>15, <1>16 DEF InParts

(* Of a line, what is after the first a, up to the b-th.                    *)
Cut(q, a, b) == SubSeq(q, a + 1, b)

LEMMA NextCut ==
    ASSUME NEW T, NEW q \in Seq(T), NEW a \in Nat, NEW b \in Nat, a <= b, b <= Len(q)
    PROVE  SubSeq(q, 1, a) \o SubSeq(q, a + 1, b) = SubSeq(q, 1, b)
<1> DEFINE s == SubSeq(q, 1, a)
           u == SubSeq(q, a + 1, b)
           v == SubSeq(q, 1, b)
<1>1. 0 <= a /\ 0 <= b /\ a <= Len(q) /\ 0 + 1 = 1 /\ a - 0 = a /\ b - 0 = b /\ \A i \in Int : 0 + i = i
  OBVIOUS
<1>2. s \in Seq(T) /\ Len(s) = a /\ \A i \in 1..a : s[i] = q[i]
  <2>1. /\ SubSeq(q, 0 + 1, a) \in Seq(T) /\ Len(SubSeq(q, 0 + 1, a)) = a - 0
        /\ \A i \in 1..(a - 0) : SubSeq(q, 0 + 1, a)[i] = q[0 + i]
    BY <1>1, SubSeqFacts
  <2> QED BY <1>1, <2>1
<1>3. v \in Seq(T) /\ Len(v) = b /\ \A i \in 1..b : v[i] = q[i]
  <2>1. /\ SubSeq(q, 0 + 1, b) \in Seq(T) /\ Len(SubSeq(q, 0 + 1, b)) = b - 0
        /\ \A i \in 1..(b - 0) : SubSeq(q, 0 + 1, b)[i] = q[0 + i]
    BY <1>1, SubSeqFacts
  <2> QED BY <1>1, <2>1
<1>4. u \in Seq(T) /\ Len(u) = b - a /\ \A i \in 1..(b - a) : u[i] = q[a + i]
  BY SubSeqFacts
<1> HIDE DEF s, u, v
<1>5. /\ s \o u \in Seq(T) /\ Len(s \o u) = b
      /\ \A i \in 1..b : (s \o u)[i] = IF i <= a THEN s[i] ELSE u[i - a]
  <2>1. /\ s \o u \in Seq(T) /\ Len(s \o u) = Len(s) + Len(u)
        /\ \A i \in 1..(Len(s) + Len(u)) : (s \o u)[i] = IF i <= Len(s) THEN s[i] ELSE u[i - Len(s)]
    BY <1>2, <1>4, ConcatProperties
  <2>2. Len(s) = a /\ Len(s) + Len(u) = b
    BY <1>2, <1>4
  <2> QED BY <2>1, <2>2
<1>6. ASSUME NEW i \in 1..b PROVE (s \o u)[i] = v[i]
  <2>1. CASE i <= a
    <3>1. (s \o u)[i] = s[i]
      BY <1>5, <2>1
    <3> QED BY <1>2, <1>3, <2>1, <3>1
  <2>2. CASE i > a
    <3>1. (s \o u)[i] = u[i - a] /\ i - a \in 1..(b - a) /\ a + (i - a) = i
      BY <1>5, <2>2
    <3>2. u[i - a] = q[a + (i - a)]
      BY <1>4, <3>1
    <3> QED BY <1>3, <3>1, <3>2
  <2>3. i <= a \/ i > a
    OBVIOUS
  <2> QED BY <2>1, <2>2, <2>3
<1>7. s \o u = v
  BY <1>3, <1>5, <1>6, SameLine
<1> QED BY <1>7 DEF s, u, v

(* A line cut where its pages end, from the ends.                           *)
Cuts(upto, k, n) ==
    /\ k \in Nat \ {0} /\ n \in Nat /\ upto[0] = 0 /\ upto[k] = n
    /\ \A i \in 1..k : upto[i - 1] \in Nat /\ upto[i] \in Nat /\ upto[i - 1] <= upto[i] /\ upto[i] <= n

CutInto(pages, q, k, upto) ==
    /\ Cuts(upto, k, Len(q)) /\ pages = [i \in 1..k |-> pages[i]]
    /\ \A i \in 1..k : pages[i] = Cut(q, upto[i - 1], upto[i])

LEMMA CutsJoined ==
    ASSUME NEW T, NEW q \in Seq(T), NEW k, NEW upto, NEW pages, CutInto(pages, q, k, upto)
    PROVE  FlattenSeq(pages) = q
<1> DEFINE g == [i \in 1..k |-> SubSeq(q, 1, upto[i])]
           Rest(f) == [i \in 1..k |-> IF i = 1 THEN pages[i] ELSE f[i - 1] \o pages[i]]
           F == CHOOSE f : f = Rest(f)
<1>1. /\ k \in Nat \ {0} /\ upto[0] = 0 /\ upto[k] = Len(q)
      /\ \A i \in 1..k : /\ upto[i - 1] \in Nat /\ upto[i] \in Nat
                         /\ upto[i - 1] <= upto[i] /\ upto[i] <= Len(q)
  BY DEF CutInto, Cuts
<1>2. /\ Len(pages) = k /\ pages = [i \in 1..k |-> pages[i]]
      /\ \A i \in 1..k : pages[i] = SubSeq(q, upto[i - 1] + 1, upto[i])
  <2> DEFINE S == Seq(T)
  <2>1. pages = [i \in 1..k |-> pages[i]] /\ k \in Nat
    BY <1>1 DEF CutInto
  <2>2. \A i \in 1..k : pages[i] = SubSeq(q, upto[i - 1] + 1, upto[i])
    BY DEF CutInto, Cut
  <2>3. \A i \in 1..k : SubSeq(q, upto[i - 1] + 1, upto[i]) \in Seq(T)
    BY <1>1, SubSeqFacts
  <2>4. \A i \in 1..k : pages[i] \in S
    BY <2>2, <2>3
  <2> HIDE DEF Rest, F, g, S
  <2>5. pages \in [1..k -> S]
    BY <2>1, <2>4
  <2>6. pages \in Seq(S) /\ Len(pages) = k
    BY <2>1, <2>5
  <2> QED BY <2>1, <2>2, <2>6
<1>3. FlattenSeq(pages) = F[k]
  <2>1. FlattenSeq(pages) = IF Len(pages) = 0 THEN pages
            ELSE (CHOOSE f : f = [i \in 1..Len(pages) |-> IF i = 1 THEN pages[i] ELSE f[i - 1] \o pages[i]])[Len(pages)]
    BY DEF FlattenSeq
  <2> QED BY <1>1, <1>2, <2>1
<1>4. ASSUME NEW i \in 1..k, i # 1 PROVE i - 1 \in 1..k /\ g[i] = g[i - 1] \o pages[i]
  <2>1. i - 1 \in 1..k
    BY <1>1, <1>4
  <2>2. /\ g[i] = SubSeq(q, 1, upto[i]) /\ g[i - 1] = SubSeq(q, 1, upto[i - 1])
        /\ pages[i] = SubSeq(q, upto[i - 1] + 1, upto[i])
    BY <1>2, <2>1
  <2>3. SubSeq(q, 1, upto[i - 1]) \o SubSeq(q, upto[i - 1] + 1, upto[i]) = SubSeq(q, 1, upto[i])
    BY <1>1, NextCut
  <2> QED BY <2>1, <2>2, <2>3
<1>5. 1 \in 1..k /\ g[1] = pages[1]
  <2>1. 1 \in 1..k /\ 1 - 1 = 0 /\ 0 + 1 = 1
    BY <1>1
  <2>2. pages[1] = SubSeq(q, upto[0] + 1, upto[1])
    BY <1>2, <2>1
  <2> QED BY <1>1, <2>1, <2>2
<1>6. g = [i \in 1..k |-> g[i]]
  OBVIOUS
<1> HIDE DEF g
<1>7. g = Rest(g)
  <2>1. \A i \in 1..k : g[i] = IF i = 1 THEN pages[i] ELSE g[i - 1] \o pages[i]
    BY <1>4, <1>5
  <2> QED BY <1>6, <2>1
<1>8. F = Rest(F)
  <2> HIDE DEF Rest
  <2> QED BY <1>7
<1> HIDE DEF F
<1>9. \A i \in 1..k : F[i] = IF i = 1 THEN pages[i] ELSE F[i - 1] \o pages[i]
  BY <1>8
<1> HIDE DEF Rest
<1>10. \A i \in 1..k : F[i] = g[i]
  <2> DEFINE Bad == {i \in 1..k : F[i] # g[i]}
  <2> SUFFICES ASSUME Bad # {} PROVE FALSE
    OBVIOUS
  <2>1. PICK i \in Bad : \A j \in Bad : i <= j
    <3>1. Bad \subseteq Nat
      BY <1>1
    <3> QED BY <3>1, LeastOf
  <2>2. i \in 1..k /\ F[i] # g[i] /\ i # 1
    BY <1>5, <1>9
  <2>3. i - 1 \in 1..k /\ ~ (i <= i - 1)
    BY <1>1, <2>2
  <2>4. F[i - 1] = g[i - 1]
    BY <2>1, <2>3
  <2>5. F[i] = F[i - 1] \o pages[i] /\ g[i] = g[i - 1] \o pages[i]
    BY <1>4, <1>9, <2>2
  <2> QED BY <2>2, <2>4, <2>5
<1>11. g[k] = q
  <2>1. k \in 1..k
    BY <1>1
  <2>2. g[k] = SubSeq(q, 1, Len(q))
    BY <1>1, <2>1 DEF g
  <2>3. SubSeq(q, 1, Len(q)) = q
    OBVIOUS
  <2> QED BY <2>2, <2>3
<1>12. k \in 1..k
  BY <1>1
<1> QED BY <1>3, <1>10, <1>11, <1>12

(* Where a page ends: after its titles, or with the walk.                   *)
PageEnd(n, limit, total) == IF n * limit < total THEN n * limit ELSE total

PageEnds(k, limit, total) == [n \in 0..k |-> PageEnd(n, limit, total)]

LEMMA PagesCut ==
    ASSUME NEW limit \in Nat \ {0}, NEW total \in Nat, NEW k, k = total \div limit + 1
    PROVE  Cuts(PageEnds(k, limit, total), k, total)
<1> DEFINE upto == PageEnds(k, limit, total)
<1>1. PICK h \in Nat : h = total \div limit /\ h * limit <= total /\ total < (h + 1) * limit
  BY FullPages
<1>3. k = h + 1 /\ k \in Nat \ {0} /\ 0 \in 0..k /\ k \in 0..k
  BY <1>1
<1>4. upto[0] = 0
  BY <1>3 DEF PageEnds, PageEnd
<1>5. upto[k] = total
  <2>1. ~ (k * limit < total)
    BY <1>1, <1>3
  <2> QED BY <1>3, <2>1 DEF PageEnds, PageEnd
<1>6. ASSUME NEW i \in 1..k
      PROVE  upto[i - 1] \in Nat /\ upto[i] \in Nat /\ upto[i - 1] <= upto[i] /\ upto[i] <= total
  <2>1. i - 1 \in Nat /\ i \in Nat /\ i - 1 <= i /\ i - 1 \in 0..k /\ i \in 0..k
    BY <1>3
  <2>2. (i - 1) * limit <= i * limit
    BY <2>1, TimesMore
  <2>3. upto[i - 1] = PageEnd(i - 1, limit, total) /\ upto[i] = PageEnd(i, limit, total)
    BY <2>1 DEF PageEnds
  <2> DEFINE a == (i - 1) * limit
             b == i * limit
  <2>4. a \in Nat /\ b \in Nat /\ a <= b
    BY <2>1, <2>2
  <2>5. upto[i - 1] = (IF a < total THEN a ELSE total) /\ upto[i] = (IF b < total THEN b ELSE total)
    BY <2>3 DEF PageEnd
  <2> HIDE DEF a, b
  <2> QED BY <2>4, <2>5
<1> QED BY <1>3, <1>4, <1>5, <1>6 DEF Cuts, PageEnds

(* Of what is joined, a part that ends before.                              *)
LEMMA CutBefore ==
    ASSUME NEW T, NEW p \in Seq(T), NEW q \in Seq(T), NEW a \in Nat, NEW b \in Nat, a <= b, b <= Len(p)
    PROVE  Len(p) <= Len(p \o q) /\ SubSeq(p \o q, a + 1, b) = SubSeq(p, a + 1, b)
<1> DEFINE full == p \o q
           n == Len(p)
           s == SubSeq(p, a + 1, b)
           u == SubSeq(full, a + 1, b)
<1>1. /\ full \in Seq(T) /\ Len(full) = n + Len(q)
      /\ \A i \in 1..(n + Len(q)) : full[i] = IF i <= n THEN p[i] ELSE q[i - n]
  BY ConcatProperties
<1>2. n \in Nat /\ Len(q) \in Nat /\ b - a \in Nat
  BY LenProperties
<1> HIDE DEF full
<1>3. n <= Len(full) /\ b <= Len(full)
  BY <1>1, <1>2
<1>4. s \in Seq(T) /\ Len(s) = b - a /\ \A i \in 1..(b - a) : s[i] = p[a + i]
  BY SubSeqFacts
<1>5. u \in Seq(T) /\ Len(u) = b - a /\ \A i \in 1..(b - a) : u[i] = full[a + i]
  BY <1>1, <1>3, SubSeqFacts
<1>6. \A i \in 1..(b - a) : a + i \in 1..(n + Len(q)) /\ a + i <= n
  BY <1>2
<1> HIDE DEF n, s, u
<1>7. \A i \in 1..(b - a) : s[i] = u[i]
  BY <1>1, <1>4, <1>5, <1>6
<1>8. s = u
  BY <1>2, <1>4, <1>5, <1>7, SameLine
<1> QED BY <1>3, <1>8 DEF full, n, s, u

(* A page is a part of the walk, whether or not the likely ones were ranked  *)
(* for it.                                                                  *)
LEMMA PageIsCut ==
    ASSUME NEW T, NEW sure \in Seq(T), NEW likely \in Seq(T),
           NEW walks, walks.sure = sure, walks.likely = likely, walks.confident = Len(sure),
           NEW total \in Nat, total = Len(sure \o likely), NEW limit \in Nat \ {0}, NEW skip \in Nat,
           NEW end, end = IF skip + limit < total THEN skip + limit ELSE total
    PROVE  Page(walks, skip, limit) = Cut(sure \o likely, skip, end)
<1>1. CASE skip + limit > Len(sure)
  BY <1>1 DEF Page, ReachesLikely, Cut
<1>2. CASE ~ (skip + limit > Len(sure))
  <2> DEFINE e == skip + limit
             n == Len(sure)
  <2>1. e \in Nat /\ n \in Nat /\ skip <= e
    BY LenProperties
  <2>2. e <= n
    <3> HIDE DEF n
    <3> QED BY <1>2, <2>1 DEF n
  <2>3. n <= total /\ SubSeq(sure \o likely, skip + 1, e) = SubSeq(sure, skip + 1, e)
    BY <2>1, <2>2, CutBefore
  <2>4. sure \o <<>> = sure
    OBVIOUS
  <2>5. Page(walks, skip, limit) = SubSeq(sure, skip + 1, IF e < n THEN e ELSE n)
    BY <1>2, <2>4 DEF Page, ReachesLikely
  <2> HIDE DEF e, n
  <2>6. (IF e < n THEN e ELSE n) = e
    BY <2>1, <2>2
  <2>7. end = e
    <3>1. end = IF e < total THEN e ELSE total
      BY DEF e
    <3> QED BY <2>1, <2>2, <2>3, <3>1
  <2> QED BY <2>3, <2>5, <2>6, <2>7 DEF Cut
<1> QED BY <1>1, <1>2

LEMMA EachPageCut ==
    ASSUME NEW matched, NEW walks, WalkOK(walks, matched), NEW limit \in Nat \ {0}, NEW total \in Nat,
           total = Cardinality(matched.any), NEW k \in Nat \ {0}, (k - 1) * limit <= total
    PROVE  \A n \in 1..k : Page(walks, (n - 1) * limit, limit) =
               Cut(walks.sure \o walks.likely, PageEnds(k, limit, total)[n - 1],
                                               PageEnds(k, limit, total)[n])
<1> DEFINE full == walks.sure \o walks.likely
           upto == PageEnds(k, limit, total)
<1> SUFFICES ASSUME NEW n \in 1..k
             PROVE  Page(walks, (n - 1) * limit, limit) = Cut(full, upto[n - 1], upto[n])
  OBVIOUS
<1>1. n - 1 \in Nat /\ n \in Nat \ {0} /\ n - 1 \in 0..k /\ n \in 0..k /\ k - 1 \in Nat /\ n - 1 <= k - 1
  OBVIOUS
<1>2. (n - 1) * limit <= total
  <2>1. (n - 1) * limit <= (k - 1) * limit
    BY <1>1, TimesMore
  <2>2. (n - 1) * limit \in Int /\ (k - 1) * limit \in Int
    BY <1>1
  <2> QED BY <2>1, <2>2
<1>3. upto[n - 1] = PageEnd(n - 1, limit, total) /\ upto[n] = PageEnd(n, limit, total)
  BY <1>1 DEF PageEnds
<1> DEFINE T == matched.any
           skip == (n - 1) * limit
           sure == walks.sure
           likely == walks.likely
           end == upto[n]
<1>4. sure \in Seq(T) /\ likely \in Seq(T) /\ walks.confident = Len(sure) /\ total = Len(sure \o likely)
  BY DEF WalkOK
<1>5. skip \in Nat /\ skip + limit = n * limit
  BY <1>1
<1>6. upto[n - 1] = skip
  BY <1>2, <1>3, <1>5 DEF PageEnd
<1>7. end = IF skip + limit < total THEN skip + limit ELSE total
  BY <1>3, <1>5 DEF PageEnd
<1>8. walks.sure = sure /\ walks.likely = likely
  OBVIOUS
<1> HIDE DEF T, skip, end, sure, likely, upto
<1>9. Page(walks, skip, limit) = Cut(sure \o likely, skip, end)
  BY <1>4, <1>5, <1>7, <1>8, PageIsCut
<1> QED BY <1>6, <1>9 DEF skip, end, sure, likely

PagesFrom(walks, limit, total) ==
    [n \in 1..(total \div limit + 1) |-> Page(walks, (n - 1) * limit, limit)]

(* The pages, one after another, are the walk.                              *)
LEMMA PagesAreWalk ==
    ASSUME NEW matched, NEW walks, WalkOK(walks, matched), NEW limit \in Nat \ {0}, NEW total \in Nat,
           total = Cardinality(matched.any)
    PROVE  FlattenSeq(PagesFrom(walks, limit, total)) = walks.sure \o walks.likely
<1> DEFINE pages == PagesFrom(walks, limit, total)
           full == walks.sure \o walks.likely
           k == total \div limit + 1
           upto == PageEnds(k, limit, total)
<1>1. full \in Seq(matched.any) /\ Len(full) = total
  BY JoinedFacts DEF WalkOK
<1>2. Cuts(upto, k, Len(full))
  BY <1>1, PagesCut
<1>3. k \in Nat \ {0} /\ (k - 1) * limit <= total
  <2>1. PICK h \in Nat : h = total \div limit /\ h * limit <= total
    BY FullPages
  <2>2. k = h + 1 /\ k - 1 = h
    BY <2>1
  <2> QED BY <2>1, <2>2
<1>4. \A n \in 1..k : Page(walks, (n - 1) * limit, limit) = Cut(full, upto[n - 1], upto[n])
  BY <1>3, EachPageCut
<1> HIDE DEF full, upto
<1>5. CutInto(pages, full, k, upto)
  BY <1>2, <1>4 DEF CutInto, PagesFrom
<1> HIDE DEF pages
<1>6. FlattenSeq(pages) = full
  BY <1>1, <1>5, CutsJoined
<1> QED BY <1>6 DEF full, pages

-----------------------------------------------------------------------------
(* The derived part, swapped under those who read it.                       *)

(* What a derived part keeps of the empty selection is worked out of its own *)
(* votes, whoever holds a part holds one of the votes it read, and an answer *)
(* is of those.                                                            *)
KeptOf(part) ==
    /\ part = [ratings |-> part.ratings, empty |-> part.empty]
    /\ part.empty = [scope \in Scope |-> part.empty[scope]]
    /\ \A scope \in Scope :
          part.empty[scope] \in {Unworked, WorkKinds(part.ratings, scope, FALSE, {})}

AskersOK ==
    /\ request \in Question
    /\ stage \in [Asker -> {"idle", "read", "holding", "answered"}]
    /\ limited \in [Asker -> BOOLEAN]
    /\ ratings \in 0..Len(Tables) /\ read \in [Asker -> 0..Len(Tables)]
    /\ DOMAIN held = Asker /\ DOMAIN answer = Asker

HeldOK ==
    \A a \in Asker : stage[a] \in {"holding", "answered"} =>
        held[a] \in DOMAIN built /\ built[held[a]].ratings = read[a]

PagesOf(d, scope, restricted, items, limit, total) ==
    PagesFrom(Walks(d, scope, restricted, items), limit, total)

AnsweredOf(a) ==
    /\ answer[a].counts = WorkKinds(read[a], request.scope, limited[a], Applied(a))
    /\ answer[a].pages = PagesOf(read[a], request.scope, limited[a], Applied(a),
                                 request.limit, answer[a].counts.total)

FilterIInv ==
    /\ AskersOK
    /\ built \in Seq(Range(built)) /\ \A n \in DOMAIN built : KeptOf(built[n])
    /\ HeldOK
    /\ \A a \in Asker : stage[a] = "answered" => AnsweredOf(a)

LEMMA FilterInitInv == ASSUME FilterAssumption, FilterInit PROVE FilterIInv
<1>1. built = <<>> /\ built \in Seq(Range(built)) /\ DOMAIN built = {}
  BY DEF FilterInit
<1>2. \A a \in Asker : stage[a] = "idle"
  BY DEF FilterInit
<1>3. Len(Tables) \in Nat
  BY DEF FilterAssumption, OrderAssumption
<1>4. AskersOK
  BY <1>3 DEF FilterInit, AskersOK
<1> QED BY <1>1, <1>2, <1>4 DEF FilterIInv, HeldOK

(* A part put in the slot keeps nothing worked out yet.                     *)
LEMMA NewIsKept == ASSUME NEW d PROVE KeptOf(Derive(d)) /\ Derive(d).ratings = d
BY DEF Derive, NewDerived, KeptOf

LEMMA TakeKeepsInv == ASSUME FilterIInv, NEW a \in Asker, TakeDerived(a) PROVE FilterIInv'
<1> DEFINE n == Len(built)
           fits == built # <<>> /\ built[n].ratings = read[a]
           new == Derive(read[a])
           T == Range(built) \cup {new}
<1>1. /\ n \in Nat /\ DOMAIN built = 1..n /\ built \in Seq(T)
      /\ built # <<>> => n \in 1..n
  <2>1. built \in Seq(Range(built))
    BY DEF FilterIInv
  <2> HIDE DEF new
  <2> QED BY <2>1
<1>2. /\ built' = IF fits THEN built ELSE Append(built, new)
      /\ held' = [held EXCEPT ![a] = Len(built')] /\ stage' = [stage EXCEPT ![a] = "holding"]
      /\ UNCHANGED <<ratings, request, limited, read, answer>> /\ stage[a] = "read"
  BY DEF TakeDerived
<1>3. KeptOf(new) /\ new.ratings = read[a]
  BY NewIsKept
<1> HIDE DEF new
<1>4. /\ Append(built, new) \in Seq(T) /\ Len(Append(built, new)) = n + 1
      /\ DOMAIN Append(built, new) = 1..(n + 1)
      /\ Append(built, new)[n + 1] = new /\ \A i \in 1..n : Append(built, new)[i] = built[i]
  <2>1. new \in T
    OBVIOUS
  <2> HIDE DEF T
  <2> QED BY <1>1, <2>1, AppendIsLonger
<1> HIDE DEF T, fits, n
<1>5. /\ Len(built') \in DOMAIN built' /\ built'[Len(built')].ratings = read[a]
      /\ \A i \in DOMAIN built : i \in DOMAIN built' /\ built'[i] = built[i]
      /\ \A i \in DOMAIN built' : i \in DOMAIN built \/ built'[i] = new
      /\ built' \in Seq(Range(built'))
  <2>1. CASE fits
    BY <1>1, <1>2, <2>1 DEF fits, n, FilterIInv
  <2>2. CASE ~fits
    <3>1. built' = Append(built, new)
      BY <1>2, <2>2
    <3>4. built' \in Seq(Range(built'))
      BY <1>4, <3>1, OfItsRange
    <3>5. n + 1 \in 1..(n + 1) /\ \A i \in 1..(n + 1) : i \in 1..n \/ i = n + 1
      BY <1>1
    <3> QED BY <1>1, <1>3, <1>4, <3>1, <3>4, <3>5
  <2> QED BY <2>1, <2>2
<1>6. AskersOK'
  BY <1>2 DEF FilterIInv, AskersOK
<1>7. \A i \in DOMAIN built' : KeptOf(built'[i])
  BY <1>3, <1>5 DEF FilterIInv
<1>8. HeldOK'
  <2> SUFFICES ASSUME NEW b \in Asker, stage'[b] \in {"holding", "answered"}
               PROVE  held'[b] \in DOMAIN built' /\ built'[held'[b]].ratings = read'[b]
    BY DEF HeldOK
  <2>1. CASE b = a
    BY <1>2, <1>5, <2>1 DEF FilterIInv, AskersOK
  <2>2. CASE b # a
    <3>1. held'[b] = held[b] /\ stage'[b] = stage[b]
      BY <1>2, <2>2 DEF FilterIInv, AskersOK
    <3> QED BY <1>2, <1>5, <3>1 DEF FilterIInv, HeldOK
  <2> QED BY <2>1, <2>2
<1>9. ASSUME NEW b \in Asker, stage'[b] = "answered" PROVE AnsweredOf(b)'
  <2>1. stage[b] = "answered"
    BY <1>2, <1>9 DEF FilterIInv, AskersOK
  <2> QED BY <1>2, <2>1 DEF FilterIInv, AnsweredOf, Applied
<1> QED BY <1>5, <1>6, <1>7, <1>8, <1>9 DEF FilterIInv

(* What is kept of the empty selection stays worked out of its own votes.   *)
LEMMA KeptAgain ==
    ASSUME NEW part, KeptOf(part), NEW scope \in Scope, NEW counts,
           counts \in {Unworked, WorkKinds(part.ratings, scope, FALSE, {})}, NEW new,
           new = [part EXCEPT !.empty[scope] = counts]
    PROVE  KeptOf(new) /\ new.ratings = part.ratings
<1>1. /\ part = [ratings |-> part.ratings, empty |-> part.empty]
      /\ part.empty = [s \in Scope |-> part.empty[s]]
      /\ \A s \in Scope : part.empty[s] \in {Unworked, WorkKinds(part.ratings, s, FALSE, {})}
  BY DEF KeptOf
<1> DEFINE empty == [part.empty EXCEPT ![scope] = counts]
<1>2. new = [ratings |-> part.ratings, empty |-> empty]
  BY <1>1
<1>3. empty = [s \in Scope |-> IF s = scope THEN counts ELSE part.empty[s]]
  BY <1>1
<1> HIDE DEF empty
<1>4. new.ratings = part.ratings /\ new.empty = empty
  BY <1>2
<1>5. new = [ratings |-> new.ratings, empty |-> new.empty]
  BY <1>2, <1>4
<1>6. empty = [s \in Scope |-> empty[s]]
  BY <1>3
<1>7. \A s \in Scope : empty[s] \in {Unworked, WorkKinds(part.ratings, s, FALSE, {})}
  BY <1>1, <1>3
<1> QED BY <1>4, <1>5, <1>6, <1>7 DEF KeptOf

LEMMA RespondKeepsInv ==
    ASSUME FilterAssumption, FilterIInv, NEW a \in Asker, Respond(a) PROVE FilterIInv'
<1> DEFINE h == held[a]
           d == read[a]
           scope == request.scope
           kept == built[h].empty[scope]
           applied == Applied(a)
           bare == applied = {} /\ ~limited[a]
           worked == WorkKinds(d, scope, limited[a], applied)
           counts == IF bare /\ kept # Unworked THEN kept ELSE worked
           pages == PagesOf(d, scope, limited[a], applied, request.limit, counts.total)
           new == [built[h] EXCEPT !.empty[scope] = counts]
<1>1. h \in DOMAIN built /\ built[h].ratings = d /\ KeptOf(built[h]) /\ stage[a] = "holding"
  BY DEF FilterIInv, HeldOK, Respond
<1>2. /\ answer' = [answer EXCEPT ![a] = [counts |-> counts, pages |-> pages]]
      /\ built' = IF bare THEN [built EXCEPT ![h].empty[scope] = counts] ELSE built
      /\ stage' = [stage EXCEPT ![a] = "answered"]
      /\ UNCHANGED <<ratings, request, limited, read, held>>
  BY <1>1 DEF Respond, Applied, PagesOf, PagesFrom
<1>3. scope \in Scope /\ limited[a] \in BOOLEAN
  BY DEF FilterIInv, AskersOK, FilterAssumption
<1>4. counts = worked
  <2>1. CASE bare /\ kept # Unworked
    <3>1. applied = {} /\ limited[a] = FALSE
      BY <1>3, <2>1
    <3>2. kept = WorkKinds(d, scope, FALSE, {})
      BY <1>1, <1>3, <2>1 DEF KeptOf
    <3> HIDE DEF applied, kept
    <3> QED BY <2>1, <3>1, <3>2
  <2>2. CASE ~ (bare /\ kept # Unworked)
    BY <2>2
  <2> QED BY <2>1, <2>2
<1>5. bare => counts = WorkKinds(d, scope, FALSE, {})
  <2>1. bare => applied = {} /\ limited[a] = FALSE
    BY <1>3
  <2> HIDE DEF applied, bare, counts
  <2> QED BY <1>4, <2>1
<1>6. bare => KeptOf(new) /\ new.ratings = built[h].ratings
  <2> DEFINE part == built[h]
  <2>1. new = [part EXCEPT !.empty[scope] = counts]
    OBVIOUS
  <2>2. KeptOf(part) /\ (bare => counts \in {Unworked, WorkKinds(part.ratings, scope, FALSE, {})})
    BY <1>1, <1>5
  <2>3. scope \in Scope
    BY <1>3
  <2> HIDE DEF counts, bare, scope, part, new
  <2>4. bare => KeptOf(new) /\ new.ratings = part.ratings
    BY <2>1, <2>2, <2>3, KeptAgain
  <2> QED BY <2>4 DEF part
<1>7. /\ DOMAIN built' = DOMAIN built /\ built' \in Seq(Range(built'))
      /\ \A i \in DOMAIN built : built'[i].ratings = built[i].ratings /\ KeptOf(built'[i])
  <2>1. built \in Seq(Range(built)) /\ \A i \in DOMAIN built : KeptOf(built[i])
    BY DEF FilterIInv
  <2>2. CASE ~bare
    <3>1. built' = built
      BY <1>2, <2>2
    <3> QED BY <2>1, <3>1
  <2>3. CASE bare
    <3>1. built' = [built EXCEPT ![h] = new]
      BY <1>2, <2>3
    <3> HIDE DEF new, bare, h
    <3>2. PICK n \in Nat : DOMAIN built = 1..n /\ built = [i \in 1..n |-> built[i]]
      BY <2>1
    <3>3. built' = [i \in 1..n |-> IF i = h THEN new ELSE built[i]]
      BY <3>1, <3>2
    <3>4. DOMAIN built' = 1..n
      BY <3>3
    <3> DEFINE T == {new} \cup Range(built)
    <3>5. built' \in [1..n -> T]
      BY <3>2, <3>3 DEF Range
    <3> HIDE DEF T
    <3>6. built' \in Seq(T)
      BY <3>2, <3>5
    <3>7. built' \in Seq(Range(built'))
      BY <3>6, OfItsRange
    <3>8. \A i \in 1..n : built'[i] = IF i = h THEN new ELSE built[i]
      BY <3>3
    <3> QED BY <1>6, <2>1, <2>3, <3>2, <3>4, <3>7, <3>8
  <2> QED BY <2>2, <2>3
<1>8. /\ answer' = [answer EXCEPT ![a] = answer'[a]] /\ DOMAIN answer' = Asker
      /\ answer'[a].counts = counts /\ answer'[a].pages = pages
  <2> HIDE DEF counts, pages
  <2>1. DOMAIN answer = Asker
    BY DEF FilterIInv, AskersOK
  <2>2. DOMAIN answer' = Asker /\ answer'[a] = [counts |-> counts, pages |-> pages]
    BY <1>2, <2>1
  <2> QED BY <1>2, <2>2
<1> HIDE DEF counts, pages, new, bare, kept, h
<1>9. AskersOK'
  BY <1>2, <1>8 DEF FilterIInv, AskersOK
<1>10. HeldOK'
  <2> SUFFICES ASSUME NEW b \in Asker, stage'[b] \in {"holding", "answered"}
               PROVE  held'[b] \in DOMAIN built' /\ built'[held'[b]].ratings = read'[b]
    BY DEF HeldOK
  <2>1. stage[b] \in {"holding", "answered"}
    BY <1>1, <1>2 DEF FilterIInv, AskersOK
  <2>2. held[b] \in DOMAIN built /\ built[held[b]].ratings = read[b]
    BY <2>1 DEF FilterIInv, HeldOK
  <2> QED BY <1>2, <1>7, <2>2
<1>11. ASSUME NEW b \in Asker, stage'[b] = "answered" PROVE AnsweredOf(b)'
  <2>1. CASE b = a
    <3>1. answer'[a].pages = PagesOf(d, scope, limited[a], applied, request.limit, answer'[a].counts.total)
      BY <1>8 DEF pages
    <3> QED BY <1>2, <1>4, <1>8, <2>1, <3>1 DEF AnsweredOf, Applied
  <2>2. CASE b # a
    <3>1. stage[b] = "answered" /\ answer'[b] = answer[b]
      BY <1>2, <1>8, <1>11, <2>2 DEF FilterIInv, AskersOK
    <3>2. AnsweredOf(b)
      BY <3>1 DEF FilterIInv
    <3> QED BY <1>2, <3>1, <3>2 DEF AnsweredOf, Applied
  <2> QED BY <2>1, <2>2
<1> QED BY <1>7, <1>9, <1>10, <1>11 DEF FilterIInv

(* The rest of a request, and votes that land, touch no part that is held.  *)
LEMMA OthersKeepInv ==
    ASSUME FilterAssumption, FilterIInv,
           Land \/ UNCHANGED filterVars \/ \E a \in Asker : ReadVotes(a) \/ Finish(a)
    PROVE  FilterIInv'
<1>1. UNCHANGED <<built, request>>
  BY DEF Land, filterVars, ReadVotes, Finish
<1>2. AskersOK'
  <2>1. CASE Land \/ UNCHANGED filterVars
    <3>1. Len(Tables) \in Nat
      BY DEF FilterAssumption, OrderAssumption
    <3> QED BY <2>1, <3>1 DEF FilterIInv, AskersOK, Land, filterVars
  <2>2. ASSUME NEW a \in Asker, ReadVotes(a) PROVE AskersOK'
    BY <2>2 DEF FilterIInv, AskersOK, ReadVotes
  <2>3. ASSUME NEW a \in Asker, Finish(a) PROVE AskersOK'
    BY <2>3 DEF FilterIInv, AskersOK, Finish
  <2> QED BY <2>1, <2>2, <2>3
<1>3. ASSUME NEW b \in Asker, stage'[b] \in {"holding", "answered"}
      PROVE  /\ stage[b] = stage'[b] /\ held[b] = held'[b] /\ read[b] = read'[b]
             /\ limited[b] = limited'[b] /\ answer[b] = answer'[b]
  <2>1. CASE Land \/ UNCHANGED filterVars
    BY <2>1 DEF Land, filterVars
  <2>2. ASSUME NEW a \in Asker, ReadVotes(a) \/ Finish(a)
        PROVE  /\ stage[b] = stage'[b] /\ held[b] = held'[b] /\ read[b] = read'[b]
               /\ limited[b] = limited'[b] /\ answer[b] = answer'[b]
    <3>1. stage'[a] \in {"read", "idle"}
      BY <2>2 DEF FilterIInv, AskersOK, ReadVotes, Finish
    <3>2. b # a
      BY <1>3, <3>1
    <3> QED BY <2>2, <3>2 DEF FilterIInv, AskersOK, ReadVotes, Finish
  <2> QED BY <2>1, <2>2
<1>4. HeldOK'
  BY <1>1, <1>3 DEF FilterIInv, HeldOK
<1>5. ASSUME NEW b \in Asker, stage'[b] = "answered" PROVE AnsweredOf(b)'
  <2>1. AnsweredOf(b)
    BY <1>3, <1>5 DEF FilterIInv
  <2> QED BY <1>1, <1>3, <1>5, <2>1 DEF AnsweredOf, Applied
<1> QED BY <1>1, <1>2, <1>4, <1>5 DEF FilterIInv

(* The counts told are those of the votes read.                             *)
LEMMA AppliedOK ==
    ASSUME FilterAssumption, FilterIInv, NEW a \in Asker
    PROVE  \A i \in Applied(a) : ItemOK(i) /\ AskedOK(i) /\ i.kind \in Ready(read[a])
BY DEF FilterIInv, AskersOK, FilterAssumption, Applied, ItemOK, AskedOK

LEMMA FilterInvTells == ASSUME FilterAssumption, FilterIInv PROVE CountsTell
<1> SUFFICES ASSUME NEW a \in Asker, stage[a] = "answered"
             PROVE  Tells(answer[a].counts, read[a], request.scope, limited[a], Applied(a))
  BY DEF CountsTell
<1>1. \A i \in Applied(a) : ItemOK(i) /\ i.kind \in Ready(read[a])
  BY AppliedOK
<1> QED BY <1>1, WorkedOutTells DEF FilterIInv, AnsweredOf

(* The pages told are those of the votes read.                              *)
LEMMA FilterInvPages == ASSUME FilterAssumption, FilterIInv PROVE PagesTell
<1> SUFFICES ASSUME NEW a \in Asker, stage[a] = "answered",
                    NEW d, d = read[a], NEW items, items = Applied(a),
                    NEW matched, matched = Matched(d, request.scope, limited[a], items),
                    NEW odds, odds = [t \in matched.any |-> LowestTentative(d, items, t)]
             PROVE  \E before \in Orders(d, items, matched.any) :
                        InOrder(FlattenSeq(answer[a].pages), matched, odds, before)
  BY DEF PagesTell
<1> DEFINE scope == request.scope
           size == request.limit
           found == Walks(d, scope, limited[a], items)
           total == answer[a].counts.total
<1>1. scope \in Scope /\ size \in Nat \ {0} /\ d \in 0..Len(Tables)
  BY DEF FilterIInv, AskersOK, FilterAssumption
<1>2. \A i \in items : AskedOK(i)
  BY AppliedOK
<1>3. AnsweredOf(a)
  BY DEF FilterIInv
<1>4. total = Cardinality(matched.any) /\ total \in Nat
  <2>1. total = Cardinality(matched.any)
    BY <1>3 DEF AnsweredOf, WorkKinds, Tally
  <2>2. matched.any \subseteq Title /\ IsFiniteSet(Title)
    BY <1>1, MatchedWithin DEF FilterAssumption
  <2> QED BY <2>1, <2>2, Fewer
<1>5. answer[a].pages = PagesOf(d, scope, limited[a], items, size, total)
  BY <1>3 DEF AnsweredOf
<1>6. PICK before \in Orders(d, items, matched.any) :
          WalkOK(found, matched) /\ InOrder(found.sure \o found.likely, matched, odds, before)
  BY <1>1, <1>2, WalkTells
<1>7. answer[a].pages = PagesFrom(found, size, total)
  BY <1>5 DEF PagesOf
<1> HIDE DEF scope, size, found, total
<1>8. FlattenSeq(answer[a].pages) = found.sure \o found.likely
  <2>1. FlattenSeq(PagesFrom(found, size, total)) = found.sure \o found.likely
    BY <1>1, <1>4, <1>6, PagesAreWalk
  <2> QED BY <1>7, <2>1
<1> QED BY <1>6, <1>8

(* Every answer of counts.json tells what asking for each of its values would *)
(* find, under the votes its request read, whatever was swapped meanwhile and *)
(* whatever another request had worked out (filter.rs).                     *)
THEOREM CountsAreTold == ASSUME FilterAssumption PROVE FilterSpec => []CountsTell
<1>1. FilterInit => FilterIInv
  BY FilterInitInv
<1>2. FilterIInv /\ [FilterNext]_filterVars => FilterIInv'
  BY TakeKeepsInv, RespondKeepsInv, OthersKeepInv DEF FilterNext
<1>3. FilterIInv => CountsTell
  BY FilterInvTells
<1> QED BY <1>1, <1>2, <1>3, PTL DEF FilterSpec

(* And the pages of titles.json, one after another, hold every match of the   *)
(* selection once under those votes: those that match surely in the scope's    *)
(* order, the films and the series of all merged by their share, or in a like's *)
(* row; then the likely ones from the surest (filter.rs).                      *)
THEOREM AnswersAreTold == ASSUME FilterAssumption PROVE FilterSpec => []AnswersTell
<1>1. FilterInit => FilterIInv
  BY FilterInitInv
<1>2. FilterIInv /\ [FilterNext]_filterVars => FilterIInv'
  BY TakeKeepsInv, RespondKeepsInv, OthersKeepInv DEF FilterNext
<1>3. FilterIInv => AnswersTell
  BY FilterInvTells, FilterInvPages DEF AnswersTell
<1> QED BY <1>1, <1>2, <1>3, PTL DEF FilterSpec
=============================================================================
