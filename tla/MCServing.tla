-------------------------------- MODULE MCServing --------------------------------
(***************************************************************************)
(* What must come in the end (TLC): a first answer of TVmaze, the indexes,   *)
(* the embedding service, a row in its file, and the end of a process.  A    *)
(* behaviour is one part's: the others rest.                               *)
(***************************************************************************)
EXTENDS MCTvmazePass, Drain, IndexLoad, EmbedService

CONSTANTS l1, l2, q1, b1, x, y, k1, k2,
          p1, p2, f1, f2, NoGeneration

VARIABLES
    part,     \* the part that runs
    rows, stored, generation, saving, putting, writer, snapshot, written, disk, partial,
    wall, puts, restarts, steady, failed      \* RowCacheFile

MCLoader  == {AtStart, l1, l2}

(* One text, and a batch of another one twice, with room for one vector. *)
MCAsker   == {q1, b1}
MCBatch   == {b1}
MCText    == {x, y}
MCTextsOf == [r \in MCAsker |-> IF r = q1 THEN <<y>> ELSE <<x, x>>]

MCClient  == {k1, k2}

RowFile == INSTANCE RowCacheFile WITH
    Key <- {k1, k2}, Putter <- {p1, p2}, Writer <- {f1, f2},
    MaxEntries <- 2, MaxPuts <- 2, MaxClock <- 0, MaxRestarts <- 1,
    pc <- writer, clock <- wall

fileV  == <<rows, stored, generation, saving, putting, writer, snapshot, written, disk,
            partial, wall, puts, restarts, steady, failed>>

ServingInit ==
    /\ part \in {"airing", "load", "embed", "stop", "file"}
    /\ Init /\ LoadInit /\ EmbedInit /\ DrainInit /\ RowFile!Init
    /\ part # "load" => counts
    /\ part # "stop" => returns

ServingNext ==
    /\ UNCHANGED part
    /\ \/ part = "airing" /\ Next
          /\ UNCHANGED <<loadVars, embedVars, drainVars, fileV>>
       \/ part = "load" /\ LoadNext
          /\ UNCHANGED <<vars, embedVars, drainVars, fileV>>
       \/ part = "embed" /\ EmbedNext
          /\ UNCHANGED <<vars, loadVars, drainVars, fileV>>
       \/ part = "stop" /\ DrainNext
          /\ UNCHANGED <<vars, loadVars, embedVars, fileV>>
       \/ part = "file" /\ RowFile!Next
          /\ UNCHANGED <<vars, loadVars, embedVars, drainVars>>

(* Each part's fairness, while it is the one that runs. *)
AiringFair ==
    /\ WF_vars(part = "airing" /\ PassStep)
    /\ WF_vars(AskStep) /\ WF_vars(PauseEnds)
    /\ \A c \in Caller : WF_vars(CallStep(c)) /\ WF_vars(GiveUp(c))

LoadFair ==
    /\ WF_loadVars(part = "load" /\ VotesSettle)
    /\ WF_loadVars(part = "load" /\ CharactersSettle)
    /\ \A c \in Loader : WF_loadVars(CallerStep(c))

EmbedFair ==
    /\ \A r \in {q1, b1} : WF_embedVars(JobStep(r))
    /\ WF_embedVars(part = "embed" /\ Tick)
    /\ WF_embedVars(part = "embed" /\ LookIdle)
    /\ WF_embedVars(part = "embed" /\ Unload)

FileFair ==
    /\ \A p \in {p1, p2} : WF_fileV(RowFile!Save(p))
    /\ \A w \in {f1, f2} : WF_fileV(RowFile!WriterStep(w))

ServingSpec ==
    /\ ServingInit
    /\ [][ServingNext]_<<part, vars, loadVars, embedVars, drainVars, fileV>>
    /\ AiringFair /\ LoadFair /\ EmbedFair /\ FileFair /\ DrainFairness

(* Of IndexLoad; one request stands for the other. *)
GetEnds == IsAnswered(l1)

(* Of RowCacheFile. *)
RowReachesFile == RowFile!RowReachesFile
=============================================================================
