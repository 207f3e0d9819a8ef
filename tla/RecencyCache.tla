------------------------------ MODULE RecencyCache ------------------------------
(* What the embedding service's cache promises: at most so many vectors, of   *)
(* which the least recently used one goes first, and never one text's for     *)
(* another's.                                                               *)
EXTENDS SequencesExt, Naturals

CONSTANTS Key, MaxEntries, NoVector

VARIABLES
    order,    \* the kept keys, the least recently used first
    answer    \* the last get: its key, and the key its vector is of, or NoVector

Holds(k) == \E i \in DOMAIN order : order[i] = k

RecencyInit == order = <<>> /\ answer \in [key : Key, vector : {NoVector}]

Use(k) == \E i \in DOMAIN order : order[i] = k /\ order' = Append(RemoveAt(order, i), k)

Hit(k)    == Use(k) /\ answer' = [key |-> k, vector |-> k]
Miss(k)   == ~ Holds(k) /\ answer' = [key |-> k, vector |-> NoVector] /\ UNCHANGED order
Again(k)  == Use(k) /\ UNCHANGED answer
Insert(k) == /\ ~ Holds(k) /\ UNCHANGED answer
             /\ order' = Append(IF Len(order) < MaxEntries THEN order ELSE Tail(order), k)

RecencyNext == \E k \in Key : Hit(k) \/ Miss(k) \/ Again(k) \/ Insert(k)

RecencySpec == RecencyInit /\ [][RecencyNext]_<<order, answer>>
=============================================================================
