-------------------------------- MODULE MCGates --------------------------------
(***************************************************************************)
(* The two kinds of gate a request meets, the row gates and one class's    *)
(* admission gate (TLC).  A behaviour is one part's: the other rests.      *)
(***************************************************************************)
EXTENDS InflightGates, AdmissionGate

CONSTANTS t1, t2, t3, k1, k2, g1, g2, g3, g4, g5, r1, r2, r3, r4, r5

MCTask == {t1, t2, t3}
MCKey  == {k1, k2}
MCGate == {g1, g2, g3, g4, g5}  \* |Task| + |Key|: an allocation never lacks one

MCRequest == {r1, r2, r3, r4, r5}

VARIABLE part  \* the part that runs

GateInit == part \in {"rows", "admission"} /\ GatesInit /\ Init

GateNext ==
    /\ UNCHANGED part
    /\ \/ part = "rows" /\ GatesNext /\ UNCHANGED vars
       \/ part = "admission" /\ Next /\ UNCHANGED gateVars

(* What the part at rest would be fair to is disabled. *)
GateSpec == GateInit /\ [][GateNext]_<<part, gateVars, vars>> /\ GatesFairness /\ Fairness
=============================================================================
