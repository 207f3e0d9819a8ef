------------------------------- MODULE MCPasses -------------------------------
(***************************************************************************)
(* The two background passes over the services that count or pause calls   *)
(* (TLC): Movie of the Night's for one country, and TVmaze's with its      *)
(* queue and waiters.  They share no state: a behaviour is one's, and the  *)
(* other rests.                                                            *)
(***************************************************************************)
EXTENDS MCMotnPass, MCTvmazePass

VARIABLES
    part      \* the pass that runs

PassesInit == part \in {"motn", "tvmaze"} /\ MotnInit /\ Init

PassesNext ==
    /\ UNCHANGED part
    /\ \/ part = "motn" /\ MotnNext /\ UNCHANGED vars
       \/ part = "tvmaze" /\ Next /\ UNCHANGED motnVars

PassesSpec == PassesInit /\ [][PassesNext]_<<part, motnVars, vars>>
=============================================================================
