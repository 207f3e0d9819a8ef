-------------------------------- MODULE MCShared --------------------------------
(***************************************************************************)
(* What requests share: the row cache with its file, and the permits of the *)
(* embedding service (TLC).  A behaviour is one part's: the other rests.    *)
(***************************************************************************)
EXTENDS MCRowCacheFile, MCEmbedProxy

VARIABLE part  \* the part that runs

SharedInit == part \in {"file", "proxy"} /\ Init /\ ProxyInit
              /\ (part = "file" => readiness = "ready")

SharedNext ==
    /\ UNCHANGED part
    /\ \/ part = "file" /\ Next /\ UNCHANGED proxyVars
       \/ part = "proxy" /\ ProxyNext /\ UNCHANGED vars

SharedSpec == SharedInit /\ [][SharedNext]_<<part, vars, proxyVars>>
=============================================================================
