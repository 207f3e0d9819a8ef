------------------------------ MODULE MCMotnPass ------------------------------
(* Small instances of MotnPass for TLC. *)
EXTENDS MotnPass

CONSTANTS netflix, hulu

MCService == {netflix, hulu}
MCNetflix == {netflix}

Top(s)   == <<"top", s>>
Added(s) == <<"added", s>>
Soon(s)  == <<"soon", s>>

(* A service whose additions come and go beside another's. *)
MCWants == {{}, {Added(netflix), Soon(netflix)},
            {Added(netflix), Added(hulu), Soon(hulu), Top(netflix)}}
MCSoon  == {{Soon(netflix)}}
=============================================================================
