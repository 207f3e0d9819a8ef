-------------------------------- MODULE MCKeepers --------------------------------
(***************************************************************************)
(* What atlas keeps of its upstreams (TLC): TMDB's counts and credits, the  *)
(* age ratings, the pause on an upstream, and the vectors kept on both     *)
(* sides of the embedding service.  A behaviour is one part's: the others   *)
(* rest.                                                                   *)
(***************************************************************************)
EXTENDS MCTmdbRefresh, MaturityFacts, UpstreamBackoff, EmbedMemo, EmbedCache

CONSTANTS r1, c1, c2, c3, k1, k2, k3, p1, p2, s1, s2

(* One authority with two films, another that lists one. *)
MCAuthorities == <<"kavi", "imda">>
MCRates       == <<{1, 2}, {2}>>
MCBulk        == {2}
MCRating      == {18}
MCReader      == {r1}

(* Pauses of 2, 4 and 8 units with their jitter, 1 as asked, and a day of 10. *)
MCCall        == {c1, c2, c3}
MCRetryAfters == {1, 15}

MCKey    == {k1, k2, k3}
MCPutter == {p1, p2}
MCSaver  == {s1, s2}

VARIABLE part   \* the part that runs

KeepersInit ==
    /\ part \in {"tmdb", "maturity", "backoff", "memo", "lru"}
    /\ TmdbInit /\ MaturityInit /\ BackoffInit /\ MemoInit /\ LruInit
    /\ part # "memo" => library
    /\ part # "lru" => answer = [key |-> k1, vector |-> NoVector]

KeepersNext ==
    /\ UNCHANGED part
    /\ \/ part = "tmdb" /\ TmdbNext /\ UNCHANGED <<maturityVars, backoffVars, memoVars, lruVars>>
       \/ part = "maturity" /\ MaturityNext /\ UNCHANGED <<vars, backoffVars, memoVars, lruVars>>
       \/ part = "backoff" /\ BackoffNext /\ UNCHANGED <<vars, maturityVars, memoVars, lruVars>>
       \/ part = "memo" /\ MemoNext /\ UNCHANGED <<vars, maturityVars, backoffVars, lruVars>>
       \/ part = "lru" /\ LruNext /\ UNCHANGED <<vars, maturityVars, backoffVars, memoVars>>

KeepersSpec ==
    KeepersInit /\ [][KeepersNext]_<<part, vars, maturityVars, backoffVars, memoVars, lruVars>>
=================================================================================
