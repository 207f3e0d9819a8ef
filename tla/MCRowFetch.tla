------------------------------- MODULE MCRowFetch -------------------------------
(* Small instances of RowFetch for TLC. *)
EXTENDS RowFetch, TLC

CONSTANTS t1, t2, netflix, disney, trending, popular, us

MCTask     == {t1, t2}
MCService  == {netflix, disney}
MCCountry  == {us}
MCTrending == {trending}

(* An aggregate of both services and one service's row. *)
MCRow         == {trending, popular}
MCRowServices == [r \in MCRow |-> IF r = trending THEN MCService ELSE {netflix}]
MCRowCountry  == [r \in MCRow |-> us]
MCPackages    == {{}, {disney}, MCService}

(* The aggregate alone. *)
MCOneRow         == {trending}
MCOneRowServices == [r \in MCOneRow |-> MCService]
MCOneRowCountry  == [r \in MCOneRow |-> us]

MCLed   == {popular}
MCNoLed == {}

Symmetry == Permutations(MCTask)
=============================================================================
