----------------------------- MODULE MCTmdbRefresh -----------------------------
(* A small instance of TmdbRefresh for TLC. *)
EXTENDS TmdbRefresh

(* Discover lists films 1 and 2 on the first of two days and 3 on the       *)
(* second, more pages than it serves of one range.  The store has film 2    *)
(* and film 4, which has no date and which TMDB has no record of.           *)
MCCorpus == {2, 4}
MCListed == {1, 2, 3}
MCKnown  == {2}
MCMedia  == [t \in 1..4 |-> 0]
MCDates  == [t \in 1..4 |-> <<1, 1, 2, 0>>[t]]
=============================================================================
