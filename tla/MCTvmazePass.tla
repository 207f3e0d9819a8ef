------------------------------ MODULE MCTvmazePass ------------------------------
(* Small instances of TvmazePass for TLC. *)
EXTENDS TvmazePass

CONSTANTS s1, s2, s3, w1, c1

MCShow   == {w1}
MCCaller == {c1}

(* One title opened, and a following of three series. *)
MCSeries == {s1, s2, s3}
MCTitle  == {s1}
MCGroup  == {<<s1, s2, s3>>}

(* Two series, opened or followed. *)
MCTwoSeries == {s1, s2}
MCTwoGroup  == {<<s1, s2>>}

(* TVmaze refuses nothing for good. *)
MCNone == {}
=============================================================================
