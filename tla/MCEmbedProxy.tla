------------------------------- MODULE MCEmbedProxy -------------------------------
(* A small instance of EmbedProxy for TLC. *)
EXTENDS EmbedProxy

CONSTANTS e1, s1, r1

MCPost   == {e1}
MCSearch == {s1}
MCRank   == {r1}
=============================================================================
