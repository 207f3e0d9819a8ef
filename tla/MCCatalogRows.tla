----------------------------- MODULE MCCatalogRows -----------------------------
(* Small instances of CatalogRows for TLC. *)
EXTENDS CatalogRows

CONSTANTS t1, netflix, disney, popular, added, other, us

MCTask     == {t1, Refresher}
MCCountry  == {us}
MCNoRow    == {}
MCAggregate == {popular}
MCPackages == {{netflix}}

(* Two rows of the one service there is; one fans out as an aggregate does. *)
MCService         == {netflix}
MCRow             == {popular, added}
MCRowServices     == [r \in MCRow |-> MCService]
MCRowCountry      == [r \in MCRow |-> us]

(* One more than are remembered. *)
MCThreeRows       == {popular, added, other}
MCThreeServices   == [r \in MCThreeRows |-> MCService]
MCThreeCountry    == [r \in MCThreeRows |-> us]

(* One of them, and a row of a service the country lacks. *)
MCTwoServices     == {netflix, disney}
MCLacking         == {popular, other}
MCLackingServices == [r \in MCLacking |-> IF r = other THEN {disney} ELSE MCService]
MCLackingCountry  == [r \in MCLacking |-> us]
=============================================================================
