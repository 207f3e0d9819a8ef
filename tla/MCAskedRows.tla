------------------------------ MODULE MCAskedRows ------------------------------
(***************************************************************************)
(* The rows kept ahead (TLC), in two parts, of which a behaviour is one.    *)
(* `ahead`: CatalogRows as it is, over two rows.  `asked`: the rows are     *)
(* fresh, so that every request is answered at once, and what is watched is *)
(* which of three rows are remembered, beside a history of the requests.    *)
(***************************************************************************)
EXTENDS MCCatalogRows

VARIABLES
    part,   \* the part that runs
    wanted  \* the rows ever asked for and not lapsed, the longest ago first

RowsInit ==
    /\ part \in {"ahead", "asked"} /\ wanted = <<>>
    /\ part = "ahead" => Init
    /\ part = "asked" =>
          StartsWith([r \in Row |-> "whole"]) /\ asked = <<>> /\ ahead = FALSE /\ due = <<>>
    /\ row = [t \in Task |-> popular]

(* ASKED_FOR is over for the first of the history, and for no other row. *)
Lapse ==
    \E n \in 0..Len(wanted) :
        /\ wanted' = SubSeq(wanted, n + 1, Len(wanted))
        /\ asked' = SelectSeq(asked, LAMBDA r : r \in ToSet(wanted'))

RowsNext ==
    /\ UNCHANGED part
    /\ \/ part = "ahead" /\ Next /\ UNCHANGED wanted /\ \A t \in Task : row'[t] \in MCRow
       \/ /\ part = "asked"
          /\ \E t \in Task, r \in Row :
                /\ Request(t, r)
                /\ wanted' = IF ahead THEN Append(SelectSeq(wanted, LAMBDA q : q # r), r)
                             ELSE wanted
       \/ part = "asked" /\ StartPass /\ Lapse

(* Of the fair actions only StartPass is ever enabled in `asked`. *)
RowsSpec == RowsInit /\ [][RowsNext]_<<part, vars, wanted>> /\ Fairness /\ Recovers

(* note_asked, over any requests, again and again and past the cap: the rows *)
(* remembered are the last ones asked for, as many as there is room for.     *)
LastAskedKept == part = "asked" =>
    LET room == IF Len(wanted) < MaxAsked THEN Len(wanted) ELSE MaxAsked
    IN  asked = SubSeq(wanted, Len(wanted) - room + 1, Len(wanted))
=============================================================================
