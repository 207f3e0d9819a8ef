------------------------------- MODULE MCAnswers -------------------------------
(***************************************************************************)
(* What a request is answered with (TLC): a row of JustWatch's, a selection's *)
(* titles and counts, the title search's index.  A behaviour is one part's:  *)
(* the others rest.                                                        *)
(***************************************************************************)
EXTENDS MCRowFetch, TitleExports, FilterAnswers

VARIABLES
    part      \* the part that runs

(* Six titles: two eras, a plot axis with a merged value, genres, formats,  *)
(* one of too few titles, one not offered and one of the others listed, ratings, *)
(* two titles' rows.                                                        *)
MCKind == {"decade", "tone", "genre", "format", "rating", "like"}
MCMode == [decade |-> "single", tone |-> "single", genre |-> "and", format |-> "and",
           rating |-> "single", like |-> "single"]
MCData == [decade |-> "bits", tone |-> "bits", genre |-> "bits", format |-> "entity",
           rating |-> "rating", like |-> "like"]
MCValuesOf ==
    [decade |-> <<"eighties", "nineties">>, tone |-> <<"dark", "light", "grim">>,
     genre |-> <<"crime", "drama", "war">>, format |-> <<"anime", "short", "special", "feature">>,
     rating |-> <<"six", "eight">>, like |-> <<"like2", "like5">>]

MCFilm     == {1, 2, 3, 4}
MCSeries   == {5, 6}
MCAdmitted == {1, 3, 4, 5}
MCCarries ==
    [eighties |-> {1, 4, 5}, nineties |-> {2, 6}, dark |-> {1}, light |-> {2}, grim |-> {1},
     crime |-> {1, 2, 5}, drama |-> {2, 3, 4, 5}, war |-> {2, 6}, anime |-> {1, 3}, short |-> {2, 3, 6},
     special |-> {4}, feature |-> {2, 4, 5},
     six |-> {}, eight |-> {}, like2 |-> {}, like5 |-> {}]
MCGuessed ==
    [eighties |-> {}, nineties |-> {}, dark |-> {3, 4}, light |-> {}, grim |-> {3, 4, 6},
     crime |-> {}, drama |-> {}, war |-> {}, anime |-> {}, short |-> {},
     special |-> {}, feature |-> {},
     six |-> {}, eight |-> {}, like2 |-> {}, like5 |-> {}]
MCProbability == [tone |-> <<0, 0, 60, 55, 0, 60>>]
MCLikeRow     == [like2 |-> <<6, 4, 3, 1>>, like5 |-> <<2, 1, 3, 6>>]
MCThreshold   == [six |-> 6, eight |-> 8]
MCTables      == << [t \in 1..6 |-> [votes |-> <<30, 50, 10, 40, 5, 20>>[t],
                                      score |-> <<8, 6, 5, 7, 9, 7>>[t]]] >>

MCMinTitles   == [format |-> 2]
MCOnly        == [format |-> {"anime", "short", "special"}]

MCAsker == {"one", "two"}
Items ==
    {[kind |-> x[1], exclude |-> x[2], ids |-> x[3]] : x \in {
        <<"decade", FALSE, {"eighties"}>>, <<"decade", TRUE, {"eighties"}>>,
        <<"decade", FALSE, {"eighties", "nineties"}>>,
        <<"tone", FALSE, {"dark"}>>, <<"tone", FALSE, {"grim"}>>, <<"tone", TRUE, {"dark"}>>,
        <<"genre", FALSE, {"drama"}>>, <<"genre", FALSE, {"crime", "drama"}>>,
        <<"genre", TRUE, {"crime", "drama"}>>,
        <<"format", FALSE, {"anime"}>>, <<"format", FALSE, {"anime", "special"}>>,
        <<"rating", FALSE, {"six"}>>,
        <<"like", FALSE, {"like2"}>>, <<"like", FALSE, {"like5"}>>, <<"like", TRUE, {"like2"}>>}}
Selections == {{}} \cup {{i, j} : i \in Items, j \in Items}
MCQuestion == [items : Selections, scope : {"movie", "all"}, limit : {2}]

ASSUME FilterAssumption

AnswersInit ==
    /\ part \in {"row", "filter", "titles"}
    /\ FetchInit /\ FilterInit /\ TitlesInit
    /\ part # "row" => leads = {} /\ row = [t \in Task |-> popular]
    /\ part # "filter" => request = [items |-> {}, scope |-> "all", limit |-> 2]

AnswersNext ==
    /\ UNCHANGED part
    /\ \/ part = "row" /\ FetchNext /\ UNCHANGED <<filterVars, titleVars>>
       \/ part = "filter" /\ FilterNext /\ UNCHANGED <<fetchVars, titleVars>>
       \/ part = "titles" /\ TitlesNext /\ UNCHANGED <<fetchVars, filterVars>>
       \/ part = "titles" /\ hour = MaxHour /\ UNCHANGED <<fetchVars, filterVars, titleVars>>  \* the bound

AnswersSpec == AnswersInit /\ [][AnswersNext]_<<part, fetchVars, filterVars, titleVars>>
=============================================================================
