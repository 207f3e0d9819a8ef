----------------------------- MODULE TitleExports -----------------------------
(***************************************************************************)
(* The title search's index (titles.rs), rebuilt once a day from TMDB's two *)
(* exports of a day: today's, or yesterday's while today's are not out.  An *)
(* export that downloads waits for the other; the pass that fails is tried  *)
(* again within the hour.                                                  *)
(***************************************************************************)
EXTENDS Integers, FiniteSets

CONSTANTS
    NoIndex,
    DayHours,  \* the hours of a day, and of the wait after a build
    MaxHour    \* a bound: the hours a behaviour lasts

ASSUME TitlesAssumption == DayHours \in Nat \ {0} /\ MaxHour \in Nat

VARIABLES
    hour,
    index,       \* the days of the two exports it is built from, or none
    downloaded,  \* the exports kept, and whether each can be read
    step,        \* the pass: "asleep", at an export, or "building"
    trying,      \* the day it tries
    until,       \* the day the pass tries last, the day before its own
    wake,        \* when it is tried next
    newest       \* history: the last day an index was built of

titleVars == <<hour, index, downloaded, step, trying, until, wake, newest>>

Export == {"movies", "series"}

TitlesInit ==
    /\ hour = DayHours /\ wake = DayHours
    /\ index = NoIndex /\ downloaded = {}
    /\ step = "asleep" /\ trying = 0 /\ until = 0 /\ newest = 0

Today == hour \div DayHours

(* The pass begins: what is kept of a day no longer tried goes. *)
Refresh ==
    /\ step = "asleep" /\ hour >= wake
    /\ step' = "movies" /\ trying' = Today /\ until' = Today - 1
    /\ downloaded' = {kept \in downloaded : kept.day \in {Today, Today - 1}}
    /\ UNCHANGED <<hour, index, wake, newest>>

(* A bug: an export kept is taken whatever its day. *)
KeptOfAnyDay(export) == {kept \in downloaded : kept.export = export}

KeptFor(export) == {kept \in downloaded : kept.export = export /\ kept.day = trying}

Sleep(hours) == step' = "asleep" /\ wake' = hour + hours

(* Both exports are asked for, the second though the first failed. *)
AfterMovies == step' = "series" /\ UNCHANGED <<trying, wake>>

AfterSeries(both) ==
    \/ both /\ step' = "building" /\ UNCHANGED <<trying, wake>>
    \/ ~both /\ trying > until /\ trying' = trying - 1 /\ step' = "movies" /\ UNCHANGED wake
    \/ ~both /\ trying = until /\ Sleep(1) /\ UNCHANGED trying

After(export, got) ==
    IF export = "movies" THEN AfterMovies ELSE AfterSeries(got /\ KeptFor("movies") # {})

AlreadyKept(export) ==
    /\ step = export /\ KeptFor(export) # {}
    /\ After(export, TRUE)
    /\ UNCHANGED <<hour, index, downloaded, until, newest>>

(* A download that ends is kept as it came, read only when it is built. *)
Downloads(export) ==
    /\ step = export /\ KeptFor(export) = {}
    /\ \E readable \in BOOLEAN :
          downloaded' = downloaded \cup {[export |-> export, day |-> trying, readable |-> readable]}
    /\ After(export, TRUE)
    /\ UNCHANGED <<hour, index, until, newest>>

DownloadFails(export) ==
    /\ step = export /\ KeptFor(export) = {}
    /\ After(export, FALSE)
    /\ UNCHANGED <<hour, index, downloaded, until, newest>>

(* The index that lands replaces the one that served, and ends the wait. *)
Builds ==
    /\ step = "building"
    /\ \E movies \in KeptFor("movies"), series \in KeptFor("series") :
        /\ movies.readable /\ series.readable
        /\ index' = [movies |-> movies.day, series |-> series.day]
        /\ newest' = IF movies.day > newest THEN movies.day ELSE newest
    /\ downloaded' = {}
    /\ Sleep(DayHours)
    /\ UNCHANGED <<hour, trying, until>>

(* Neither the exports kept nor the index that serves go: the next pass builds *)
(* from the same bytes while their day is tried.                              *)
BuildFails ==
    /\ step = "building"
    /\ \E kept \in KeptFor("movies") \cup KeptFor("series") : ~kept.readable
    /\ Sleep(1)
    /\ UNCHANGED <<hour, index, downloaded, trying, until, newest>>

HoursPass ==
    /\ hour < MaxHour
    /\ hour' = hour + 1
    /\ UNCHANGED <<index, downloaded, step, trying, until, wake, newest>>

TitlesNext ==
    \/ Refresh
    \/ \E export \in Export : AlreadyKept(export) \/ Downloads(export) \/ DownloadFails(export)
    \/ Builds \/ BuildFails
    \/ HoursPass

TitlesSpec == TitlesInit /\ [][TitlesNext]_titleVars

-----------------------------------------------------------------------------
(* The index that serves is of both exports of one day, and never of an earlier *)
(* day than one that served before it, though a pass may fall back on           *)
(* yesterday's.                                                                *)
OneDayOnward == index # NoIndex => index.movies = index.series /\ index.movies = newest

(* An export waits for one that failed, or for its day to pass: a pair that can *)
(* be built is not kept, nor an export of a day no pass will try.               *)
NothingKeptInVain ==
    step = "asleep" =>
        /\ \A day \in {kept.day : kept \in downloaded} :
              \/ \E export \in Export : [export |-> export, day |-> day] \notin
                     {[export |-> kept.export, day |-> kept.day] : kept \in downloaded}
              \/ \E kept \in downloaded : kept.day = day /\ ~kept.readable
        /\ \A kept \in downloaded : kept.day \in {until, until + 1}

(* What serves and what waits, whichever downloads fail. *)
TitlesInv == OneDayOnward /\ NothingKeptInVain

-----------------------------------------------------------------------------
(* The inductive invariant behind TitlesInv.                                    *)
TitlesTypeOK ==
    /\ {hour, trying, until, wake, newest} \subseteq Int
    /\ step \in {"asleep", "movies", "series", "building"}
    /\ downloaded \subseteq [export : Export, day : Int, readable : BOOLEAN]

(* A pass that follows one that built begins on a later day: it never tries a   *)
(* day before the index's.                                                     *)
LaterDaysTried ==
    /\ (newest + 1) * DayHours <= (IF step = "asleep" THEN wake ELSE hour)
    /\ step # "asleep" => newest <= until /\ until < Today /\ trying \in {until, until + 1}

Waits(day) ==
    \/ \E export \in Export : \A kept \in downloaded : ~ (kept.export = export /\ kept.day = day)
    \/ \E kept \in downloaded : kept.day = day /\ ~ kept.readable

(* Only the pair being fetched may be there and not built.                      *)
OthersWait ==
    \A kept \in downloaded :
        /\ kept.day \in {until, until + 1}
        /\ kept.day # trying \/ step \in {"asleep", "movies"} => Waits(kept.day)

TitlesIInv == TitlesTypeOK /\ OneDayOnward /\ LaterDaysTried /\ OthersWait
=============================================================================
