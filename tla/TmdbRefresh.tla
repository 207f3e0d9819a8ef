------------------------------ MODULE TmdbRefresh ------------------------------
(* The daily refresh of TMDB's vote counts and credits (tmdb.rs).  Once a   *)
(* day a tick drops what is past six months, asks the changes feed, carries *)
(* a sweep of discover's pages on, fills in the counts no sweep brought and *)
(* asks for credits, until the day's budget is spent or an answer says to   *)
(* stop.  It then writes three files, each beside and renamed over, and     *)
(* rebuilds the two indexes.  The credits live in their file between ticks. *)
(*                                                                          *)
(* A tick starts a day after the last one at the earliest, so what it may   *)
(* find already spent of its own day is nothing, and `spent` is left out.   *)
(* A boot's two loads are one step: the refresh gives them a head start.    *)
EXTENDS Integers, FiniteSets, Sequences, SequencesExt

CONSTANTS
    Corpus,      \* the titles of the store: numbers, in the order of their keys
    Listed,      \* the titles discover lists at the sweep's floor
    Known,       \* the titles TMDB has a record of
    MediaOf, DateOf,   \* 0 for a film and 1 for a series; 0 for no date
    Seed,        \* the titles a first boot's seed has credits for
    LastDate,    \* a sweep's slices run over dates 1..LastDate
    PageSize, PageCap, DailyMax,
    SweepEvery, FillAfter, MaxAge, RollDays,   \* in days
    AnswerAge,   \* how many days an answer the proxy kept may be old
    MaxDay, MaxMishaps    \* bounds of the model

Title == Corpus \cup Listed

TmdbAssumption ==
    /\ Corpus \subseteq Nat /\ Listed \subseteq Nat /\ IsFiniteSet(Title)
    /\ Seed \subseteq Corpus /\ Known \subseteq Corpus /\ Listed \cap Corpus \subseteq Known
    /\ MediaOf \in [Title -> {0, 1}] /\ DateOf \in [Title -> 0..LastDate]
    /\ {LastDate, PageSize, PageCap, DailyMax, SweepEvery, FillAfter, MaxAge, RollDays, MaxDay}
         \subseteq Nat \ {0}
    /\ {AnswerAge, MaxMishaps} \subseteq Nat
    /\ AnswerAge < FillAfter /\ AnswerAge < MaxAge
ASSUME TmdbAssumption

VARIABLES
    votes, credits,   \* Kept: the day each title's were fetched, 0 for none
    credits_on_disk,
    state,     \* State: [last_tick, sweep_started, slices], and `whole`, which no code keeps:
               \* no slice of the sweep was given up as gone
    disk,      \* the three files: [votes, credits, state]
    ratings, links,   \* what the indexes in use were built from
    phase,     \* where the tick is
    due,       \* the questions the phase has left: titles, or media for the changes feed
    changed, rolling,
    budget,    \* [left, stopped]
    again,     \* the question's answers that were not taken: [failures, stale_asks]
    day, mishaps,
    credited,  \* history: the credits answers and files have brought and nothing took away
    panicked   \* history: the tick's writer panicked

kept      == <<votes, credits, credits_on_disk>>
indexes   == <<ratings, links>>
questions == <<due, changed, rolling>>
vars == <<kept, state, disk, indexes, phase, questions, budget, again, day, mishaps, credited,
          panicked>>

None   == [t \in Corpus |-> 0]
Dates  == [Corpus -> 0..MaxDay]
Media  == <<0, 1>>
Slice  == [media : {0, 1}, from : 1..LastDate, to : 1..LastDate, page : 1..PageCap]
State  == [last_tick : 0..MaxDay, sweep_started : 0..MaxDay, slices : Seq(Slice), whole : BOOLEAN]
Phase  == {"rest", "changes", "changed", "sweep", "fill", "missing", "rolling",
           "write votes", "write credits", "write state", "written", "not written"}

CountsTypeOK == /\ votes \in Dates /\ credits \in Dates /\ credited \in Dates
                /\ ratings \in Dates /\ links \in Dates

FilesTypeOK == state \in State /\ disk \in [votes : Dates, credits : Dates, state : State]

TickTypeOK == /\ phase \in Phase /\ credits_on_disk \in BOOLEAN /\ panicked \in BOOLEAN
              /\ due \subseteq Corpus \cup {0, 1} /\ changed \subseteq Corpus
              /\ rolling \subseteq Corpus

AskTypeOK == /\ budget \in [left : 0..DailyMax, stopped : BOOLEAN]
             /\ again \in [failures : 0..1, stale_asks : 0..2]
             /\ day \in 1..MaxDay /\ mishaps \in 0..MaxMishaps

TypeOK == CountsTypeOK /\ FilesTypeOK /\ TickTypeOK /\ AskTypeOK

-----------------------------------------------------------------------------
(* Whether what was fetched then may still be used now.                    *)
IsFresh(fetched, now) == fetched + MaxAge > now

Unexpired(dates, now) == [t \in Corpus |-> IF IsFresh(dates[t], now) THEN dates[t] ELSE 0]

(* Once nothing more is asked, what is left of the budget is for the log.  *)
Spent(stopped) == [left |-> 0, stopped |-> stopped]

NoneAgain == [failures |-> 0, stale_asks |-> 0]

NoState == [last_tick |-> 0, sweep_started |-> 0, slices |-> <<>>, whole |-> TRUE]

(* A first boot over a seed of credits.                                     *)
TmdbInit ==
    /\ day = 1 /\ mishaps = 0
    /\ votes = None /\ credits = None /\ credits_on_disk = TRUE
    /\ state = NoState
    /\ disk = [votes |-> None, state |-> NoState,
               credits |-> [t \in Corpus |-> IF t \in Seed THEN 1 ELSE 0]]
    /\ ratings = None /\ links = disk.credits
    /\ phase = "rest" /\ due = {} /\ changed = {} /\ rolling = {}
    /\ budget = Spent(TRUE) /\ again = NoneAgain
    /\ credited = disk.credits /\ panicked = FALSE

-----------------------------------------------------------------------------
(* The tick begins.  The credits are read back whatever their age, and only *)
(* then is everything past six months dropped.                              *)
Tick ==
    /\ phase = "rest" /\ day > state.last_tick
    /\ state' = [state EXCEPT !.last_tick = day]
    /\ votes' = Unexpired(votes, day)
    /\ credits' = Unexpired(IF credits_on_disk THEN disk.credits ELSE credits, day)
    /\ credits_on_disk' = FALSE
    /\ credited' = Unexpired(credited, day)
    /\ budget' = [left |-> DailyMax, stopped |-> FALSE]
    /\ phase' = "changes" /\ due' = {0, 1} /\ changed' = {} /\ panicked' = FALSE
    /\ UNCHANGED <<disk, indexes, rolling, again, day, mishaps>>

(* A question is asked while the phase has one and nothing said to stop.   *)
Asking ==
    /\ ~ budget.stopped
    /\ IF phase = "sweep" THEN state.slices # <<>> ELSE due # {}

Paid      == [budget EXCEPT !.left = @ - 1]

(* An answer that is not taken: a first failure, or one of the proxy's     *)
(* stale ones, which is asked for again twice.  Each costs a question.     *)
AskAgain ==
    /\ Asking /\ budget.left > 0 /\ mishaps < MaxMishaps /\ mishaps' = mishaps + 1
    /\ \/ again.failures = 0 /\ again' = [again EXCEPT !.failures = 1]
       \/ again.stale_asks < 2 /\ again' = [again EXCEPT !.stale_asks = @ + 1]
    /\ budget' = Paid
    /\ UNCHANGED <<kept, state, disk, indexes, phase, questions, day, credited, panicked>>

(* The budget is spent, or an answer says to stop for today.               *)
StopAsking ==
    /\ Asking
    /\ budget' = Spent(TRUE)
    /\ again' = NoneAgain
    /\ UNCHANGED <<kept, state, disk, indexes, phase, questions, day, mishaps, credited, panicked>>

Answered == /\ Asking /\ budget.left > 0
            /\ budget' = Paid /\ again' = NoneAgain
            /\ UNCHANGED <<credits_on_disk, disk, indexes, phase, rolling, day, panicked>>

AnswerDay == {d \in 1..day : d + AnswerAge >= day}

(* The phase's next title: the oldest first where its list is sorted so.   *)
Turn(t) == CASE phase = "fill" -> votes[t] [] phase = "rolling" -> credits[t] [] OTHER -> 0

NextTitle == CHOOSE t \in due : \A u \in due : Turn(t) < Turn(u) \/ (Turn(t) = Turn(u) /\ t <= u)

ChangesAnswer ==
    /\ phase = "changes" /\ Answered
    /\ LET media == CHOOSE m \in due : \A n \in due : m <= n IN
         /\ due' = due \ {media}
         /\ \E named \in SUBSET {t \in Known : MediaOf[t] = media} : changed' = changed \cup named
    /\ UNCHANGED <<votes, credits, state, credited, mishaps>>

CreditsAnswer ==
    /\ phase \in {"changed", "missing", "rolling"} /\ Answered
    /\ due' = due \ {NextTitle}
    /\ \E d \in IF NextTitle \in Known THEN AnswerDay ELSE {0} :
         /\ credits' = [credits EXCEPT ![NextTitle] = d]
         /\ credited' = [credited EXCEPT ![NextTitle] = d]
    /\ UNCHANGED <<votes, state, changed, mishaps>>

(* A title with no votes by then, or no record, loses what was kept.       *)
FillAnswer ==
    /\ phase = "fill" /\ Answered
    /\ due' = due \ {NextTitle}
    /\ \E d \in (IF NextTitle \in Known THEN AnswerDay ELSE {})
                  \cup (IF NextTitle \in Listed THEN {} ELSE {0}) :
         votes' = [votes EXCEPT ![NextTitle] = d]
    /\ UNCHANGED <<credits, state, changed, credited, mishaps>>

-----------------------------------------------------------------------------
(* Discover's answer for a slice: its titles by date, a page at a time.    *)
Earlier(t, u) == DateOf[t] < DateOf[u] \/ (DateOf[t] = DateOf[u] /\ t < u)

Within(s) == {t \in Listed : MediaOf[t] = s.media /\ DateOf[t] \in s.from..s.to}

PageOf(t, s) == Cardinality({u \in Within(s) : Earlier(u, t)}) \div PageSize + 1

Pages(s) == (Cardinality(Within(s)) + PageSize - 1) \div PageSize

NewSweep == [i \in 1..2 |-> [media |-> Media[i], from |-> 1, to |-> LastDate, page |-> 1]]

(* What is left of a slice after its page was answered: a range discover   *)
(* would cap is halved, the last page ends it.                             *)
Carried(s) ==
    LET mid == s.from + (s.to - s.from) \div 2 IN
    IF s.page = 1 /\ Pages(s) > PageCap /\ s.from < s.to
    THEN <<[s EXCEPT !.to = mid], [s EXCEPT !.from = mid + 1]>>
    ELSE IF s.page >= (IF Pages(s) < PageCap THEN Pages(s) ELSE PageCap) THEN <<>>
    ELSE <<[s EXCEPT !.page = @ + 1]>>

PageAnswer ==
    /\ phase = "sweep" /\ Answered
    /\ LET slice == Head(state.slices) IN
         /\ state' = [state EXCEPT !.slices = Carried(slice) \o Tail(@)]
         /\ \E d \in AnswerDay :
              votes' = [t \in Corpus |-> IF t \in Within(slice) /\ PageOf(t, slice) = slice.page
                                         THEN d ELSE votes[t]]
    /\ UNCHANGED <<credits, due, changed, credited, mishaps>>

PageGone ==
    /\ phase = "sweep" /\ Answered /\ mishaps < MaxMishaps /\ mishaps' = mishaps + 1
    /\ state' = [state EXCEPT !.slices = Tail(@), !.whole = FALSE]
    /\ UNCHANGED <<votes, credits, due, changed, credited>>

-----------------------------------------------------------------------------
(* From one phase to the next, with nothing to ask or a word to stop.      *)
Turned(from, to) ==
    /\ phase = from /\ ~ Asking /\ phase' = to
    /\ budget' = IF to = "write votes" THEN Spent(budget.stopped) ELSE budget
    /\ UNCHANGED <<kept, disk, indexes, again, day, mishaps, credited, panicked>>

ToChanged ==
    /\ Turned("changes", "changed")
    /\ due' = changed /\ UNCHANGED <<state, changed, rolling>>

(* A sweep's slices are made even when nothing more is asked today.        *)
ToSweep ==
    /\ Turned("changed", "sweep")
    /\ due' = {} /\ UNCHANGED <<changed, rolling>>
    /\ state' = IF \/ state.slices # <<>>
                   \/ state.sweep_started # 0 /\ state.last_tick < state.sweep_started + SweepEvery
                THEN state
                ELSE [state EXCEPT !.sweep_started = state.last_tick,
                                   !.slices = NewSweep, !.whole = TRUE]

Unfilled == {t \in Corpus : votes[t] = 0 \/ votes[t] + FillAfter <= state.last_tick}

(* Titles are asked for one by one while no sweep is under way.            *)
ToFill ==
    /\ Turned("sweep", "fill")
    /\ due' = IF state.slices = <<>> THEN Unfilled ELSE {}
    /\ UNCHANGED <<state, changed, rolling>>

(* A day's share of the titles with credits, the oldest first.             *)
Oldest ==
    LET older(t, u) == credits[t] < credits[u] \/ (credits[t] = credits[u] /\ t < u)
        share == (Cardinality(Corpus) + RollDays - 1) \div RollDays
    IN {t \in Corpus : credits[t] # 0
          /\ Cardinality({u \in Corpus : credits[u] # 0 /\ older(u, t)}) < share}

ToMissing ==
    /\ Turned("fill", "missing")
    /\ due' = {t \in Corpus : credits[t] = 0} /\ rolling' = Oldest
    /\ UNCHANGED <<state, changed>>

ToRolling ==
    /\ Turned("missing", "rolling")
    /\ due' = rolling /\ rolling' = {} /\ changed' = {} /\ UNCHANGED state

ToPersist ==
    /\ Turned("rolling", "write votes")
    /\ due' = {} /\ UNCHANGED <<state, changed, rolling>>

-----------------------------------------------------------------------------
(* persist(): the votes, then the credits, then the state.  The writer      *)
(* holds the credits meanwhile: nothing else reads them.                    *)
Writing == phase \in {"write votes", "write credits", "write state"}

Written(from, to) ==
    /\ phase = from /\ phase' = to
    /\ UNCHANGED <<kept, state, indexes, questions, budget, again, day, mishaps, credited, panicked>>

(* A bug: the state is written first.                                      *)
WriteStateFirst == /\ Written("write votes", "write credits")
                   /\ disk' = [disk EXCEPT !.state = state]

WriteVotes == /\ Written("write votes", "write credits")
              /\ disk' = [disk EXCEPT !.votes = votes]

WriteCredits == /\ Written("write credits", "write state")
                /\ disk' = [disk EXCEPT !.credits = credits]

WriteState == /\ Written("write state", "written")
              /\ disk' = [disk EXCEPT !.state = state]

(* A full or read-only filesystem: what was written before stays.          *)
WriteFails ==
    /\ Writing /\ phase' = "not written"
    /\ UNCHANGED <<kept, state, disk, indexes, questions, budget, again, day, mishaps, credited,
                   panicked>>

(* The writer panics and takes the credits with it: the file's are read    *)
(* back.                                                                   *)
WriterPanics ==
    /\ Writing /\ mishaps < MaxMishaps /\ mishaps' = mishaps + 1
    /\ phase' = "not written"
    /\ credits' = None /\ credits_on_disk' = TRUE
    /\ credited' = disk.credits /\ panicked' = TRUE
    /\ UNCHANGED <<votes, state, disk, indexes, questions, budget, again, day>>

(* rebuild(): both indexes from what is kept.  The credits leave memory     *)
(* once they are in their file.                                             *)
Rebuild ==
    /\ phase \in {"written", "not written"} /\ phase' = "rest"
    /\ ratings' = votes /\ links' = (IF credits_on_disk THEN disk.credits ELSE credits)
    /\ credits_on_disk' = (phase = "written")
    /\ credits' = IF phase = "written" THEN None ELSE links'
    /\ UNCHANGED <<votes, state, disk, questions, budget, again, day, mishaps, credited, panicked>>

-----------------------------------------------------------------------------
(* The process stops anywhere and boots from its files: load_votes, then   *)
(* load_characters.                                                        *)
Restart ==
    /\ mishaps < MaxMishaps /\ mishaps' = mishaps + 1
    /\ votes' = Unexpired(disk.votes, day) /\ ratings' = votes'
    /\ credits' = None /\ credits_on_disk' = TRUE /\ credited' = disk.credits
    /\ links' = Unexpired(disk.credits, day)
    /\ state' = disk.state
    /\ phase' = "rest" /\ due' = {} /\ changed' = {} /\ rolling' = {}
    /\ budget' = Spent(TRUE) /\ again' = NoneAgain /\ panicked' = FALSE
    /\ UNCHANGED <<disk, day>>

(* Time passes, in a tick or between two.                                  *)
NextDay ==
    /\ day < MaxDay /\ day' = day + 1
    /\ UNCHANGED <<kept, state, disk, indexes, phase, questions, budget, again, mishaps, credited,
                   panicked>>

TmdbNext ==
    \/ Tick \/ AskAgain \/ StopAsking
    \/ ChangesAnswer \/ CreditsAnswer \/ FillAnswer \/ PageAnswer \/ PageGone
    \/ ToChanged \/ ToSweep \/ ToFill \/ ToMissing \/ ToRolling \/ ToPersist
    \/ WriteVotes \/ WriteCredits \/ WriteState \/ WriteFails \/ WriterPanics
    \/ Rebuild \/ Restart \/ NextDay

TmdbSpec == TmdbInit /\ [][TmdbNext]_vars

-----------------------------------------------------------------------------
(* Discover lists the title within the pages a slice of its one day has.   *)
Reachable(t) == DateOf[t] # 0
    /\ PageOf(t, [media |-> MediaOf[t], from |-> DateOf[t], to |-> DateOf[t], page |-> 1]) <= PageCap

Ahead(st, t) == \E i \in DOMAIN st.slices :
    t \in Within(st.slices[i]) /\ PageOf(t, st.slices[i]) >= st.slices[i].page

(* Each title discover lists is ahead of the sweep or has a count the sweep *)
(* brought, until that is six months old.                                   *)
Covered(st, v, now) == st.whole /\ st.sweep_started # 0 =>
    \A t \in Corpus \cap Listed : Reachable(t) /\ ~ Ahead(st, t) =>
        v[t] + AnswerAge >= st.sweep_started \/ ~ IsFresh(st.sweep_started, now + AnswerAge)

(* "sliced by release or first air date so no slice passes discover's       *)
(* 500-page cap": no title falls between two slices, two pages or two days  *)
(* of asking.                                                               *)
SweepCovers == Covered(state, votes, day)

(* A crash between two of the three files never leaves a state that counts  *)
(* a page as asked whose votes were not kept.                               *)
FilesCover == Covered(disk.state, disk.votes, day)

(* Credits are in memory or in their file, and those are the ones that were *)
(* answered: a failed write or a rebuild loses none, and a panic only what  *)
(* it had not written.                                                      *)
CreditsKept == (IF credits_on_disk THEN disk.credits ELSE credits) = credited

(* "Every kept value [...] is dropped MAX_AGE (180 days) after it": after a *)
(* tick the indexes hold nothing older, unless its writer panicked and the  *)
(* credits were read back after the rest had been dropped.                  *)
NothingOldUsed == phase = "rest" /\ ~ panicked =>
    \A t \in Corpus : \A fetched \in {ratings[t], links[t]} :
        fetched = 0 \/ IsFresh(fetched, state.last_tick)

(* A tick nothing stopped leaves no listed title without a recent count and *)
(* no title TMDB knows without credits.                                     *)
FullTick == phase = "rest" /\ ~ budget.stopped /\ ~ panicked => \A t \in Corpus :
    /\ t \in Listed => votes[t] + FillAfter > state.last_tick
    /\ t \in Known => links[t] # 0

(* What a tick leaves behind, wherever it was stopped, also after a crash.   *)
TmdbInv == TypeOK /\ SweepCovers /\ FilesCover /\ CreditsKept /\ NothingOldUsed /\ FullTick

-----------------------------------------------------------------------------
(* The inductive invariant behind TmdbInv.                                  *)

(* A slice past its first page is one discover does not cap, or of one day. *)
SliceSound(s)   == s.page = 1 \/ Pages(s) <= PageCap \/ s.from >= s.to
SlicesSound(st) == \A i \in DOMAIN st.slices : SliceSound(st.slices[i])

(* The votes in use are never behind those a state, or its file, counts on. *)
StatesCovered ==
    /\ Covered(state, votes, day)
    /\ Covered(disk.state, votes, day) /\ Covered(disk.state, disk.votes, day)
    /\ SlicesSound(state) /\ SlicesSound(disk.state)
    /\ state.last_tick <= day /\ disk.state.last_tick <= day
    /\ state.sweep_started <= day /\ disk.state.sweep_started <= day

WrittenInOrder ==
    /\ phase \in {"write credits", "write state"} => disk.votes = votes
    /\ phase \in {"write state", "written"} => disk.credits = credits

(* A tick has the credits in memory, but after a panic.                     *)
CreditsHeld ==
    /\ CreditsKept
    /\ phase # "rest" => credits_on_disk = panicked
    /\ panicked => phase \in {"not written", "rest"}

IsRecent(fetched, tick) == fetched = 0 \/ IsFresh(fetched, tick)

NothingOldHeld ==
    /\ phase # "rest" => \A t \in Corpus :
         /\ IsRecent(votes[t], state.last_tick)
         /\ panicked \/ IsRecent(credits[t], state.last_tick)
    /\ NothingOldUsed

BeforeFill    == {"changes", "changed", "sweep"}
BeforeMissing == BeforeFill \cup {"fill"}

(* What a question not asked yet will bring, or did.                        *)
TickFills == ~ budget.stopped => \A t \in Corpus :
    /\ t \in Listed /\ phase \notin BeforeFill =>
         votes[t] + FillAfter > state.last_tick \/ (phase = "fill" /\ t \in due)
    /\ t \in Known /\ phase \notin BeforeMissing /\ ~ panicked =>
         (IF phase = "rest" THEN links[t] ELSE credits[t]) # 0 \/ (phase = "missing" /\ t \in due)

TmdbIInv ==
    /\ TypeOK /\ StatesCovered /\ WrittenInOrder /\ CreditsHeld /\ NothingOldHeld /\ TickFills
=============================================================================
