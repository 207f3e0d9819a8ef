------------------------------ MODULE MaturityFacts ------------------------------
(* Authorities' age ratings (maturity_providers.rs): one task goes round the *)
(* catalogue of each authority in turn, a title at a time and as far as the *)
(* day's budget goes, publishes what changed as one view under a new        *)
(* generation, and writes the cache file.  Requests meanwhile evaluate a    *)
(* policy over the view they took, and keep the result in a memo under that *)
(* view's generation (queries.rs, admission).                               *)
EXTENDS Naturals, Sequences, FiniteSets

CONSTANTS
    Authorities,        \* a sequence: the configured ones, in order
    Catalog,            \* a title for each of 1..Catalog
    Rates,              \* the titles of the media types each authority rates
    Bulk,               \* the authorities that publish one list, asked for once
    Rating, Unrated,    \* what an authority says of a title, Unrated when nothing
    Reader,
    DailyBudget, RefreshAfter, MemoCap,
    LastDay, MaxGeneration, MaxTroubles    \* bounds of the model

VARIABLES
    entries,   \* per authority and title: [checked_at, ratings], day 0 for no entry
    cursor, spent, spent_on,   \* per authority, and the day of `spent`
    view,      \* the published [generation, facts]
    unsaved, facts_file,   \* `dirty`, and the cache file
    turn,      \* the authority being refreshed; 0 between two rounds
    started, left, visited, altered,   \* refresh()'s locals
    memo,      \* admission: generation -> the facts it was worked out from
    snapshot,  \* per request: the view it took, or Unrated
    published, \* history: the facts of each generation of this process
    today, troubles   \* a refresh's `now` is the day it began

refreshVars == <<started, left, visited, altered>>
stateVars   == <<entries, cursor, spent, spent_on>>
readVars    == <<memo, snapshot>>
maturityVars == <<stateVars, view, unsaved, facts_file, turn, refreshVars, readVars, published, today, troubles>>

Authority == DOMAIN Authorities
Titles     == 1..Catalog

(* Nothing is refreshed where the store has no titles.                     *)
ASSUME MaturityAssumption ==
    /\ Authorities \in Seq(STRING)
    /\ Catalog \in Nat \ {0} /\ DailyBudget \in Nat /\ RefreshAfter \in Nat \ {0}
    /\ \A a \in Authority : Rates[a] \subseteq Titles

NoEntry   == [checked_at |-> 0, ratings |-> Unrated]
NoEntries == [a \in Authority |-> [t \in Titles |-> NoEntry]]
Zeroes    == [a \in Authority |-> 0]

(* build_view                                                              *)
Facts(cached) == [a \in Authority |-> [t \in Titles |-> cached[a][t].ratings]]

MaturityInit ==
    /\ entries = NoEntries /\ cursor = Zeroes /\ spent = Zeroes /\ spent_on = Zeroes
    /\ facts_file = [entries |-> NoEntries, cursor |-> Zeroes, spent |-> Zeroes, spent_on |-> Zeroes]
    /\ view = [generation |-> 1, facts |-> Facts(NoEntries)] /\ published = <<view.facts>>
    /\ unsaved = FALSE /\ turn = 0 /\ started = FALSE /\ left = 0 /\ visited = 0 /\ altered = FALSE
    /\ memo = [g \in 1..MaxGeneration |-> Unrated] /\ snapshot = [r \in Reader |-> Unrated]
    /\ today = 1 /\ troubles = 0

-----------------------------------------------------------------------------
(* refresh(): of the next authority, with what is left of its day.         *)
Begin ==
    /\ turn \in Authority /\ ~ started /\ started' = TRUE
    /\ spent_on' = [spent_on EXCEPT ![turn] = today]
    /\ spent' = [spent EXCEPT ![turn] = IF spent_on[turn] = today THEN @ ELSE 0]
    /\ left' = DailyBudget - spent'[turn] /\ visited' = 0 /\ altered' = FALSE
    /\ UNCHANGED <<entries, cursor, view, unsaved, facts_file, turn, readVars, published, today, troubles>>

Here == cursor[turn] + 1

(* Whether a bulk authority has its list in memory is left open.           *)
Looking == started /\ visited < Catalog /\ (left > 0 \/ turn \in Bulk)

Advanced == [cursor EXCEPT ![turn] = (@ + 1) % Catalog]

(* A title of another media type, or one checked lately.                   *)
PassedOver == Here \notin Rates[turn]
    \/ (entries[turn][Here].checked_at # 0 /\ entries[turn][Here].checked_at + RefreshAfter > today)

Pass ==
    /\ Looking /\ PassedOver
    /\ cursor' = Advanced /\ visited' = visited + 1
    /\ UNCHANGED <<entries, spent, spent_on, view, unsaved, facts_file, turn, started, left, altered,
                   readVars, published, today, troubles>>

(* An answer, from as many requests as it takes.  Only one that differs is  *)
(* a change.                                                               *)
Complete ==
    /\ Looking /\ ~ PassedOver /\ left' \in 0..left
    /\ \E ratings \in Rating \cup {Unrated} :
         LET old == entries[turn][Here]
             new == old.checked_at = 0 \/ old.ratings # ratings
         IN /\ entries' = [entries EXCEPT ![turn][Here] = [checked_at |-> today, ratings |-> ratings]]
            /\ altered' = (altered \/ new)
            /\ new => view.generation < MaxGeneration
    /\ unsaved' = TRUE /\ cursor' = Advanced /\ visited' = visited + 1
    /\ UNCHANGED <<spent, spent_on, view, facts_file, turn, started, readVars, published, today, troubles>>

(* finish_refresh(): what changed is published as one view.                *)
Finish(rest) ==
    /\ spent' = [spent EXCEPT ![turn] = DailyBudget - rest]
    /\ IF altered
       THEN /\ view' = [generation |-> view.generation + 1, facts |-> Facts(entries)]
            /\ published' = Append(published, view'.facts)
       ELSE UNCHANGED <<view, published>>
    /\ unsaved' = (unsaved \/ spent'[turn] # spent[turn])
    /\ started' = FALSE /\ left' = 0 /\ visited' = 0 /\ altered' = FALSE
    /\ turn' = turn + 1
    /\ UNCHANGED <<entries, cursor, spent_on, facts_file, readVars, today, troubles>>

(* The round is over, or the day's budget.                                 *)
Finished == started /\ (visited = Catalog \/ left = 0) /\ Finish(left)

(* A lookup that fails, or is put off, ends the refresh at its title with   *)
(* what was found before.                                                  *)
Stops == Looking /\ ~ PassedOver /\ \E rest \in 0..left : Finish(rest)

(* Round again, an hour later or on another day.                           *)
NextRound ==
    /\ turn = 0 /\ turn' = 1 /\ \E d \in {today, today + 1} \cap 1..LastDay : today' = d
    /\ UNCHANGED <<stateVars, view, unsaved, facts_file, refreshVars, readVars, published, troubles>>

Saved == [entries |-> entries, cursor |-> cursor, spent |-> spent, spent_on |-> spent_on]

(* persist_if_dirty(), once every authority had its turn.                  *)
Persist ==
    /\ turn > Len(Authorities) /\ turn' = 0
    /\ \/ ~ unsaved /\ UNCHANGED <<unsaved, facts_file, troubles>>
       \/ unsaved /\ unsaved' = FALSE /\ facts_file' = Saved /\ UNCHANGED troubles
       \/ unsaved /\ troubles < MaxTroubles /\ troubles' = troubles + 1 /\ UNCHANGED <<unsaved, facts_file>>
    /\ UNCHANGED <<stateVars, view, refreshVars, readVars, published, today>>

(* The process starts from the file, its generations from the first.       *)
StartsOver ==
    /\ troubles < MaxTroubles /\ troubles' = troubles + 1
    /\ entries' = facts_file.entries /\ cursor' = facts_file.cursor
    /\ spent' = facts_file.spent /\ spent_on' = facts_file.spent_on
    /\ view' = [generation |-> 1, facts |-> Facts(facts_file.entries)] /\ published' = <<view'.facts>>
    /\ unsaved' = FALSE /\ turn' = 0 /\ started' = FALSE /\ left' = 0 /\ visited' = 0 /\ altered' = FALSE
    /\ memo' = [g \in 1..MaxGeneration |-> Unrated] /\ snapshot' = [r \in Reader |-> Unrated]
    /\ UNCHANGED <<facts_file, today>>

-----------------------------------------------------------------------------
(* A request takes the view there is; a hit in the memo ends it here.      *)
Read(r) ==
    /\ snapshot[r] = Unrated /\ memo[view.generation] = Unrated
    /\ snapshot' = [snapshot EXCEPT ![r] = view]
    /\ UNCHANGED <<stateVars, view, unsaved, facts_file, turn, refreshVars, memo, published, today, troubles>>

Kept(g, facts) ==
    LET full == Cardinality({h \in DOMAIN memo : memo[h] # Unrated}) >= MemoCap
    IN [h \in DOMAIN memo |-> IF h = g THEN facts ELSE IF full THEN Unrated ELSE memo[h]]

(* A bug: the memo's key is the generation at the time of storing.         *)
AdmitLive(r) ==
    /\ snapshot[r] # Unrated /\ snapshot' = [snapshot EXCEPT ![r] = Unrated]
    /\ memo' = Kept(view.generation, snapshot[r].facts)
    /\ UNCHANGED <<stateVars, view, unsaved, facts_file, turn, refreshVars, published, today, troubles>>

(* memoised(): the policy, evaluated over the snapshot, is kept for its     *)
(* generation; a full memo starts over.                                    *)
Admit(r) ==
    /\ snapshot[r] # Unrated /\ snapshot' = [snapshot EXCEPT ![r] = Unrated]
    /\ memo' = Kept(snapshot[r].generation, snapshot[r].facts)
    /\ UNCHANGED <<stateVars, view, unsaved, facts_file, turn, refreshVars, published, today, troubles>>

MaturityNext ==
    \/ NextRound \/ Begin \/ Pass \/ Complete \/ Finished \/ Stops \/ Persist \/ StartsOver
    \/ \E r \in Reader : Read(r) \/ Admit(r)

MaturitySpec == MaturityInit /\ [][MaturityNext]_maturityVars

-----------------------------------------------------------------------------
(* "Keeping this value through memo lookup, work, and insertion prevents a  *)
(* refresh from changing either facts or generation halfway": what is kept  *)
(* under a generation is that generation's.                                *)
MemoTrue == \A g \in 1..MaxGeneration : memo[g] # Unrated =>
    g \in DOMAIN published /\ memo[g] = published[g]

(* Between two refreshes the view shows every rating that is kept, also     *)
(* those found before a lookup failed.                                     *)
AllPublished == ~ started => view.facts = Facts(entries)

ChargesFiled == \A a \in Authority : spent[a] # 0 =>
    facts_file.spent[a] = spent[a] /\ facts_file.spent_on[a] = spent_on[a]

(* Between two rounds the file holds every entry and what each day's lookups *)
(* cost, the failed ones' too, or will be written.                         *)
KeptOrDirty == turn = 0 => (facts_file.entries = entries /\ ChargesFiled) \/ unsaved

(* A refresh that went all the way round left no title of the authority's   *)
(* unchecked, wherever it began.                                           *)
RoundCovers == started /\ visited = Catalog => \A t \in Rates[turn] :
    entries[turn][t].checked_at # 0 /\ entries[turn][t].checked_at + RefreshAfter > today

(* However refreshes, requests, writes and restarts interleave.             *)
MaturityInv == MemoTrue /\ AllPublished /\ KeptOrDirty /\ RoundCovers

-----------------------------------------------------------------------------
(* The inductive invariant behind MaturityInv.                              *)
Told    == [Authority -> [Titles -> Rating \cup {Unrated}]]
Entries == [Authority -> [Titles -> [checked_at : Nat, ratings : Rating \cup {Unrated}]]]
Cursors == [Authority -> 0..(Catalog - 1)]
Spendings == [Authority -> 0..DailyBudget]

KeptTypeOK ==
    /\ entries \in Entries /\ cursor \in Cursors /\ spent \in Spendings /\ spent_on \in [Authority -> Nat]
    /\ facts_file \in [entries : Entries, cursor : Cursors, spent : Spendings, spent_on : [Authority -> Nat]]

ShownTypeOK ==
    /\ view \in [generation : Nat, facts : Told] /\ published \in Seq(Told)
    /\ DOMAIN memo = 1..MaxGeneration /\ DOMAIN snapshot = Reader

FlagsTypeOK == unsaved \in BOOLEAN /\ started \in BOOLEAN /\ altered \in BOOLEAN

RefreshTypeOK ==
    /\ turn \in Nat /\ visited \in 0..Catalog /\ left \in 0..DailyBudget /\ today \in Nat \ {0}
    /\ started => turn \in Authority

MaturityTypeOK == KeptTypeOK /\ ShownTypeOK /\ FlagsTypeOK /\ RefreshTypeOK

(* Each generation's facts are kept as they were published, and a snapshot  *)
(* is of one of them.                                                      *)
Numbered ==
    /\ view.generation = Len(published) /\ view.facts = published[view.generation]
    /\ view.generation \in DOMAIN published
    /\ \A r \in Reader : snapshot[r] # Unrated =>
          /\ snapshot[r].generation \in DOMAIN published
          /\ snapshot[r].facts = published[snapshot[r].generation]

(* A rating the view does not show makes the refresh publish; there is none *)
(* between two.                                                            *)
ShownOrAltered == (altered => started) /\ (altered \/ view.facts = Facts(entries))

(* How many titles ago the refresh was at this one.                         *)
Behind(t) == IF t <= cursor[turn] THEN cursor[turn] + 1 - t ELSE cursor[turn] + 1 + Catalog - t

CheckedBehind == started => \A t \in Rates[turn] : Behind(t) <= visited =>
    entries[turn][t].checked_at # 0 /\ entries[turn][t].checked_at + RefreshAfter > today

MaturityIInv ==
    /\ MaturityTypeOK /\ Numbered /\ MemoTrue /\ ShownOrAltered /\ CheckedBehind
    /\ facts_file.entries = entries \/ unsaved
    /\ ChargesFiled \/ unsaved
=============================================================================
