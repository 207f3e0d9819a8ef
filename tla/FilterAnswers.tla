----------------------------- MODULE FilterAnswers -----------------------------
(***************************************************************************)
(* The filter routes (filter.rs): counts.json tells, value by value, what a *)
(* selection would hold; titles.json pages through what it does hold.  Both *)
(* read a store that never changes and the vote counts of the day, swapped  *)
(* under the requests that read them, and the counts of the empty selection *)
(* are worked out once per swap.                                           *)
(*                                                                         *)
(* A title is a number, those of a type in the order of their TMDB ids, and *)
(* a bitset a set of titles.  Vote counts and the titles export, which both *)
(* move the order, are one table here.                                     *)
(***************************************************************************)
EXTENDS Integers, FiniteSets, Sequences, SequencesExt

CONSTANTS
    Film, Series,   \* the titles with a card
    Admitted,       \* of them, what a restricted policy admits
    Kind,
    Mode,           \* of each kind: "and" or "single"
    Data,           \* of each kind: "bits", "rating", "entity" or "like"
    ValuesOf,       \* of each kind: its values, an entity kind's in index order
    Carries,        \* of each value: the titles carrying it, a plot axis's confidently
    Guessed,        \* of each value: the titles carrying it tentatively
    Probability,    \* of each plot axis: of each title, of its tentative value
    LikeRow,        \* of each value of a like kind: its row, in order
    Threshold,      \* of each value of the rating kind
    Tables,         \* the vote counts that land, in turn
    MinVotes, TopK,
    MinTitles, Only, \* of each entity kind: what a value needs to be listed
    Asker,
    Question        \* the selections asked for, with their scope and page

Title == Film \cup Series
Scope == {"movie", "series", "all"}

(* A title holds one value of an axis, in one tier; only an axis has tentative *)
(* titles.                                                                   *)
TiersApart ==
    \A k \in Kind : \A v \in ToSet(ValuesOf[k]), w \in ToSet(ValuesOf[k]) :
        Guessed[v] # {} => Data[k] = "bits" /\ Carries[w] \cap Guessed[v] = {}

(* What the order of titles.json is made of: numbers, and rows that name a title *)
(* once.                                                                     *)
OrderAssumption ==
    /\ Title \subseteq Nat /\ Film \cap Series = {}
    /\ Tables \in Seq(ToSet(Tables))
    /\ \A d \in DOMAIN Tables, t \in Title : Tables[d][t].votes \in Nat
    /\ \A k \in Kind : \A v \in ToSet(ValuesOf[k]) :
          /\ Data[k] = "like" => LikeRow[v] \in Seq(ToSet(LikeRow[v])) /\ IsInjective(LikeRow[v])
          /\ Guessed[v] # {} => \A t \in Title : Probability[k][t] \in Nat

(* A question's items name values of their kind, one of a like's; a value its  *)
(* kind does not hold is one no title carries.                                 *)
FilterAssumption ==
    /\ IsFiniteSet(Title) /\ TopK \in Nat /\ OrderAssumption
    /\ \A k \in Kind : /\ Mode[k] \in {"and", "single"}
                       /\ ValuesOf[k] \in Seq(ToSet(ValuesOf[k])) /\ IsInjective(ValuesOf[k])
    /\ TiersApart
    /\ \A q \in Question : q.scope \in Scope /\ q.limit \in Nat \ {0} /\ \A i \in q.items :
          /\ i = [kind |-> i.kind, exclude |-> i.exclude, ids |-> i.ids]
          /\ i.kind \in Kind /\ i.exclude \in BOOLEAN
          /\ i.ids # {} /\ i.ids \subseteq ToSet(ValuesOf[i.kind])
          /\ Data[i.kind] = "like" => \E v \in i.ids : i.ids = {v}

VARIABLES
    ratings,  \* the table that landed last, 0 before any
    built,    \* the derived parts built, the last one in the slot
    request,  \* what the askers ask
    stage, limited, read, held, answer  \* of each asker: its step, policy, votes, derived part

filterVars == <<ratings, built, request, stage, limited, read, held, answer>>

Unworked == [total |-> -1]
NoAnswer == [counts |-> Unworked, pages |-> <<>>]

-----------------------------------------------------------------------------
(* What a value holds, by the vote table d. *)

Rated(d) == {t \in Title : Tables[d][t].votes >= MinVotes}
Of(scope) == CASE scope = "movie" -> Film [] scope = "series" -> Series [] OTHER -> Title
Ready(d) == {k \in Kind : Data[k] # "rating" \/ d > 0}

ValueTitles(d, k, v) ==
    CASE Data[k] = "rating" -> {t \in Rated(d) : Tables[d][t].score >= Threshold[v]}
      [] Data[k] = "like"   -> ToSet(LikeRow[v])
      [] OTHER              -> Carries[v]

Known(d, k, scope) ==
    CASE Data[k] = "rating" -> Rated(d)
      [] Data[k] = "like"   -> Of(scope)
      [] OTHER              -> UNION {Carries[v] : v \in ToSet(ValuesOf[k])}

ItemTitles(d, item) == UNION {ValueTitles(d, item.kind, v) : v \in item.ids}
ItemLikely(item) == UNION {Guessed[v] : v \in item.ids}

(* What a kind's own values are counted without: its other values would replace *)
(* it, or join it.                                                           *)
CountedApart(item) == Mode[item.kind] = "single" \/ (Cardinality(item.ids) > 1 /\ ~item.exclude)

(* What matches the items: surely, and with the tentative tier. *)
Matched(d, scope, restricted, items) ==
    LET from == Of(scope) \cap (IF restricted THEN Admitted ELSE Title)
        Left(item) == Known(d, item.kind, scope) \ ItemTitles(d, item)
    IN  [sure |-> {t \in from : \A i \in items :
                      t \in IF i.exclude THEN Left(i) ELSE ItemTitles(d, i)},
         any  |-> {t \in from : \A i \in items :
                      t \in IF i.exclude THEN Left(i) ELSE ItemTitles(d, i) \cup ItemLikely(i)}]

Tally(matched) ==
    [total  |-> Cardinality(matched.any),
     likely |-> Cardinality(matched.any) - Cardinality(matched.sure)]

-----------------------------------------------------------------------------
(* counts.json *)

Counted(d, base, k, v) ==
    LET carrying == ValueTitles(d, k, v)
        total == Cardinality(base.any \cap carrying) + Cardinality(base.any \cap Guessed[v])
    IN  [total |-> total, likely |-> total - Cardinality(base.sure \cap carrying)]

(* Of those found, what goes before i: the most held, equal ones in their order. *)
AheadOf(i, found, total) == {j \in found : total[j] > total[i] \/ (total[j] = total[i] /\ j < i)}

(* Enough titles, of every type and policy, and one of a list if there is one; *)
(* any value may be selected.                                                *)
Listable(k, v) ==
    Data[k] = "entity" => /\ Cardinality(Carries[v]) >= MinTitles[k]
                          /\ Only[k] = {} \/ v \in Only[k]

KindAnswer(d, k, base, selected) ==
    LET order == ValuesOf[k]
        held_by == [v \in ToSet(order) |-> Counted(d, base, k, v)]
        total == [i \in DOMAIN order |-> held_by[order[i]].total]
        found == {i \in DOMAIN order : total[i] > 0 /\ Listable(k, order[i])}
        top == {i \in found : Data[k] = "entity" => Cardinality(AheadOf(i, found, total)) < TopK}
        listed == IF Data[k] = "like" THEN {} ELSE {order[i] : i \in top}
        told == listed \cup UNION {i.ids : i \in selected}
    IN  [values |-> [v \in told |-> held_by[v]],
         complete |-> CASE Data[k] = "like" -> FALSE
                        [] Data[k] = "entity" -> Cardinality(found) <= TopK
                        [] OTHER -> TRUE]

Base(d, scope, restricted, items, k) ==
    LET apart == {i \in items : i.kind = k /\ CountedApart(i)}
    IN  Matched(d, scope, restricted, items \ apart)

WorkKinds(d, scope, restricted, items) ==
    LET Selected(k) == {i \in items : i.kind = k}
        shown == {k \in Ready(d) : Data[k] # "like" \/ Selected(k) # {}}
        tally == Tally(Matched(d, scope, restricted, items))
    IN  [total |-> tally.total, likely |-> tally.likely,
         kinds |-> [k \in shown |->
                       KindAnswer(d, k, Base(d, scope, restricted, items, k), Selected(k))]]

-----------------------------------------------------------------------------
(* titles.json *)

(* A set in an order given as its pairs, and the order of a row's members. *)
InTheOrder(S, before) ==
    [n \in 1..Cardinality(S) |->
        CHOOSE t \in S : Cardinality({u \in S : <<u, t>> \in before}) = n - 1]
Along(row) == UNION {{<<row[i], row[j]>> : i \in 1..(j - 1)} : j \in DOMAIN row}

(* Most voted first, then by id; before any votes, by id. *)
Votes(d, t) == IF d = 0 THEN 0 ELSE Tables[d][t].votes
MoreVoted(d, t, u) == Votes(d, t) > Votes(d, u) \/ (Votes(d, t) = Votes(d, u) /\ t < u)
Order(d, titles) == InTheOrder(titles, {p \in titles \X titles : MoreVoted(d, p[1], p[2])})

(* The two orders merged by rank as a share of the type's size: after x titles, *)
(* so many of the n films are placed, the rest being of the m series.           *)
Placed(n, m) ==
    LET placed[x \in 0..(n + m)] ==
            IF x = 0 THEN 0
            ELSE LET i == placed[x - 1] IN LET j == x - 1 - i IN
                 IF j = m \/ (i < n /\ i * m <= j * n) THEN i + 1 ELSE i
    IN  placed

Interleaved(films, series) ==
    LET placed == Placed(Len(films), Len(series))
    IN  [x \in 1..(Len(films) + Len(series)) |->
            IF placed[x] > placed[x - 1] THEN films[placed[x]] ELSE series[x - placed[x]]]

OrderOf(d, scope) ==
    IF scope = "all" THEN Interleaved(Order(d, Film), Order(d, Series)) ELSE Order(d, Of(scope))

(* The values that rows are asked for by; the first of them orders the titles. *)
Liked(items) == UNION {i.ids : i \in {i \in items : Data[i.kind] = "like" /\ ~i.exclude}}
OrderFor(d, scope, items) ==
    IF Liked(items) = {} THEN OrderOf(d, scope) ELSE LikeRow[CHOOSE v \in Liked(items) : TRUE]

(* The lowest probability among the plot axes t matches only tentatively. *)
LowestTentative(d, items, t) ==
    LET guesses == {Probability[i.kind][t] : i \in {i \in items :
                       ~i.exclude /\ ItemLikely(i) # {} /\ t \notin ItemTitles(d, i)}}
    IN  IF guesses = {} THEN 0 ELSE CHOOSE p \in guesses : \A q \in guesses : p <= q

(* The likely ones of S from the surest, equal ones in their order. *)
Surer(S, odds, before) ==
    {p \in S \X S : odds[p[1]] > odds[p[2]] \/ (odds[p[1]] = odds[p[2]] /\ p \in before)}

(* What the pages are taken from: those of the order that match surely, and the *)
(* likely ones.                                                              *)
Walks(d, scope, restricted, items) ==
    LET matched == Matched(d, scope, restricted, items)
        order == OrderFor(d, scope, items)
        before == Along(order)
        guessed == (matched.any \ matched.sure) \cap ToSet(order)
        odds == [t \in guessed |-> LowestTentative(d, items, t)]
    IN  [confident |-> Cardinality(matched.sure),
         sure |-> InTheOrder(matched.sure \cap ToSet(order), before),
         likely |-> InTheOrder(guessed, Surer(guessed, odds, before))]

(* The likely matches are ranked only for a page that reaches past the others. *)
ReachesLikely(skip, limit, confident) == skip + limit > confident

Page(walks, skip, limit) ==
    LET walk == walks.sure \o
                IF ReachesLikely(skip, limit, walks.confident) THEN walks.likely ELSE <<>>
    IN  SubSeq(walk, skip + 1, IF skip + limit < Len(walk) THEN skip + limit ELSE Len(walk))

-----------------------------------------------------------------------------
(* The derived part, swapped, and a request that reads it *)

FilterInit ==
    /\ ratings = 0 /\ built = <<>>
    /\ request \in Question
    /\ stage = [a \in Asker |-> "idle"]
    /\ limited = [a \in Asker |-> FALSE]
    /\ read = [a \in Asker |-> 0]
    /\ held = [a \in Asker |-> 0]
    /\ answer = [a \in Asker |-> NoAnswer]

(* New vote counts land. *)
Land ==
    /\ ratings < Len(Tables)
    /\ ratings' = ratings + 1
    /\ UNCHANGED <<built, request, stage, limited, read, held, answer>>

(* A request reads the vote counts there are. *)
ReadVotes(a) ==
    /\ stage[a] = "idle"
    /\ stage' = [stage EXCEPT ![a] = "read"]
    /\ limited' \in {[limited EXCEPT ![a] = restricted] : restricted \in BOOLEAN}
    /\ read' = [read EXCEPT ![a] = ratings]
    /\ UNCHANGED <<ratings, built, request, held, answer>>

NewDerived(d) == [ratings |-> d, empty |-> [scope \in Scope |-> Unworked]]

(* A bug: what was worked out of the votes before is kept. *)
DerivedAgain(d) ==
    [ratings |-> d, empty |-> IF built = <<>> THEN [scope \in Scope |-> Unworked]
                              ELSE built[Len(built)].empty]

Derive(d) == NewDerived(d)

(* It takes the derived part in the slot, or puts one of its votes there. *)
TakeDerived(a) ==
    /\ stage[a] = "read"
    /\ LET fits == built # <<>> /\ built[Len(built)].ratings = read[a]
       IN  /\ built' = IF fits THEN built ELSE Append(built, Derive(read[a]))
           /\ held' = [held EXCEPT ![a] = Len(built')]
    /\ stage' = [stage EXCEPT ![a] = "holding"]
    /\ UNCHANGED <<ratings, request, limited, read, answer>>

(* It answers: the empty selection, of every policy but a restricted one, from *)
(* what its derived part keeps.                                               *)
Respond(a) ==
    /\ stage[a] = "holding"
    /\ LET d == built[held[a]].ratings
           applied == {i \in request.items : i.kind \in Ready(d)}
           scope == request.scope
           kept == built[held[a]].empty[scope]
           bare == applied = {} /\ ~limited[a]
           counts == IF bare /\ kept # Unworked THEN kept
                     ELSE WorkKinds(d, scope, limited[a], applied)
           walks == Walks(d, scope, limited[a], applied)
       IN  /\ answer' = [answer EXCEPT ![a] =
                  [counts |-> counts,
                   pages |-> [n \in 1..(counts.total \div request.limit + 1) |->
                                 Page(walks, (n - 1) * request.limit, request.limit)]]]
           /\ built' = IF bare THEN [built EXCEPT ![held[a]].empty[scope] = counts] ELSE built
    /\ stage' = [stage EXCEPT ![a] = "answered"]
    /\ UNCHANGED <<ratings, request, limited, read, held>>

(* It is done, its hold on the derived part dropped. *)
Finish(a) ==
    /\ stage[a] = "answered"
    /\ stage' = [stage EXCEPT ![a] = "idle"]
    /\ limited' = [limited EXCEPT ![a] = FALSE]
    /\ read' = [read EXCEPT ![a] = 0]
    /\ held' = [held EXCEPT ![a] = 0]
    /\ answer' = [answer EXCEPT ![a] = NoAnswer]
    /\ UNCHANGED <<ratings, built, request>>

FilterNext ==
    \/ Land
    \/ \E a \in Asker : ReadVotes(a) \/ TakeDerived(a) \/ Respond(a) \/ Finish(a)

FilterSpec == FilterInit /\ [][FilterNext]_filterVars

-----------------------------------------------------------------------------
(* What an asker's answer is about. *)
Applied(a) == {i \in request.items : i.kind \in Ready(read[a])}

(* What stays of a selection when a value of k is put in the place of what it is *)
(* an alternative to, and what it would then hold.                             *)
Stays(i, k) == i.kind # k \/ (Mode[k] = "and" /\ (i.exclude \/ Cardinality(i.ids) = 1))

Would(d, scope, restricted, items, k, v) ==
    Tally(Matched(d, scope, restricted,
                  {i \in items : Stays(i, k)} \cup {[kind |-> k, exclude |-> FALSE, ids |-> {v}]}))

(* Of a kind: each value listed as it would be, one that is asked for or may be  *)
(* listed; of these left out, none of a complete kind and no more than those      *)
(* listed of another.                                                            *)
KindTells(told, k, asked, would) ==
    LET left == {v \in DOMAIN would \ DOMAIN told.values : Listable(k, v)}
    IN  /\ \A v \in DOMAIN told.values :
              v \in DOMAIN would /\ told.values[v] = would[v] /\ (v \in asked \/ Listable(k, v))
        /\ told.complete => \A v \in left : would[v].total = 0
        /\ Data[k] = "entity" => \A v \in left, w \in DOMAIN told.values \ asked :
              would[v].total <= would[w].total

Tells(told, d, scope, restricted, items) ==
    /\ [total |-> told.total, likely |-> told.likely] = Tally(Matched(d, scope, restricted, items))
    /\ {k \in Ready(d) : Data[k] # "like"} \subseteq DOMAIN told.kinds
    /\ \A k \in DOMAIN told.kinds :
          KindTells(told.kinds[k], k, UNION {i.ids : i \in {i \in items : i.kind = k}},
                    [v \in ToSet(ValuesOf[k]) |-> Would(d, scope, restricted, items, k, v)])

(* What counts.json tells is what asking would find: each value it lists has as *)
(* many titles, and as many likely ones, as the selection would with that value *)
(* put in the place of what it is an alternative to.  It lists only what the kind *)
(* lists (of companies, subjects, places and formats not those of a few titles, *)
(* which can be selected and find them all the same): of this, a value a complete *)
(* kind leaves out would find nothing, and one an incomplete kind leaves out no *)
(* more than those it lists.                                                   *)
CountsTell ==
    \A a \in Asker : stage[a] = "answered" =>
        Tells(answer[a].counts, read[a], request.scope, limited[a], Applied(a))

(* How many of its type go before a title, and as a share: of all titles, so that *)
(* the shares of films and of series compare.                                   *)
Place(d, t, titles) == Cardinality({u \in titles : MoreVoted(d, u, t)})
Share(d, t, titles) == Place(d, t, titles) * Cardinality(Title \ titles)

(* In the order of their scope, t is before u. *)
Ahead(d, t, u) ==
    \/ t \in Film /\ u \in Series /\ Share(d, t, Film) <= Share(d, u, Series)
    \/ t \in Series /\ u \in Film /\ Share(d, t, Series) < Share(d, u, Film)
    \/ \E titles \in {Film, Series} :
          t \in titles /\ u \in titles /\ Place(d, t, titles) < Place(d, u, titles)

(* Every match once: those that match surely in the order, then the likely ones *)
(* from the surest, equal ones in the same order.                              *)
InOrder(walk, matched, odds, before) ==
    /\ IsInjective(walk) /\ ToSet(walk) = matched.any
    /\ \A i, j \in DOMAIN walk : i < j =>
          LET t == walk[i] IN LET u == walk[j] IN
          \/ t \in matched.sure /\ u \notin matched.sure
          \/ t \in matched.sure /\ u \in matched.sure /\ <<t, u>> \in before
          \/ /\ t \notin matched.sure /\ u \notin matched.sure
             /\ odds[t] > odds[u] \/ (odds[t] = odds[u] /\ <<t, u>> \in before)

Orders(d, items, titles) ==
    IF Liked(items) = {} THEN {{p \in titles \X titles : Ahead(d, p[1], p[2])}}
    ELSE {Along(LikeRow[v]) : v \in Liked(items)}

(* A walk of titles.json's pages meets every match once: those that match surely *)
(* in the scope's order, or a like's, then the likely ones from the surest, equal *)
(* ones in the same order.                                                       *)
PagesTell ==
    \A a \in Asker : stage[a] = "answered" =>
        LET d == read[a]
            items == Applied(a)
            matched == Matched(d, request.scope, limited[a], items)
            odds == [t \in matched.any |-> LowestTentative(d, items, t)]
        IN  \E before \in Orders(d, items, matched.any) :
                InOrder(FlattenSeq(answer[a].pages), matched, odds, before)

(* Every answer tells what the titles hold under the votes it read: whatever was *)
(* swapped meanwhile, and whatever another request had worked out.               *)
AnswersTell == CountsTell /\ PagesTell
=============================================================================
