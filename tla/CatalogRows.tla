------------------------------ MODULE CatalogRows ------------------------------
(***************************************************************************)
(* `CatalogState::metas_json`, `note_asked` and `refresh_due` of           *)
(* src/src/catalog.rs, over RowFetch: the rows kept fresh ahead of their   *)
(* expiry.                                                                 *)
(*                                                                         *)
(* A request notes the row it asks for.  Once a minute the refresher takes *)
(* the noted rows that are due, the oldest first and at most PerPass, and  *)
(* fetches them one at a time.  A request for an expired row is answered   *)
(* with it at once and leaves it to the refresher.                         *)
(***************************************************************************)
EXTENDS RowFetch, SequencesExt

CONSTANTS
    Refresher,  \* the task that runs refresh_due
    MaxAsked,   \* ASKED_ROWS
    PerPass     \* REFRESHES_PER_PASS

ASSUME RefresherAssumption ==
    /\ IsFiniteSet(Row)
    /\ Refresher \in Task
    /\ MaxAsked \in Nat \ {0}
    /\ PerPass \in Nat \ {0}

VARIABLES
    asked,  \* the rows noted, each once, the one asked for longest ago first
    ahead,  \* refreshes_ahead
    due     \* what is left of the pass

vars == <<fetchVars, asked, ahead, due>>

Init == FetchInit /\ asked = <<>> /\ ahead = FALSE /\ due = <<>>

(* A bug: at the cap also a row that is known takes another's place. *)
NotedOver(r) ==
    SelectSeq(IF Len(asked) >= MaxAsked THEN Tail(asked) ELSE asked, LAMBDA q : q # r) \o <<r>>

(* note_asked: at the cap a new row takes the place of the oldest asked. *)
Noted(r) ==
    LET others == IF r \in ToSet(asked)
                  THEN RemoveAt(asked, CHOOSE i \in DOMAIN asked : asked[i] = r) ELSE asked
    IN  Append(IF Len(others) >= MaxAsked THEN Tail(others) ELSE others, r)

(* A row is as old as Duration::MAX where nothing is kept. *)
IsDue(r) == cached[r] = "none" \/ age[r] >= Due

(* A bug: the rows stored last come first. *)
Younger(q, r) ==
    \/ cached[q] = "none" /\ cached[r] # "none"
    \/ <<r, q>> \in older

(* The order of refresh_due: rows without a copy, then the oldest first. *)
Older(q, r) ==
    \/ cached[q] = "none" /\ cached[r] # "none"
    \/ <<q, r>> \in older

(* The passes over a set of due rows: the PerPass oldest, in order. *)
PassesOver(rows) ==
    LET n == IF Cardinality(rows) < PerPass THEN Cardinality(rows) ELSE PerPass
    IN  {pass \in Injection(1..n, rows) :
           /\ \A i, j \in 1..n : i < j => ~Older(pass[j], pass[i])
           /\ \A r \in rows \ ToSet(pass) : \A i \in 1..n : ~Older(r, pass[i])}

-----------------------------------------------------------------------------
Request(t, r) ==
    /\ t # Refresher
    /\ asked' = IF ahead THEN Noted(r) ELSE asked
    /\ \/ ahead /\ ServeStale(t, r)
       \/ ~(ahead /\ Stale(r)) /\ FetchRow(t, r, FALSE)
    /\ UNCHANGED <<ahead, due>>

(* refresh_due begins; rows not asked for in ASKED_FOR, which are the first,  *)
(* are let go.                                                              *)
StartPass ==
    /\ pc[Refresher] = "out"
    /\ due = <<>>
    /\ ahead' = TRUE
    /\ \E lapsed \in 0..Len(asked) : asked' = SubSeq(asked, lapsed + 1, Len(asked))
    /\ due' \in PassesOver({r \in Row : r \in ToSet(asked') /\ IsDue(r)})
    /\ UNCHANGED fetchVars

RefreshNext ==
    /\ due # <<>>
    /\ due' = Tail(due)
    /\ FetchRow(Refresher, Head(due), TRUE)
    /\ UNCHANGED <<asked, ahead>>

FetchStep(t) == Step(t) /\ UNCHANGED <<asked, ahead, due>>

(* The refresher is never dropped. *)
RequestCancelled(t) == t # Refresher /\ Cancel(t) /\ UNCHANGED <<asked, ahead, due>>

AroundStep == Around /\ UNCHANGED <<asked, ahead, due>>

Next == \/ StartPass \/ RefreshNext \/ AroundStep
        \/ \E t \in Task : \/ \E r \in Row : Request(t, r)
                           \/ FetchStep(t) \/ RequestCancelled(t)

Spec == Init /\ [][Next]_vars

(* The refresher's loop comes round, and fetch_row is run fairly. *)
Fairness == WF_vars(StartPass) /\ WF_vars(RefreshNext) /\ FetchFairness

FairSpec == Spec /\ Fairness

(* JustWatch is not down for good. *)
Recovers == \A t \in Task : SF_fetchVars(UpstreamAnswers(t))

RecoveringSpec == FairSpec /\ Recovers

-----------------------------------------------------------------------------
TypeOKRows ==
    /\ TypeOK
    /\ asked \in Seq(Row)
    /\ ahead \in BOOLEAN
    /\ due \in Seq(Row)
    /\ IsInjective(asked) /\ IsInjective(due)

(* However many rows are asked for, and again, at most the cap are         *)
(* remembered and at most PerPass refreshed.                               *)
AskedBounded == Len(asked) <= MaxAsked /\ Len(due) <= PerPass

RowsInv == TypeOKRows /\ AskedBounded

(* `metas_json`: "an expired copy is served at once, and the refresher     *)
(* replaces it", as long as it is asked for.                               *)
ExpiredIsReplaced == \A r \in Row :
    ahead /\ Stale(r) /\ r \in ToSet(asked) ~> ~Stale(r) \/ r \notin ToSet(asked)
=============================================================================
