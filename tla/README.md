# den-atlas in TLA+

den-atlas is a Stremio addon server: one tokio process that serves catalogue
rows, search, recommendations and air dates from a mapped dataset and from a few
upstreams it must not ask too often (JustWatch, TMDB, TVmaze, Movie of the
Night, the national age-rating offices, an embedding service). This directory
models its stateful parts in TLA+, checks them with TLC and proves the central
invariants with TLAPS.

Source paths below are relative to the repository; line-by-line correspondence
of every definition is in `PROJECT.json` ("map").

## The system

| part | state it keeps | operations | what is hard | what makes it correct |
|---|---|---|---|---|
| Row gates (`src/catalog.rs`, `inflight`) | a map of row key to reference-counted async mutex | join, lock, drop of lock, sweep and handle, at the end or when the caller goes | the sweep's decision rests on a count other tasks change | one refresh per row; a gate someone wants is never swept; nobody is stranded |
| Row fetch (`src/catalog.rs`, `fetch_row`, `packages_for`, `aggregate`) | package lists and their failures by country, the upstream semaphore, `last_refresh_ok` | a fetch with up to five awaits, a fan-out of spawned calls | partial failure, dropped requests, a shared ceiling | never more than 8 calls; the last good row outlives any failure; every fetch ends |
| Rows kept ahead (`src/catalog.rs`, `metas_json`, `note_asked`, `refresh_due`) | the rows asked for, the pass | a request, a pass a minute | order and starvation, a cap | an expired row is served and replaced; the rows last asked for are the ones remembered |
| Row cache file (`src/cache.rs`, `TtlCache`) | rows, generation, saving flag, file | put, evict, one coordinator that batches writes, restart | a flag handed over between tasks, failed and panicked passes, a crash between write and rename | one writer; no row forgotten; the file never goes back; the newest rows survive the cap |
| Admission (`src/admission.rs`) | a semaphore and its counters per class | acquire with a bounded queue and wait, a job that owns its permit | cancellation at every await, atomics beside a semaphore | bounded work, true counters, no idle permit |
| JustWatch client and back-off (`src/justwatch.rs`, `src/util.rs`) | end of the pause, refusals in a row | ask, refused, answered | answers in flight when a pause begins | a pause is waited out once, by all |
| Index loading (`src/queries.rs`, `src/ratings.rs`, `src/characters.rs`) | the loaded indexes, the load's lock, settled flags | get, load at start, settle, swap | a load must not start before its inputs; a dropped loader | one load, never without votes |
| TMDB refresh (`src/tmdb.rs`) | votes, credits, daily budget, files | boot reads, daily tick | files and memory take turns holding the credits | a rebuild never loses credits |
| TVmaze (`src/tvmaze.rs`) | ids, shows, wanted; the foreground queue | want, want_batch, settle, the pass | two locks, lanes, wake-ups, a pause | a wanted series is tried and answered, its waiter told, its answer kept |
| Movie of the Night (`src/motn.rs`) | lists, change reads in progress, the day's spend | the pass, reserve, checkpoint, save | a crash between a paid request and its record | never more than the day's budget; a list is complete before it is served |
| Maturity providers (`src/maturity_providers.rs`) | ratings, generation, budget, cache file | refresh, publish, persist | memos keyed by a generation | no memo of old ratings under a new generation |
| Titles (`src/titles.rs`, `crates/den-titlesearch`) | the index, half-downloaded exports | daily rebuild | one of two downloads fails | the index that serves is of one day, and no older than the last |
| Filters (`src/filter.rs`) | the part derived from the votes, its memo of the empty selection | counts, pages, the swap | a swap under a request, a tier that is only likely | counts and pages agree, of one set of votes |
| Embedding (`embed/`, `src/main.rs`, `src/handler.rs`) | the model or none, LRU, readiness, permits | embed, load, unload, probe | unloading under use | one inference at a time; readiness tells the truth |
| Serving (`src/main.rs`) | the listener and its connections | serve, drain, stop | a grace, a second signal | the process ends in bounded time |
| Pure algorithms (`src/queries.rs`, `src/recommend.rs`, `src/franchises.rs`, `src/versions.rs`, `crates/den-index` ...) | none | ranking, paging, grouping, counting | boundaries | agreement with a reference definition |
| Store and dataset (`src/store.rs`, `src/schema.rs`, `src/dataset.rs`) | a verified mapping | open, verify, read | offsets, digests | out of the model: layout and I/O |

How they interact: a request to `handler.rs` reads the mapped store through the
indexes, under an admission permit; rows go to `CatalogState`, which reads the
row cache, takes the row's gate, asks JustWatch under its semaphore, leads the
row with Movie of the Night's kept list and stores it, which wakes the cache
file's coordinator. Background tasks spawned at boot (`main.rs`) refresh rows,
TMDB, TVmaze, Movie of the Night, age ratings and titles; they share state with
requests only through locks, atomics and swapped `Arc`s.

## Modules

| module | models |
|---|---|
| `SingleFlight` | what the gates promise: one task per row refreshes it |
| `InflightGates` | the gates themselves, implementing `SingleFlight` |
| `AdmissionGate` | one class's gate of `admission.rs` |
| `RowFetch` | `fetch_row`, `packages_for`, `aggregate`, over `SingleFlight`'s promise |
| `CatalogRows` | `metas_json`, `note_asked`, `refresh_due`, composed with `RowFetch` |
| `RowCacheFile` | `TtlCache` and its file |
| `MotnPass` | one country's background pass of `motn.rs`: requests, budget, resumable reads, file |
| `TvmazePass` | `tvmaze.rs`: what is kept, the lanes, the pass, the requests that wait |
| `TmdbRefresh` | the daily tick of `tmdb.rs`, its three files and the two indexes |
| `IndexLoad` | `IndexQueries::get` and what a load waits for at boot |
| `MaturityFacts` | the rounds of `maturity_providers.rs` and the memo of `queries.rs` beside them |
| `UpstreamBackoff` | `Backoff` of `util.rs`, as the calls to one upstream drive it |
| `FilterAnswers` | `counts.json` and `titles.json` of `filter.rs` |
| `TitleExports` | the rebuild of `titles.rs` |
| `EmbedService` | the embedding service's permit, jobs, model and health |
| `RecencyCache`, `EmbedCache` | what its vector cache promises; the columns and map that implement it |
| `EmbedMemo` | atlas's own memo of vectors and its file (`cache.rs`) |
| `EmbedProxy` | how den-atlas asks that service: permits, readiness, early embeddings, what an unranked search is told |
| `Drain` | how either process stops |
| `GatesProofs` | theorems about `InflightGates` and `AdmissionGate` |
| `CatalogRowsProofs` | about `RowFetch` and `CatalogRows` |
| `MotnPassProofs`, `TvmazePassProofs` | about the two passes |
| `SharedProofs` | about what requests share: `RowCacheFile`, `EmbedProxy`, `TitleExports`, `FilterAnswers` |
| `ServingProofs` | about what requests wait for: `Drain`, `IndexLoad`, `EmbedService`, `EmbedCache` |
| `KeepersProofs` | about what is kept of the upstreams: `TmdbRefresh`, `MaturityFacts`, `UpstreamBackoff`, `EmbedMemo` |
| `CommonTheorems` | the lemmas these rest on: queues without repetition, joining, cutting and picking from sequences, counting, division |
| `MC...` | the small instances TLC checks |

Each module has one action per step between two awaits (or between two atomic
operations, where other threads can see the difference); a bug operator ("A bug:
...") states how the code could have been wrong, and a property is kept only if
one of them breaks it.

`MCGates`, `MCShared`, `MCPasses`, `MCServing`, `MCKeepers` and `MCAnswers` put several
small systems that share a theme into one instance. Their variable `part` names the one
a behaviour is about; the others rest in a single initial state, so each part has
exactly the behaviours it has alone, and weak fairness of a resting part is idle
since its steps are disabled.

### InflightGates

(`GatesInit`, `GatesNext`, `GatesSpec`; the variables are `gateVars`.) A reference
count is not a variable: it is the number of places that name the gate (the map and
each task's handle). A task goes "out", "waiting", "holding", "sweeping",
"dropping", in the order Rust drops `_hold`, `_sweep` and `gate`; it can be dropped
at either await. `GateStaysMapped` is the heart of the invariant: while a task waits
for a gate or holds it, or has yet to sweep, the map has that gate under its key, so
two tasks on one key meet at one gate.

A handle is dropped outside the map's lock, after the sweep: two tasks that leave
a key together can each see the other's handle and leave the gate in the map
until a later request sweeps it. Nothing relies on its going, so no property
asks for it.

### RowFetch and CatalogRows

`RowFetch` takes the gate as `SingleFlight!Start` and `Finish`: the step from the
promise to the gates is `InflightGates`' refinement. A row's body is abstracted
to what it was made of ("whole", "part", "lead"); a service, a country and a
package list are model values and sets of them; age counts steps up to the age a
row is refreshed at (`Due`), stops being fresh at (`Ttl`), and a bound (`MaxAge`)
beyond which ages are alike, the order rows were stored in being kept apart.
A country without a known list has the empty one, which the code never keeps.
A dropped aggregate leaves its aborted calls as orphans that hold their permits
until the runtime drops them.

Which task asks for which row, and when over a fresh one, is open in `RowFetch`;
`CatalogRows` closes it with the requests and the refresher of `main.rs`. What is
proved of `RowFetch` holds of it, since its steps are `RowFetch` steps
(theorem `RowsAreFetched`).

### RowCacheFile

Rows, the generation, the `saving` flag, and one coordinator per task that won
the flag: it waits its window, serialises, writes beside the file, renames,
compares the generation it wrote with the current one, clears the flag and
checks again. A pass can fail, panic, or be cut off by a restart, which starts
from what the file holds.

A row is the number of the put that stored it, over every process there was, and beside
it stands the wall-clock time the code keeps (`Stamped`). The code goes by the time
alone (`Oldest`); `NewestSurvive` goes by the number, so it asks whether the times can
be relied on, over every put and restart there was. They can while nobody has set the
clock back, which the history variable `steady` keeps; without that
(`NewestAlwaysSurvive`) they cannot, which is a finding. Of two rows of one tick of the
model's clock either may go.

### AdmissionGate

The semaphore is tokio's (first come first served, a returned permit goes to
the first waiter), the counters are atomics with steps of their own. A request
dropped while its job runs leaves the job "abandoned", with its permit.

### MotnPass

A pass is a `plan` of jobs in the code's order (services, Top 10s, each service
that is behind its country, the country, leaving, coming, publication); a job
whose condition does not hold when its turn comes is passed over. `Reserve`
counts a request, saves the count and sends the request; a page is saved before
the next is asked for; a save that fails may have replaced the file or not. Lists
are sets of days, a read is its bounds, its services, its pages and its state
(open, complete, quarantined), and `held` (the code's `kept`) and `disk` are two records of the same
shape, so `StartOver` is `held' = disk` wherever it comes. Which lists are wanted
is open at each pass, and a pause may begin at any request; the window a
leaving or coming read looks ahead is left out. The services the API offers in
the country are all those there are, once read. A request counts for the day it
is reserved on.

`skipped` is history: the days a country's read begins too late for, more than
`FIRST_LOOK_BACK` after the last one ended.

### TvmazePass

A series is wanted, looked up (which finds it a show or none) and its show
fetched; a show is known by the day it was fetched, since episodes are pure data.
A step is what one lock covers: `want` notes under `kept`'s lock (`Open`,
`Sweep`), queues under the lanes' (`Enqueue`) and wakes the pass; `settle` listens
(`Listen`), looks (`Look`) and only then waits (`Wait`), so `told` keeps who was
told since it began to listen. The pass is `PassBegins`, `FeedRead`, `Choose`,
an answer, `Tell`, and `PassEnds`, which saves. `Choose` is the order of the
code: the show of the lookup just made, maintenance whose turn has come, the
lanes in turn, what no lane holds, maintenance. A permit stored in `wake` may or
may not be used up when the loop's timer fires with it. `pass.held`, `pass.cut`
are history: the series maintenance waited through, and a pass a pause cut off.
`Without` is the `retain` that takes a series out of the batches when its title is
opened.

### TmdbRefresh

A tick is a sequence of phases, each with the questions it has left (`due`, or the
sweep's slices); the budget and an answer may stop it at any question. Values are
the day they were fetched: what is used, expired, lost or brought back is a
matter of days. Discover is modelled by what it lists, page by page and capped;
a slice over the cap is halved. The three writes and the rebuild are steps, any
of which may be the last before a restart. `credited` is history: what answers
brought and nothing took away.

### IndexLoad

`queue` is tokio's mutex `loading`; a dropped caller leaves it (`Unlock`) and leaves
its load behind as an orphan. `AskAgain` is the same task's next call. The votes are
settled by boot before it listens, the links while it serves.

### MaturityFacts and UpstreamBackoff

A refresh of one authority's catalogue is a walk from its cursor, a title a step;
what it found is published as one view under a new generation. A request takes a
view, evaluates a policy and keeps the result under that view's generation.
`altered` is what the code returns as "changed", `unsaved` its dirty flag, and
`StartsOver` a restart from `facts_file`. `UpstreamBackoff` splits `refused` and
`answered` into their two stores, with other calls in between; `promised` is
history, the furthest end of a pause since the last answer.

### FilterAnswers and TitleExports

A title is a number, those of a type in the order of their ids, and a bitset a set;
counting, the top of an entity kind, the interleaved order, the likely tier and the
paging are translated operators, and one action (`Respond`) answers both routes. A
sort is what it returns, the set in an order given as its pairs (`InTheOrder`); the
merge of the two types' orders is the loop, as a recursive function of how many
films are placed (`Placed`). A request reads the votes (`ReadVotes`),
takes or builds the derived part (`TakeDerived`), answers, and drops its hold on the
part (`Finish`), with new votes landing in between. The top of an entity kind is
stated by how many go before (`AheadOf`) rather than by sorting. An entity kind
offers only what is `Listable`: values of `MinTitles` titles or more, over the whole
store and not under the selection, and of its list where it has one (`Only`). The
others can be asked for all the same and find titles, which README.md:252 says of
studios, subjects, places and formats; so `complete`, and being left out, say
something of listable values alone, and `KindTells` is stated of those. `CountsTell` and
`PagesTell` say what the answer should be in other words: a value's count is what
the selection would match with that value in the place of its alternatives (`Would`,
`KindTells`), and a walk of the pages meets each match once, in an order stated by
comparing two titles' places in their types as shares (`Ahead`) rather than by
merging. An item names values of its kind, a like's one; which like's row orders
the titles when two are asked for is left open. The votes and the titles export,
which both move the order, are one table.

`TitleExports` counts hours (`HoursPass`); a day has few of them. Each export may
come, fail, or come corrupt, and `KeptFor` is what a pass still has of its day.

### EmbedService, EmbedCache and EmbedMemo

The service's one permit goes from a request to the blocking job it starts and is
given up by the job; what is done under the model's lock is one step. A request may
be dropped at any await. `EmbedCache` is the flat `Lru` (columns of slots beside a
map; `LruGet`, `LruPut`) and implements `RecencyCache`, a list in order of use, by a
refinement mapping that orders the slots by tick. `EmbedMemo` has each atomic of
`save` as a step: `dirty`, `saving`, the writer's loop and its last look; a boot
reads the file back (`ReadBack`).

### EmbedProxy

A request is where it is (`at`): its body read under a body permit, waiting for
the indexes, for a vector, for a cpu permit, at its work. Its call is a job,
and so is what is spawned for it and outlives it: the early embedding of a
search's whole text, and a warm-up. A job queues in `line`, tokio's first come
first served semaphore; `Busy` ends a wait that was too long, `TakePermit` calls
or finds the engine not ready. A text is known by whose words it is: all of the
search's ("whole"), what nothing else explains ("rest"), a library's titles. `Words`
chooses the vector as `query_answer` does, and `Flag`, a step of its own after any
wait, decides how long the answer may be kept; the engine may become ready in
between. A recommendation takes its cpu permit before it embeds and gives its
body's back; `BodiesHeld` and `RankReserved` are the two bounds on what can pile up
in front of the few permits, `NothingLeft` that no way to go leaves anything behind.

### Drain

Signals, a drain bounded by its grace, connections that are opened and used again
until then (`Accept`, `Reuse`), blocking threads that outlive their
requests, and the two ways to end: den-atlas returns from `main` (and waits for
its threads), den-embed calls `_exit`.

## What is checked

| run | instance | shows |
|---|---|---|
| `gates` | 3 tasks, 2 rows, 5 gates; 5 requests, 2 permits, 2 places; fairness | no wanted gate swept, every waiter moves on, the gates implement `SingleFlight`; bounded work, true counters, no idle permit, each request served or refused |
| `shared` | file: 2 tasks, 3 keys, room for 2, 2 coordinators, a clock that can go back, 1 restart; proxy: a POST, a search and a recommendation, 1 permit, 1 body and 1 cpu slot | no row forgotten, the file never goes back, and while nobody has set the clock back the row dropped at the cap was put before those it leaves, the ones read from the file included; a search is ranked by its own words, what waits for the embedding service is bounded by a class, nothing is left behind |
| `rows_set_back` (violation) | 2 tasks, 3 rows, 3 keys, room for 2, a clock that can be set back | the row just stored looks the oldest and is dropped by the next put |
| `answers` | row: 2 tasks, an aggregate of 2 services and a service row that may be led, 2 permits, 3 package lists; filter: 6 titles, 6 kinds of every sort, one of them with a value of too few titles and one it does not offer, two rows of likes, each selection of up to 2 items, 2 askers, the votes landing; titles: 3 days of 3 hours | permits balance, no fetch over a fresh row, only whole rows are kept, served over a failure, or called fresh; counts and pages tell what the titles hold; the index is of one day and never goes back, and no export is kept in vain |
| `fetch_blip` (violation) | the row part, 1 permit | a failed JustWatch call replaces a led service's kept row |
| `rows` | ahead: a request and the refresher, 2 rows, one of them an aggregate, 1 permit, 1 a pass, JustWatch answers again and again; asked: 3 fresh rows, 2 remembered, notes that lapse | an expired row that is asked for is replaced; every fetch ends; the rows remembered are the last ones asked for |
| `rows_starve` (violation) | `rows`' first part with a row the country lacks | it takes every pass; the expired row stays |
| `passes` | motn: 2 services, their wants open at each pass, 3 days, 2 requests a day, reads of 2 pages at 1 a pass, 1 mishap anywhere; tvmaze: 3 series, opened or followed by 2 requests, 1 show, 2 days, 1 mishap | the day's budget holds over restarts; no service's additions have a hole; the queue holds each series once; whoever waits is told; no wanted series is left untried; maintenance has its turn; no answer is lost |
| `motn_stale` (violation) | 1 service's leaving and coming lists | a leaving list read days ago is published as read now |
| `serving` | file: 2 tasks, 2 keys, 1 restart; airing: 2 series, a mishap; load: 3 callers, 2 drops, 2 bad loads; embed: a text and a batch, room for 1 vector; stop: 2 clients, a grace of 2; fairness | a stored row reaches the file; a wanted series is answered; one load, never without votes, and every caller gets an answer; one job at a time and a failed load shows; an idle model goes; the grace is granted and the process ends |
| `keepers` | tmdb: 4 titles, 3 days, 2 mishaps; maturity: 2 authorities, 2 titles, 2 days, 1 mishap; backoff: 3 calls; memo: 2 putters, 3 keys, room for 2; lru: 3 keys, room for 2 | no listed title falls out of a sweep, no credits are lost and nothing too old is used; a memo is of its generation; a pause is waited out; a vector put is saved; the least recently used goes and no text gets another's vector |
| `embed_unready` (violation) | proxy, as in `shared` | a search answered while the engine is being checked is kept for long without its vector |

The inductive invariants of the proofs (`IInv`, `MotnIInv`, `GatesInv`, `TmdbIInv` ...) were
checked with TLC before they were proved and are not repeated as properties of the runs: the
theorems cover them.

Bounds. Two tasks are enough for every race of a gate, a permit or the saving flag
between a holder and another; the gates have a third, which changes the count the code
compares with a constant (the sweep's "two handles"). Five requests fill two permits and
two places and leave one to be refused. Two services make a union partial; two rows make
keys differ; one permit makes everyone wait on everyone, two let calls overlap. In the
first part of `rows` the pass is smaller than the rows, so its cap binds, and the memory
holds both; in the second there are three rows for a memory of two, so a note of a third
drops one, and a note of a row remembered must not. `shared` stores a third row past its
room for two, over rows put or read back. Restarts, passes, stored rows, mishaps and
days are counted by constants in the guards (`MaxPuts`, `MaxClock`, `MaxRestarts`,
`MaxAge`, `MaxMishaps`, `MaxDay` ..., each named and explained in its module). Of
`passes`, Movie of the Night's looks back one day and keeps three, so that within three
days a read comes too late, an addition lapses, a service is left behind and caught up;
one page a pass and two requests a day cut reads off by both limits, and one mishap
falls at every step there is. TVmaze's three series are one more than the two lanes, so
that a batch outlives a turn; maintenance waits for one series instead of four.
`keepers`' discover serves two pages of one title, over two dates: a range of three
titles must be halved; two mishaps put a crash after a failed write. The filter's six
titles hold every pair of tiers, kinds and types that a selection of two items tells
apart: a single-valued and an and kind, an OR group, an exclusion, a value merged of two
tiers, an entity kind with more values than it lists, one with too few titles and one
outside the list it offers, a title's row, and titles without enough votes. Three hours
a day let a retry fall before and after midnight, and three days let a half pair grow
too old.

Deadlock is looked for but where the system may really stop: `shared` and
`rows_set_back` when the rows to store or the requests run out, `embed_unready`
likewise, `keepers` at the last day with everything asked, `serving` when the process is
gone. The violation runs are about the code as it is, each with the line it disagrees
with in "findings".

Fairness. Weak for what the tokio runtime runs by itself (a ready task is
polled, a spawned blocking pass or load runs, a timer fires, an upstream call ends
within the client's timeout), strong for what queues in tokio's mutex and
semaphore, which are first come first served. Nothing is assumed of clients: they
may come, go, or stop at any await. `rows` adds that JustWatch answers again and
again (`Recovers`); `serving`'s TVmaze refuses nothing for good (see
"Disagreements" for when it does), and boot settles its votes and links; `gates`
does not even assume that a bounded wait ends.

## What is proved

For every number of tasks, rows, services, series, shows, titles, texts and permits. The
assumptions are named in the modules and evaluated by TLC on every run: finite sets of
tasks, services and titles, well-typed constants, bounds that are numbers, and of the
configuration only what the code's own constants satisfy (`TmdbAssumption`: an answer
the proxy kept is younger than what is asked again or dropped; `TvmazeAssumption`,
`MaturityAssumption`, `BackoffAssumption`, `TitlesAssumption`, `ProxyAssumption`,
`EmbedAssumption`, `GraceAssumption`; `FilterAssumption`: values are listed once, a
title is in one tier of a value's kind (`TiersApart`), a question names values of its
kinds, one a kind does not hold being one no title carries, and a page has room for a
title; `OrderAssumption`: no title is both a film and a series, votes and probabilities
are numbers, and a row names a title once). Each theorem is an inductive invariant, its
initial states, a lemma for each action that touches it, and what it implies.

`GatesProofs`

- `InflightGates`: the invariant, one refresh per row, no wanted gate
  swept, and that the gates implement `SingleFlight`. The count in the sweep is
  the crux: a task other than the sweeper with a handle makes three
  (`TwoHandles`).
- `AdmissionGate`: the invariant; bounded work; the counters' range and no
  idle permit (together `GateAlwaysTells`). `PermitsBalance` counts requests by
  where they are, so most steps
  are one lemma (`MoveStep`: a request that goes from one place to another takes
  its share of each count along); a permit that comes back moves two requests at
  once (`ReturnKeeps`), and needs the queue to hold exactly those who wait, once
  each (`WaitersQueue`).

`CatalogRowsProofs`

- `RowFetch`: the invariant, the ceiling on calls, that no request
  fetches over a fresh row, that a kept whole row stays whole and is what a
  failed fetch answers with, and that an answer called fresh is whole. The
  ceiling needs `PermitsBalance` (what is left, in flight and orphaned adds up)
  and `CallsInPlace`; the freshness needs `HoldersRefresh`, since only the holder
  of a row's gate stores it, and `KeptComplete`, since a row that has no list to
  lead it is only ever kept whole.
- `CatalogRows`: every behaviour of the requests and the refresher is one
  of `RowFetch` (a pass holds rows only), so the ceiling and the freshness hold
  of them too; and what is remembered stays distinct and within the cap, the
  rows asked for longest ago being those that lapse (`RowsAreBounded`).

`MotnPassProofs`

- No day sees more requests than its budget, whatever is
  lost or restarted (`RecordedFirst`: what went on the wire is in the file's
  count, and memory is never behind the file; all steps but a request's own
  leave the counts alone, `CountsKept`); and no service's additions have a hole,
  in memory or in the file. The latter needs `Cursors`: a service read on its own
  is behind the country and goes on from where it is covered, and the country's
  read is of services as far as itself, so neither kind of read can overtake the
  other (`FoldLists`). Both hold of any snapshot `k`, so a restart costs nothing.

`TvmazePassProofs`

- The invariant (`IInv`); whoever waits is told; nothing wanted
  is left untried by a pass no pause cut off; maintenance has its turn; no answer
  is lost. `AllTried` strengthens the third to the moment the pass has nothing
  more to choose, which needs that `ColdJobs` is the first jobs of the wanted and
  unanswered (`NoColdJobs`) and that a job, once tried, stays tried as `kept`
  grows (`WantingKeeps`). `held <= since` is what makes `MaintenanceTurns`
  inductive: the pass counts no fewer series than maintenance waits through.
  `NoAnswerIsLost` goes through each change of `kept` (`PrunedKeeps`: pruning
  leaves the answers of what is still wanted).
- Each series has one place in the lanes (`EachSeriesHasOnePlace`). `LanesOK`
  adds that no batch is empty and that no two share a series. A turn of a lane
  is what stands from the job on, then what stood before it and is not answered
  (`SinglesTurnedFacts`, `BatchesTurnedFacts`), so nothing is doubled or lost.
  A restart queues what is wanted as one batch, which is a
  sequence only because finitely much is wanted (`FewWanted`).

`SharedProofs`

- `RowCacheFile`: the invariant tying the flag, the coordinators and the
  generations; one writer; nothing forgotten; the file never goes back.
  `NewestRowsSurvive`: while the clock was never set back (`steady`) the times follow the puts
  (`TimesFollowPuts`) in memory, in every snapshot, in the file and in the one beside
  it (`SteadyInv`), which a put keeps since it stamps the latest time there is
  (`PutFollows`) and a restart keeps since it reads one of those (`SteadyStep`).
- `EmbedProxy`: `ProxyIInv`. A request's own call runs exactly while it waits for
  a vector (`OwnCalls`), and permits are kept at named places only
  (`PermitsKept`): so whatever ends a request leaves nothing in the line, in a
  class or in the service, and whoever waits there is admitted already.
- `TitleExports`: `TitlesIInv`, for every length of day. A pass after one that
  built wakes on a later day (`LaterDaysTried`), so it never tries a day before
  the index's; a pair that waits is of a day a pass still tries and lacks one half
  (`OthersWait`). The arithmetic of hours and days is `DaysOfHours`.
- `FilterAnswers`: `AnswersTell` (`AnswersAreTold`; `CountsAreTold` its first
  half). That what is worked out
  tells is a fact of the operators (`WorkedOutTells`): a value counted under the
  base is the selection with it in the place of what it replaces
  (`WouldBeCounted`, from `StaysOrApart`), the two tiers being disjoint and so
  counted apart (`CountedIsTallied`), and one left out of an entity kind's top has
  `TopK` listable ones ahead of it, hence no more than any listed (`FirstFew`), or is
  not listable, and then nothing is told of it. The invariant
  says that what a derived part keeps of the empty selection is worked out of its
  own votes (`KeptOf`), that whoever holds a part read those votes (`HeldOK`),
  whatever is swapped meanwhile, and that an answer is of those (`AnsweredOf`).
- Its pages, `PagesTell`: a set in an order is a sequence with each member at its
  rank (`InTheOrderFacts`). The merge keeps two counts that only grow
  (`PlacedWithin`, `PlacedGrows`), and what it compared at each of two turns
  compares their titles' shares (`EachPlace`, `PlacesCompare`): so it places all of
  both types (`InterleavedAhead`). A like's row holds what matches the like
  (`LikeHolds`). The sure and the likely part joined are the walk (`PartsInOrder`);
  a page that does not reach the likely ones ends among the sure
  (`PageIsCut`); and cuts where the last ended join into the whole (`CutsJoined`),
  the last page ending with the walk (`FullPages`).

`ServingProofs`

- `Drain`: `GraceKept`; the clock counts what was waited, and no connection is
  cut while it has grace left.
- `IndexLoad`: `LoadInv`, by `LockKept` (who is past the lock is first in line,
  there is no index yet, and only there is there a load), `SettledBefore` (what
  has settled by each step of a call) and `BareWithoutBoot`.
- `EmbedService`: `WorkKept`. The permit is the running job's (`PermitKept`); a
  failed load nobody was told of has a request about to be told (`FailureOwed`);
  and the model is loaded for a text without a vector since the vectors do not
  change while the job that looked has the permit (`NeedsModel`).
- `EmbedCache` implements `RecencyCache` for every capacity. The slots are mapped
  to a list by their ticks: the n-th is the slot with n - 1 ticks below its own,
  and since no two slots share a tick this is a permutation; a use moves its slot
  past all others, and an eviction takes the first.

`KeepersProofs`

- `EmbedMemo`: one writer, and no vector left out. `Owed` is who is going to see
  that the map was marked; what the file lacks, somebody takes, writes or is owed.
- `UpstreamBackoff`: `WaitedOut`; no pause exceeds the longest, and the end of
  the pause never falls below what was promised since the last answer.
- `MaturityFacts`: `MaturityInv`. A generation's facts stay as published
  (`Numbered`); what the view does not show makes the refresh publish
  (`ShownOrAltered`); what a round found and what it charged is in the file, or the
  file is owed it (`ChargesFiled`), also when a lookup failed in the middle;
  `CheckedBehind` counts how many titles ago the refresh was
  at each, so that a round that visited the whole catalogue missed none, wherever
  its cursor began.
- `TmdbRefresh`: `TmdbInv`. `Covered` says that each title discover can reach
  is ahead of the sweep or has the sweep's count; it holds of the state and the
  votes in memory, of the state in the file and both (`StatesCovered`), which the
  order of the three writes keeps (`WrittenInOrder`). A page carries it on
  (`CarriedCovers`): what was ahead and is no more was on the page just answered,
  or is in one of the halves, which start again at their first page (`PageWithin`:
  a title of a slice is on one of its pages, so a slice within the cap asks for
  it). `CreditsHeld` and `NothingOldHeld` say
  where the credits are at each phase and how old they may be, `TickFills` what a
  question not asked yet will still bring.

Only model-checked:

- everything under fairness (`WaitersMove`, `FetchEnds`,
  `ExpiredIsReplaced`, `RowReachesFile`, `RequestsLeave`, `WantedIsAnswered`,
  `GetEnds`, `IdleFreed`, `StopEnds`): liveness is out of the prover's reach;
- `LastAskedKept`, which is about a history that `MCAskedRows` keeps beside the model.

Every other invariant and action property that a passing run checks is stated by a theorem.
No theorem of the library on induction is used, since those take an operator as a
parameter: where a sequence of any length needs one (`PlacedWithin`, `CutsJoined`),
the proof takes the least place where the claim would fail (`LeastOf`, from the
order of the numbers being well founded).

No module declares a recursive operator. The violation runs' properties do not hold, so there is
nothing of them to prove.

## Disagreements

Besides those of "findings", reading and modelling met behaviour that differs
from what a comment says, or that a reader may not expect. None is a property of a
passing run; the models contain most of it.

- `cache.rs:274`: a writing pass that panics counts as caught up (`unwrap_or(true)`),
  so a row stored while it ran waits for the next put; lines 29 and 192 promise a
  follow-up. (`SavedOrPending` excepts a failed pass.)
- `tvmaze.rs:509`: an opened title whose lookup TVmaze always fails is put back at
  the front of its lane (line 222), each pass asks it first and is ended by the
  pause its refusal starts, and a following is never asked about; lines 149-150
  say no opens can monopolise the lane. (`Refused` in `TvmazePass` shows it: with
  one such job `WantedIsAnswered` is violated.)
- `embed/src/lib.rs:676`: the request that was told of a failed load notes it after
  its job gave the permit back; a later load may have succeeded and cleared the
  note (line 279) before. `/health` then reports degraded until the next load,
  against lines 330-331.
- `embed/src/lib.rs:1018`: the unloader reads the last use before it waits for the
  model's lock, so a model used meanwhile can be dropped as idle.
- `main.rs:697`: den-atlas returns from `main` after the drain, and dropping the
  runtime waits for its blocking threads, so the process may outlive the grace that
  lines 899-902 size to the stop timeout; den-embed exits for that reason
  (`embed/src/lib.rs:1155`). (`ExitsInGrace` is checked of den-embed alone.)
- `handler.rs:798`: `/embed` before the engine is ready, or after its canary failed,
  answers 502 `embed_upstream_failed`; README.md:460 says it answers 503. A canary
  that fails once, or takes longer than a call may (10 s, a cold model's load
  included), is not tried again (`main.rs:593`).
- `handler.rs:2331`: `/recommend` holds its cpu permit while it waits up to a call's
  time for the embedding service and then for rows, so a slow engine holds up
  searches, which need the same permits.
- `util.rs`: the answer to a call made before a refusal ends the pause of that
  refusal; n calls refused at once double the pause n times.
- `tmdb.rs`: a tick starts a day after the last, so `spent` never limits one, and a
  tick that runs past midnight charges the day it began; two ticks in a row that
  stop before the changes feed lose its changes (line 736 asks from the last
  tick's start); with no proxy nothing expires after boot (line 57); after a
  writer's panic the rebuild reads the credits back whatever their age (line 489).
- `queries.rs:1300`: a load that panics leaves `store_unusable` as it was.
- First boot without kept counts: the indexes load without votes, and the counts a
  later refresh brings reach them only after a restart.
- `maturity_providers.rs:680`: a lookup that always fails keeps the cursor on its
  title, and its authority gets no further; a crash forgets the budget spent since
  the last write.
- `titles.rs:77`: a corrupt export is kept, so the hourly retries build from the
  same bytes, and do not try yesterday's, until its day is no longer tried.
- `filter.rs:1640`: `order` fingerprints the order alone; a walk under a rating
  threshold may repeat or skip titles when scores change and the order does not.
  And an and kind's OR group has each of its values counted by itself, not as the
  group's union (line 2246 can be read either way).

## What is not modelled

The components listed in `PROJECT.json` as not modelled, each with its reason: HTTP
routing and rendering, aggregate
ranking, recommendations, the other query algorithms, the store, developer pages
and tools. Within the modelled ones: what rows hold (titles, ranks, posters),
logging, metrics; the sizes of bodies; the order in which a `HashMap` yields equal
ages; an upstream's protocol and the parsing of its answers; episodes of a show;
the vectors themselves; of the embedding proxy the warm-ups of the other index
routes and the wire formats; of the filters `values/<kind>.json`, people and similar
routes, labels, coverage and the build of the index.

## Plan

In this order; each with its MC module, runs and, where marked *, proofs.

1. Refinements: an abstract bounded pool that `AdmissionGate` implements; that a
   restart of `MotnPass` and `TmdbRefresh` implements a process that never stopped.
2. Pure operators with reference definitions: aggregate ranking, led rows, paging
   of rows, ETag and Range, franchises, versions; `values/<kind>.json`.
3. Of `MotnPass`: which list each service is served (a coming read of other
   services than the leaving read), and the pauses of `UpstreamBackoff` in place
   of the open one.
