# Verification of real-estate-robot

TLA+ models of the crawler pipeline in `src/`, the TLC runs that check them on
small instances, and TLAPS proofs of what holds for every instance.

The system is a pipeline of worker processes around RabbitMQ and PostgreSQL.
A scheduler publishes searches; *discovery* turns a search page into listing
URLs, *fetcher* stores their pages, *parser* writes sellers, listings and
snapshots, *enricher* goes from a seller to more listings. A classifier (SQL
views) scores the sellers and an HTTP API with a React frontend shows them.
What is hard about it is what happens between a database, a broker and
processes that all fail separately: redelivery, retries, a confirm that never
comes, a crash between two writes, gates that are read and written at different
times.

## Inventory

| Component | State | Operations | Talks to | What must hold |
|---|---|---|---|---|
| `queue/consumer.go` | goroutines per delivery, prefetch window | `NewConsumer`, `Run`, `dispatch`, `xDeathCount` | broker; handler; publisher | nothing lost; one owner per message; budget exact; concurrency capped; everything is settled |
| `queue/publisher.go` | channel in confirm mode, mutex, returns | `Publish`, `PublishDead`, `watchReturns`, `Close` | broker | confirmed before nil; no publish blocks the others for ever |
| `queue/topology.go` | exchanges, queues, bindings | `Declare` | broker | retry and dead queues are there before the work queue that refers to them |
| `fetcher/fetcher.go` | `listing_html_fetches`, rate limiter | `Handle` (gate, fetch, insert, publish) | DB, HTTP, broker | one fetch per window; a stored page is parsed |
| `parser/worker.go` | `sellers`, `listings`, `listing_snapshots` | `Handle` (one transaction, publish) | DB, broker | tables whole; transactions never wait in a circle; publish after commit; newest page wins; history complete |
| `parser/parser.go` | none | `Parse` and helpers | - | total, deterministic |
| `discovery/discovery.go` | none | `Handle` (fan-out, next page) | HTTP, broker | pagination ends; every page is fanned out |
| `enrich/enrich.go` | `sellers.last_enriched_at` | `Handle` (gate, fan-out, mark) | DB, HTTP, broker | the crawl cycle ends; marked only after the fan-out |
| `cmd/scheduler` | ticker | `tick` | broker | every search is published in the end |
| `migrations/`, `classifier.sql`, `cmd/classify` | `seller_stats` (materialized), `manual_label` | views, refresh, label, ranking | DB | score in [0,1]; label wins; refresh catches up and never goes back |
| `api/server.go` | refresh goroutine | listings, dropdowns, counts, label, crawl, background refresh | DB, broker | agencies are cut off a full page first; no stale view hides a listing |
| `frontend/` | filters, listings | fetch, optimistic label | API | shows the answer to the last question |

The hazards in `PROJECT.json` say line by line what can go wrong and which
property would notice.

## Modules

| Module | Models | Run with |
|---|---|---|
| `Delivery` | the promise of a stage: at-least-once delivery, abstractly | instance of `Consumer` |
| `Consumer` | one work queue with its retry and dead siblings, its workers and their publishers | `MCConsumer` |
| `Discovery` | discovery `Worker.Handle` with its self-pagination, and who seeds it: the scheduler's tick and the API's crawl | `MCDiscovery` |
| `Fetcher` | `Fetcher.Handle` over the table of fetches | `MCFetcher` |
| `Parser` | parser `Worker.Handle` over its three tables, and what `Parse` makes of each kind of page | `MCParser` |
| `Enricher` | enricher `Worker.Handle` over `last_enriched_at` and its two queues | part of `Crawl` |
| `Crawl` | the cycle: `Enricher` composed with what fetcher and parser make of a fetch task | `MCCrawl` |
| `Classifier` | the score, the tables it is computed from, the materialized view and its two refreshers, `cmd/classify` | part of `Dashboard` |
| `Dashboard` | the API over `Classifier`: what it reads, and the labels it writes | `MCDashboard` |
| `Progress` | what it means that a step leaves less to do: a measure of several vectors, for `Consumer`, `Discovery` and `Crawl` | part of each |
| `ConsumerProofs`, `ConsumerCounting` | theorems about `Consumer` | TLAPS |
| `DiscoveryProofs`, `FetcherProofs`, `ParserProofs`, `CrawlProofs`, `DashboardProofs`, `ProgressProofs` | theorems about the module each extends | TLAPS |

Names are the code's where it has one (`dispatch`'s branches are
`StartHandler`, `StartPromotion`, `HandlerFails`, `PublishDead...`, `Ack`).
Operators introduced by a comment `Mutant:` are deliberately wrong variants of
the definition that follows them; they are no part of the specifications and
show that each property notices the bug they stand for.

### Consumer

`loc` is where the broker has a message, `held` what is unacked on each
worker's consume channel, `rejected` and `expired` the two counts of its
x-death header, `dead` how many copies are in the dead queue. `pc` and `seen`
are the dispatch goroutine of a delivery: where it is, and the deathCount it
read. `handled`, `runs`, `breaks` and `faults` are history.

A goroutine takes one action per call that another system sees: the call of
the handler, its return, the promotion, the ack or nack. Faults are a channel
that closes, a publisher's connection that closes, a promotion that is not
confirmed (the copy stored or not), a cancelled context and a crash. After
`LoseChannel` the goroutines go on while the broker has taken their messages
back; their answers go nowhere (`Owns`). A handler is a black box that returns
nil or an error, at any time. Queue order, message bodies and priorities are
left out: a stage's handler may be called in any order anyway.

`DeliverySafe` and `DeliveryKept` say that the stage implements `Delivery`,
under the mapping `Status`, its safety part whatever fails and the whole of it
once faults have stopped.

`WorkLeft` is what is left to do, most important first: the failures each
message still has, how far it is from being settled, the goroutines, the workers
that have to come back. `WorkRunsOut` says that every step lowers it that is
neither a fault nor the requeue of a promotion the dead publisher refused: no
order of deliveries, retries, promotions and restarts goes in circles.

### Discovery, Fetcher and Parser

They reduce the queue to what `Consumer` shows of it: a task whose handler
failed comes back after the retry hop until its budget is used up, one whose
worker died comes back at once, and `Slots` handlers run at a time. They keep
every step of the handler that another system sees, since each can be the last.

`Discovery` follows one search, since searches share only the workers. `page`
is the log of the page tasks published so far and a task is an index into it.
What a page shows is chosen anew at every attempt, as a search changes while it
is walked. A fault is an error of the limiter, the request or a publish (which
may be stored all the same) or a crash; only faults make a task come back, so
`MaxTasks` bounds the log without a guard. `Seed` is one publish of the
scheduler's tick, `Crawl` the API's request, which may also find no broker; both
may report an error for a task that is stored. Tasks published by hand for
other pages are left out. `Attempts` is the set of the deliveries of a page's tasks,
each with its number; `ChainsBounded` compares it with the tasks of the next
page. `WorkLeft` is the tasks that can still be published, how far each task is
from being settled, and what its handler has still to publish.

In `Fetcher` time is an integer clock, shared by the worker and the database; a
row is a URL, a time and whether it has a page. HTTP answers are the three
classes the code tells apart. The rate limiter only delays a handler and is
not modelled.

In `Parser` a page has a kind. One with OLX's state says which listing it is and
whose, whatever URL it was fetched from, its content (what `snapshotHash` covers)
and the seller's registration date, which may be missing; one without it, or
whose literal is cut off, gives a listing and a seller named after its URL
(`fallbackParse`); one whose state does not decode or has no id fails for ever
(`ParseFails`); and a row without a page, which only a task published by hand can
name, is acked and nothing is done (`SkipWithoutHtml`). The statements of the
transaction take their row locks one by one, each waiting for the transactions
that hold the row, and their writes become visible at the commit.

### Enricher and Crawl

In `Enricher` a handler looks the seller up, passes the gate, reads the profile,
publishes fetch tasks and marks the seller, one action per call. Of the time
only the freshness window matters: `WindowPasses` ends a seller's window at any
moment, `MaxWindows` times in a behaviour. The retry hop is no more than a
delay, and tasks for one seller differ only in their x-death count, so a queue
is how many copies of each there are; a task in a slot is not in the queue, and
`Crash` and `HandlerFails` put it back. `owed` and `visits` are history.

`Crawl` closes the cycle. Of the fetcher and the parser it keeps what comes of a
fetch task: the seller's row and an enrich task (`FetchAndParse`), the same with
the task coming back (`ParseAgain`), or nothing (`NotFetched`: a 4xx, the dedup
gate or a dead task). That is what `Fetcher` and `Parser` show in detail. The
fetcher's gate may stay open for ever here, so that whatever ends the cycle is
the enricher's. `WorkLeft` starts with the visits that each seller can still have,
since it is only they that make new work: a visit gives fetch tasks, these give
enrich tasks, and the gate stops those.

### Classifier and Dashboard

A score is a whole number of hundredths (`NUMERIC` with two decimals in the
code). One set of areas stands for the nullable text columns `city`, `district`
and `property_type`, which the queries treat alike. What OLX says of a seller's
account is fixed at the start, any of its values; the rest of a row changes with
every `Parse`, which is the parser's transaction as `Parser` has it.

`REFRESH MATERIALIZED VIEW CONCURRENTLY` is two actions: `RefreshBegin` takes
the statement's snapshot and asks for the view's lock, `RefreshEnd` makes the view
say what was read, and commits, labels, crashes, errors and the wait for another
refresh come in between. `refreshes` is the line of the statements under way, whose
first holds the lock. Its two callers are the API's goroutine
(`StartBackgroundRefresh`) and `cmd/classify -refresh`. A caller that fails, times
out or dies leaves its statement behind (`Abandon`), and the database may still end
it or cancel it. The snapshot and the request for the lock are one step: that two
statements might stand in line in the other order than they took their snapshots,
an instant in the database, is left out.

`ListListings` is an operator on the state, since the request is one query. It has
the query's filters, order and LIMIT; among rows that are equal to the order any
may be cut off, so it gives the set of pages that may be returned, and `Pages` those
of a request with the API's defaults and its cap on the limit. `LabelSeller` is a
PATCH whose `UPDATE` is committed; one that fails, names a seller that is not
stored or asks for a text that the column's CHECK refuses changes nothing. What
the answer says is no state of the model: it may be 500 after a commit whose reply
was lost, and it is 200 where no row matched.

## Runs

| Run | Instance | Shows |
|---|---|---|
| `consumer_safety` | 2 messages, 2 workers, prefetch 2, budget 2, any 2 faults | the invariants of `Consumer` but the cap, `DeliverySafe` and `WorkRunsOut` |
| `consumer_live` | 2 messages, 2 workers, prefetch 0 (so 1), budget 2, 2 faults, publishers keep their connections | `DeliveryKept`, and `ConcurrencyCapped` where messages exceed the cap |
| `consumer_nil` | 1 worker, 1 fault | `Run` returns nil on a dead channel, against its doc comment |
| `consumer_exhausted` | 1 worker, 1 fault | with a dead publisher an exhausted message loops at the head of the queue and never reaches the dead queue |
| `discovery_crawl` | 1 seed, pages up to 2, 2 listings, 2 handlers, budget 2, any 2 faults | chains neither break nor multiply beyond their attempts; pagination ends, and every step but a seed or a fault leaves less to do |
| `fetcher_gate` | 3 tasks, 2 URLs, 2 handlers, window 2, clock to 2, 1 crash | the gate's window and the order of insert and publish |
| `fetcher_lost` | 1 task, window longer than the retry TTL | a failed publish loses the page: the retry is skipped by the gate |
| `parser_safety` | 2 pages of any kind, 2 listings, 2 sellers, 1 other URL, 2 contents, 2 dates; 2 handlers, 1 failure each, 1 crash | the tables stay whole, in every order of two transactions; handlers that wait for each other's rows never wait in a circle, and every task is acked or promoted |
| `parser_stale` | 2 pages of one listing, retries | an older page overwrites a newer one |
| `parser_history` | 3 pages of one listing | a change back leaves no snapshot |
| `crawl_cycle` | 1 seller with 2 listings, 2 handlers, 2 tasks from outside, 1 window that passes, 1 fault | nothing is marked before its fan-out; the gate bounds the visits; the cycle ends by it, since every step but a seed, a fault or the end of a window leaves less to do |
| `dashboard_api` | a private and a business seller, 2 listings, 30 days old or without a date, 2 commits, any labels, both refreshers, 1 fault; pages of 0 or 1 row and a limit above the cap | rankings are current, the view never goes back and catches up; what a full page leaves out while the view is stale and labels come and go |

**Bounds.** `MaxFaults`, `MaxCrashes`, `MaxTime`, `MaxPages`, `MaxSeeds`,
`MaxWindows` and `MaxCommits` bound behaviours and appear in the guards they
bound; `visits` is counted up to `MaxVisits`, one more than its property allows.
Two messages, two workers and prefetch 2 are enough for every race the code
has: one delivery on two workers, two deliveries on one. A budget of 2 tells a
first failure from a repeated and from the last one. Two faults let both workers
lose a channel, or a worker crash while the other one's goroutine is stale. In
`fetcher_gate` three tasks exceed two slots, and a clock to 2 with a window of 2
reaches its edge; in `fetcher_lost` the clock stays inside the window, as 60 s
are inside 30 minutes. In `parser_safety` two transactions cover every pairwise
order of statements and commits. `discovery_crawl` has a page with a successor
and a last one, and two faults exhaust a task or fork a chain twice. In
`crawl_cycle` two handlers meet in the gate, two listings give a fan-out that
fails half way, and the window that passes sends a marked seller round again;
sellers meet only in the slots, so one is enough. In `dashboard_api`
two commits put a listing in between a refresh's snapshot and its end, or change
one, and two refreshes stand in line; two rows exceed a page of one, at the edge of
the filter of 30 days. Its sellers (`PrivateAndBusiness`) are the private one with
the lowest score and the business one with the highest; labels make them any kind.
What a refresh reads depends on none of that. There are no areas (`Area` is empty):
they could only add a second count to what a refresh reads. They and all other
accounts are left to the theorems.

`fetcher_gate` is checked with symmetry in tasks and URLs, `consumer_safety` with
symmetry in messages and workers, none of which a property names; the liveness
runs are checked without. The Fetcher's runs allow deadlock since its clock
stops at `MaxTime`; all others check it, `Consumer`, `Discovery`, `Parser` and `Crawl` with an
action for the settled state.

**Fairness.** `Consumer` assumes that the broker delivers to a worker that can
take a message and expires the retry TTL, that a goroutine that was started
runs and its handler returns (each HTTP request has a deadline, `httpc.New`),
that a process whose goroutines are done returns, and that a process that ended
is restarted (`restart: unless-stopped` in `docker-compose.yml`). It assumes
nothing about faults, handlers' results or publishers upstream. `Discovery`,
`Parser` and `Crawl` assume the same of their reduced queues: a task that can go on
without a fault does. In `Parser` a handler that waits for a row lock goes on only
when it gets it; nothing else has to fail. Nothing has to be seeded, to fail, or to age out of a window.
`Dashboard` assumes that the API is restarted (also by `docker-compose.yml`), that
its ticker ticks, and that the refresh that holds the view's lock ends: it is one
statement on the database, which waits for nothing then. The lock is granted in the
order of the requests, so the API gets it although `cmd/classify` may be run again
and again; weak fairness is enough. Nothing makes `cmd/classify`
run or the parser commit. `Consumer`'s
liveness is checked with `PublisherMayDrop = FALSE`: `consumer_exhausted` shows
what happens otherwise.

## Proofs

Each holds for any sets of messages, tasks, URLs, sellers, pages, areas and any
numbers of workers, handlers, budgets, windows and faults, under the
assumptions of the module: `ConsumerAssumption`, `DiscoveryAssumption`,
`FetcherAssumption`, `ParserAssumption` with `NoRowIsNoPage`,
`EnricherAssumption` with `CrawlAssumption`, `ClassifierAssumption` with
`ValuesAreDistinct`. They say that numbers are numbers (a prefetch, budget or
last page may also be zero or negative, where the code replaces it), that the
special values are no ordinary ones, and that the tasks of `Fetcher` and the
listings of `Classifier` are finite, since these are counted.

### Consumer

* `TypeCorrect`: `TypeOK` is inductive by itself.
* `InvariantHolds`: the inductive invariant adds to `TypeOK` and the four properties
  below that a process that ended has no channel and no goroutine (`Stopped`), that
  an unpublished message has no past (`Published`), and (`Attempt`) what the
  counters of a message say at each place a goroutine can be: a delivery in hand
  has read the count that the message still has as long as its channel is
  alive, a handler runs only below the budget, a promotion only at it, and an
  ack is pending only for a message that was handled or has a dead copy. None
  of `NoLoss`, `BudgetHonoured` and `OneOutcome` is inductive alone: an ack is
  safe because of what its goroutine did before.
* `NothingLost`, `OwnershipHolds`, `BudgetHolds`, `OutcomeIsSingle` follow.
* `AttemptsAreBounded`: every delivery that has not yet been counted as a run or
  a dead copy is paid for by a rejection, a break or the first delivery; the
  proof counts the undecided goroutines with the library's facts on cardinality.
* `ConcurrencyIsCapped`: while a channel lives its goroutines are the held
  deliveries, of which Qos allows `Cap`; afterwards they only become fewer, and a
  worker is restarted without any.
* `TriesAreBounded`: the sum, for one message, that the retry budget alone does not
  give: handler calls and dead copies are at most `Budget + faults + 1`, since a
  delivery is only taken back by a fault.
* `StageDelivers`: `Spec` implies `Delivery`'s safety specification under the
  mapping, one lemma per kind of step.
* `StageRunsOut`: see below.

### The handlers

Each of these is an invariant of the acked tasks that is not inductive: an ack
is sound because of what the handler did before, so the strengthening says what
has been done at every step of a handler, and one lemma per action keeps it.

* `DiscoveryProofs`: `Published` says what a handler has handed over at its
  fan-out, its last publish and its ack. `AckHolds` gives `AckedIsFannedOut`,
  `NextHolds` the action property `NextAfterFanOut`. The bounds on a crawl are
  about how tasks multiply, and need two counts that are inductive (`CountsHold`).
  `Walked`: the tasks of a page together with the tasks of earlier pages that may
  still lead to it are no more than the seeds and the faults, so a fault forks one
  chain and no more. `Spent`: the tasks of a page together with the open tasks of
  the page before it are no more than the deliveries of that page, so a delivery
  is used once. Every step has one of five shapes (`Shaped`: nothing happens to the
  counts, a task is tried again, seeded, continued, or continued and tried again),
  and the counts are kept shape by shape. `ChainsHold` (`ChainsBounded`) follows
  from the second, `TypeCorrect` with the bound `MaxTasks` from the first, page by
  page.
* `FetcherProofs`: `Placed` and `Recorded` give `TypeCorrect`, `PageThere`
  (`ParseHasPage`), `RecordHolds` (`AckedIsRecorded`) and `PagesParsed`
  (`PageIsParsed`). `WindowHolds` (`OnePerWindow`) needs a potential: while the
  window of a row is open, its rows and the handlers past the gate for its URL
  are together no more than the slots (`Paced`). The gate is what keeps a
  handler from joining them, for the latest row of a URL is inside the window
  (`GateCloses`); an insert turns a handler into a row; and when the first row
  of a window is written, the handlers past the gate are already no more than
  the busy ones (`Capped`).
* `ParserProofs`: `Stored` says what is in the tables at each step past the
  commit, and `Finished` that an acked task has been through it unless its row had
  no page. They give `WholeHolds`, `EnrichHolds`, `AckHolds`, and the action
  properties `RegisteredHolds` and `SnapshotHolds`: a date of registration is not
  lost or changed by any order of commits, and repeated content adds nothing.
* `CrawlProofs`: `Owed` says that what a handler owes the broker is what it has
  still to publish, and only at its fan-out; `MarkHolds` (`MarkedIsFannedOut`)
  follows. `VisitsHold` (`VisitsBounded`) counts handlers (`Gated`): as long as a
  seller is not marked, every read of its profile has a handler at its fan-out or
  its mark, or a fault that took the handler away; the first mark closes the gate,
  after which only the handlers that have passed it may still read.

### Nothing runs in circles

A pipeline whose stages retry, requeue, paginate and feed each other ends only if
something is used up. `StageRunsOut`, `CrawlRunsOut` and `CycleRunsOut` (each
`WorkRunsOut`) say what: a step that is not one of the named exceptions lowers
`WorkLeft` in the order of `Progress`, where the first vector that changes
decides. They rest on the invariants above: that a failure counts against a
budget (`BudgetHonoured`), that page tasks are bounded (`TypeOK` of `Discovery`),
that visits are (`VisitsBounded`). `WorkIsMeasure`, in each of the three modules, says
that `WorkLeft` is always a measure over the constants, with finitely many
indices if those are finite (`IndicesFinite`). `NoEndlessDescent` in
`ProgressProofs` says that no sequence of such measures falls at every step: a
vector that never rises stays as it is in the end, since the sum of its numbers
is a natural number, and so one vector after the other. Together: after the last fault and the last seed (and the last window,
for the cycle; and refused promotions aside, for the stage) a behaviour makes
only finitely many more steps. That reading is the one informal step; what
fairness adds, that it does not stop before all is settled, is liveness and is
left to TLC.

### The dashboard

* `ScoreIsSound` is about the operator, for all of its inputs: it is within 0
  and 100, a label decides it, a private account scores above every business
  account and its score is the sum of the components, and for equal kinds more
  listings, more districts or a younger account never score higher.
* `RankingHolds` and `ViewHolds` follow from `Refreshed`, which is about the whole line
  of refreshes: each knows all that the view shows and all that those before it
  know, one of `cmd/classify` also what was committed at its start, and no caller
  has two. The order of the line is what makes it inductive: without the lock a
  slow refresh could replace a newer view.
* `OwnersHold` (`OwnersComeFirst`) rests on `Stored`, that the seller of a stored
  listing is stored (`StoredHolds`), and on what the score of a private and of a
  business seller can be whatever the view says (`ScoreOfKind`): at least 30 for
  the first, at most 20 for the second, and a label decides. So the default filter
  drops nobody, and the order puts every private seller first.
* `ViewIsExact`: a view that has seen every commit says what the tables say. It
  rests on `Exact`, which says the same of the snapshots of the refreshes under way.
  It is the safety half of `StatsCatchUp`: once the parser stops, the next refresh
  that ends makes the view exact for good.

**Only model-checked.** Liveness under fairness, which is beyond the prover:
`DeliveryKept`, `CrawlSettles`, `CycleEnds`, `StatsCatchUp`, `ParseSettles`. Of the first three
the theorems above give the half that is safety: a behaviour cannot go on for
ever without settling. Of `StatsCatchUp` it is `ViewIsExact`. The invariants and action properties of the passing runs
are all theorems. The five properties that the code violates have runs only. That
the reduced queue of the handlers' modules is an abstraction of `Consumer` is
argued above, not proved: the map would need the history of every delivery.

## Where the code differs from what it says

Each has a run that ends in the violation (see `findings` in `PROJECT.json`):
the page lost behind the dedup gate (`fetcher.go:175`), an old page over a new
one (`worker.go:54`), history that skips a change back (`listings.sql:67`),
`Run` returning nil on a dead channel (`consumer.go:141`), the requeue loop of a
worker without publisher (`consumer.go:172`).

Met on the way and modelled as the code has it, without a run of their own:

* The project's README (92-93) says that permanent 4xx errors are promoted to
  dead. The fetcher records them as a row without a page and acks; discovery and
  the enricher treat them as a page without listings.
* The README (81-84) calls every score the sum of its four components. It is that
  sum kept between 0 and 1 and overridden by a label; the sum is exact for private
  accounts, as `ScoreIsSound` says.
* A label for a seller that is not stored is answered with ok and set nowhere
  (`server.go:263-273`).
* `Publish` promises to return when its context expires (`publisher.go:83-84`),
  but waits for the mutex first, without looking at the context.
* The cap on `limit` (`server.go:128`) is applied before the conversion to 32
  bits, so it does not hold for values below -2^31.

## Not modelled

* In the handlers' modules, the goroutine that outlives its channel, which `Consumer`
  has. It keeps one of its process's places until it returns, so `Slots` still
  bounds it, and what it does is what another task for the same URL, page or row
  would do, but that its answer goes nowhere.
* The inside of `Publisher`: a publish is one step of a handler, with every
  outcome it can have (stored and confirmed, refused, stored but unconfirmed). Its
  mutex, the matching of confirms and the log of returned messages have no effect
  on the stages but time. Messages are always routable, since nothing in the code
  removes a binding.
* The steps of `Declare`: it declares the retry and dead queues before the work queue
  that refers to them, and `cmd/topology` runs it before any worker and again as a
  whole if it failed.
* The walk of `Parse` over the page's literal, the category rules on the
  breadcrumbs, the selectors of links and the cleaning of URLs: pure functions on
  text, with unit tests. What the stages do with their results is modelled.
* Of the API: worker status, which asks the broker's management API; the dropdowns of
  cities and categories and the counts of the statistics, each one query that
  reads; limits that are negative or wrap around; routing and CORS. Of the queries,
  those only `cmd/db-demo` runs.
* The frontend, whose state is that of a page: the order of responses and the
  optimistic label are what a model of it would start from.
* I/O helpers and the one-off tools, but for `cmd/publish` and `cmd/classify`.

## Plan

1. Done: `Consumer` with `Delivery`; `Discovery`, `Fetcher`, `Parser`; `Enricher`
   and `Crawl`; `Classifier` and `Dashboard`; and the theorems above.
2. Done: the bounds of `Discovery` and `WorkRunsOut` as theorems.
3. `Publisher` and `Topology`: mutex, confirms and returns; bindings as state.
4. The frontend's requests and responses over `Dashboard`.
