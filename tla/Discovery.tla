------------------------------ MODULE Discovery -----------------------------
(***************************************************************************)
(* The stage that opens the pipeline: internal/discovery/discovery.go and   *)
(* the scheduler (cmd/scheduler/main.go) that starts it.  A page task of    *)
(* one search is turned into a fetch task for each listing on the page and  *)
(* then, as the last thing the handler does, into the task of the next      *)
(* page.  A handler that is interrupted starts again from the beginning, so *)
(* it may publish its next page more than once.                             *)
(*                                                                         *)
(* Searches share nothing but the workers; the module follows one.  What a  *)
(* page shows is any set of listings, another one at every attempt.  The    *)
(* queue is reduced as in Fetcher: a failed task comes back until its       *)
(* budget is used up, the task of a worker that died comes back at once.    *)
(***************************************************************************)
EXTENDS Integers, FiniteSets, Sequences, Progress

CONSTANTS
    Url,            \* listings the search may show
    MaxPage,        \* Config.MaxPage, as configured
    Slots,          \* handlers at a time: prefetch x workers
    Budget,         \* failures before a task is promoted
    MaxSeeds,       \* bound on the page=1 tasks published from outside
    MaxFaults       \* bound on errors and crashes of one behaviour

ASSUME DiscoveryAssumption ==
    /\ MaxPage \in Int
    /\ Slots \in Nat \ {0}
    /\ Budget \in Nat \ {0}
    /\ MaxSeeds \in Nat
    /\ MaxFaults \in Nat

\* New replaces a value that is not positive.
LastPage == IF MaxPage <= 0 THEN 10 ELSE MaxPage

VARIABLES
    page,       \* the page tasks published so far: the page of each
    where,      \* task |-> where the broker has it
    failures,   \* task |-> its x-death count
    breaks,     \* task |-> deliveries taken back from a dead worker
    step,       \* task |-> how far its handler is
    urls,       \* task |-> the listings its last attempt found
    todo,       \* task |-> those the attempt has still to publish
    fetches,    \* pairs (task, listing): the fetch tasks published by it
    seeds,      \* page=1 tasks published so far, at most MaxSeeds
    faults      \* faults so far, at most MaxFaults

queueVars == <<where, failures, breaks>>
jobVars   == <<urls, todo>>
vars == <<page, queueVars, step, jobVars, fetches, seeds, faults>>

Task  == DOMAIN page
Place == {"queued", "busy", "retry", "done", "dead"}
Step  == {"idle", "fetch", "fanout", "next", "ack"}

\* An attempt publishes at most one next page, and only a fault makes a second
\* attempt of a task.
MaxTasks == (MaxSeeds + MaxFaults) * LastPage

TypeOK ==
    /\ page \in Seq(1..LastPage) /\ Len(page) <= MaxTasks
    /\ where \in [Task -> Place]
    /\ failures \in [Task -> 0..Budget]
    /\ breaks \in [Task -> 0..MaxFaults]
    /\ step \in [Task -> Step]
    /\ urls \in [Task -> SUBSET Url]
    /\ todo \in [Task -> SUBSET Url]
    /\ fetches \subseteq Task \X Url
    /\ seeds \in 0..MaxSeeds
    /\ faults \in 0..MaxFaults

Init ==
    /\ page = <<>>
    /\ where = <<>> /\ failures = <<>> /\ breaks = <<>>
    /\ step = <<>> /\ urls = <<>> /\ todo = <<>>
    /\ fetches = {}
    /\ seeds = 0
    /\ faults = 0

-----------------------------------------------------------------------------
(* The queue.                                                              *)

\* A task for page p is stored in listings.discover; wh, fl and st are what
\* the step makes of the tasks that are there.
Enqueue(p, wh, fl, st) ==
    /\ page' = Append(page, p)
    /\ where' = Append(wh, "queued")
    /\ failures' = Append(fl, 0)
    /\ breaks' = Append(breaks, 0)
    /\ step' = Append(st, "idle")
    /\ urls' = Append(urls, {})
    /\ todo' = Append(todo, {})

Fault ==
    /\ faults < MaxFaults
    /\ faults' = faults + 1

\* A publish of page 1: stored, or not; the caller is told "ok" only if it is.
PublishFirst(told) ==
    /\ seeds < MaxSeeds
    /\ seeds' = seeds + 1
    /\ \/ told \in {"ok", "error"} /\ Enqueue(1, where, failures, step)
       \/ told \in {"error", "unavailable"} /\ UNCHANGED <<page, queueVars, step, jobVars>>
    /\ UNCHANGED <<fetches, faults>>

\* tick publishes the search, at once and then at every interval, and goes on
\* when that fails.
Seed == \E told \in {"ok", "error"} : PublishFirst(told)

\* The API's POST crawl: 202, 500, or 503 when it started without a broker.
Crawl == \E told \in {"ok", "error", "unavailable"} : PublishFirst(told)

Take(i) ==
    /\ where[i] = "queued"
    /\ Cardinality({j \in Task : where[j] = "busy"}) < Slots
    /\ \/ /\ failures[i] < Budget
          /\ where' = [where EXCEPT ![i] = "busy"]
          /\ step' = [step EXCEPT ![i] = IF page[i] > LastPage THEN "ack" ELSE "fetch"]
       \/ /\ failures[i] >= Budget
          /\ where' = [where EXCEPT ![i] = "dead"]
          /\ UNCHANGED step
    /\ UNCHANGED <<page, failures, breaks, jobVars, fetches, seeds, faults>>

\* The handler returns an error.
Fail(i) ==
    /\ Fault
    /\ where' = [where EXCEPT ![i] = "retry"]
    /\ failures' = [failures EXCEPT ![i] = @ + 1]
    /\ step' = [step EXCEPT ![i] = "idle"]

\* Mutant: the retry queue has no TTL.
ExpireNever(i) ==
    /\ where[i] = "retry" /\ FALSE
    /\ where' = [where EXCEPT ![i] = "queued"]
    /\ UNCHANGED <<page, failures, breaks, step, jobVars, fetches, seeds, faults>>

Expire(i) ==
    /\ where[i] = "retry"
    /\ where' = [where EXCEPT ![i] = "queued"]
    /\ UNCHANGED <<page, failures, breaks, step, jobVars, fetches, seeds, faults>>

Ack(i) ==
    /\ step[i] = "ack"
    /\ where' = [where EXCEPT ![i] = "done"]
    /\ step' = [step EXCEPT ![i] = "idle"]
    /\ UNCHANGED <<page, failures, breaks, jobVars, fetches, seeds, faults>>

\* The worker dies with the task in hand.
Crash(i) ==
    /\ where[i] = "busy"
    /\ Fault
    /\ where' = [where EXCEPT ![i] = "queued"]
    /\ breaks' = [breaks EXCEPT ![i] = @ + 1]
    /\ step' = [step EXCEPT ![i] = "idle"]
    /\ UNCHANGED <<page, failures, jobVars, fetches, seeds>>

-----------------------------------------------------------------------------
(* Worker.Handle.                                                          *)

\* Mutant: one page more than the cap.
HasNextOffByOne(i, found) == found # {} /\ page[i] <= LastPage

\* There was anything on the page and the cap is not reached.
HasNext(i, found) == found # {} /\ page[i] < LastPage

\* Where an attempt that found these listings goes when all are published.
AfterFanOut(i, found) == IF HasNext(i, found) THEN "next" ELSE "ack"

\* fetchListingURLs: the listings of the page, none for a 4xx.
FetchListingURLs(i) ==
    /\ step[i] = "fetch"
    /\ \E found \in SUBSET Url :
          /\ urls' = [urls EXCEPT ![i] = found]
          /\ todo' = [todo EXCEPT ![i] = found]
          /\ step' = [step EXCEPT ![i] =
                         IF found = {} THEN AfterFanOut(i, found) ELSE "fanout"]
    /\ UNCHANGED <<page, queueVars, fetches, seeds, faults>>

\* Mutant: the next page is enqueued before the fan-out is complete.
PublishFetchFirstOnly(i) ==
    /\ step[i] = "fanout"
    /\ \E u \in todo[i] :
          /\ fetches' = fetches \cup {<<i, u>>}
          /\ todo' = [todo EXCEPT ![i] = @ \ {u}]
          /\ step' = [step EXCEPT ![i] = AfterFanOut(i, urls[i])]
    /\ UNCHANGED <<page, queueVars, urls, seeds, faults>>

\* One publish of the fan-out; after the last one the handler goes on.
PublishFetch(i) ==
    /\ step[i] = "fanout"
    /\ \E u \in todo[i] :
          /\ fetches' = fetches \cup {<<i, u>>}
          /\ todo' = [todo EXCEPT ![i] = @ \ {u}]
          /\ step' = [step EXCEPT ![i] =
                         IF todo[i] = {u} THEN AfterFanOut(i, urls[i]) ELSE @]
    /\ UNCHANGED <<page, queueVars, urls, seeds, faults>>

\* The task of the next page is published, the last thing the handler does.
PublishNext(i) ==
    /\ step[i] = "next"
    /\ Enqueue(page[i] + 1, where, failures, [step EXCEPT ![i] = "ack"])
    /\ UNCHANGED <<fetches, seeds, faults>>

\* Mutant: a failed publish is logged and the task acked.
HandlerErrorIgnored(i) ==
    /\ step[i] \in {"fetch", "fanout", "next"}
    /\ Fault
    /\ step' = [step EXCEPT ![i] = "ack"]
    /\ UNCHANGED <<page, queueVars, jobVars, fetches, seeds>>

\* The limiter, the request or a publish fails, and nothing came of it.
HandlerFails(i) ==
    /\ step[i] \in {"fetch", "fanout", "next"}
    /\ Fail(i)
    /\ UNCHANGED <<page, breaks, jobVars, fetches, seeds>>

\* A publish of the fan-out returns an error although the broker has it.
PublishFetchUnconfirmed(i) ==
    /\ step[i] = "fanout"
    /\ Fail(i)
    /\ \E u \in todo[i] : fetches' = fetches \cup {<<i, u>>}
    /\ UNCHANGED <<page, breaks, jobVars, seeds>>

\* Mutant: an unconfirmed next page is published again on the spot.
PublishNextAgain(i) ==
    /\ step[i] = "next"
    /\ Fault
    /\ Enqueue(page[i] + 1, where, failures, step)
    /\ UNCHANGED <<fetches, seeds>>

\* The same for the next page: the task comes back and its chain forks.
PublishNextUnconfirmed(i) ==
    /\ step[i] = "next"
    /\ Fault
    /\ Enqueue(page[i] + 1, [where EXCEPT ![i] = "retry"],
               [failures EXCEPT ![i] = @ + 1], [step EXCEPT ![i] = "idle"])
    /\ UNCHANGED <<fetches, seeds>>

Handle(i) ==
    \/ FetchListingURLs(i)
    \/ PublishFetch(i)
    \/ PublishNext(i)

\* Every task is settled and no seed is left to come.
Idle ==
    /\ seeds = MaxSeeds
    /\ \A i \in Task : where[i] \in {"done", "dead"}
    /\ UNCHANGED vars

TaskStep(i) ==
    \/ Take(i)
    \/ Handle(i)
    \/ HandlerFails(i)
    \/ PublishFetchUnconfirmed(i)
    \/ PublishNextUnconfirmed(i)
    \/ Ack(i)
    \/ Expire(i)
    \/ Crash(i)

Next ==
    \/ Seed
    \/ Crawl
    \/ \E i \in Task : TaskStep(i)
    \/ Idle

(* The consumer takes what is queued, a handler goes on, and the retry hop   *)
(* ends (Consumer's fairness).  Nothing has to be seeded.                   *)
Fairness ==
    \A i \in 1..MaxTasks :
        WF_vars(i \in Task /\ (Take(i) \/ Handle(i) \/ Ack(i) \/ Expire(i)))

Spec == Init /\ [][Next]_vars /\ Fairness

-----------------------------------------------------------------------------
TasksOf(p) == {i \in Task : page[i] = p}

\* A page task leaves the queue only when every listing it found is with the
\* fetcher and, unless the page was empty or the last, the next page has been
\* enqueued after it: no failure breaks a chain in silence.
AckedIsFannedOut ==
    \A i \in Task : where[i] = "done" =>
        /\ \A u \in urls[i] : <<i, u>> \in fetches
        /\ urls[i] # {} /\ page[i] < LastPage => \E j \in TasksOf(page[i] + 1) : j > i

\* The deliveries of the tasks of a page, each with its number.
Attempts(p) == UNION {{i} \X (0..(failures[i] + breaks[i])) : i \in TasksOf(p)}

\* A chain is never longer than the attempts that were made of it: page p + 1
\* is enqueued at most once per delivery of page p, and page 1 once per seed.
\* So without faults a seed walks each page once.
ChainsBounded ==
    /\ Cardinality(TasksOf(1)) <= seeds
    /\ \A p \in 1..(LastPage - 1) : Cardinality(TasksOf(p + 1)) <= Cardinality(Attempts(p))

\* The next page is the last thing a handler does: when it is enqueued, every
\* listing of the page before it has been handed over.
NextAfterFanOut ==
    [][Len(page') > Len(page) /\ page'[Len(page')] > 1 =>
          \E i \in Task :
              /\ step[i] = "next" /\ page'[Len(page')] = page[i] + 1
              /\ \A u \in urls[i] : <<i, u>> \in fetches]_vars

TaskRank(i) ==
    IF where[i] = "retry" THEN 6 ELSE IF where[i] = "queued" THEN 5
    ELSE IF step[i] = "fetch" THEN 4 ELSE IF step[i] = "fanout" THEN 3
    ELSE IF step[i] = "next" THEN 2 ELSE IF step[i] = "ack" THEN 1 ELSE 0

\* What is left to do: the tasks that can still be published, the way each task
\* is from being settled, and the listings its handler has still to publish.
WorkLeft ==
    <<<<MaxTasks - Len(page)>>,
      [i \in 1..MaxTasks |-> IF i \in Task THEN TaskRank(i) ELSE 0],
      [j \in (1..MaxTasks) \X Url |-> IF j[1] \in Task /\ j[2] \in todo[j[1]] THEN 1 ELSE 0]>>

\* A crawl does not run in circles: a step that is neither a seed nor a fault
\* leaves less to do, whatever the pages show.
WorkRunsOut ==
    [][\/ seeds' > seeds
       \/ faults' > faults
       \/ Lower(WorkLeft', WorkLeft)]_vars

\* Pagination ends: when the seeds stop, every page task is settled, whatever
\* the pages show.
CrawlSettles == <>[](\A i \in Task : where[i] \in {"done", "dead"})
=============================================================================
