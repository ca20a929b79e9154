------------------------------- MODULE Fetcher ------------------------------
(***************************************************************************)
(* The fetch stage: internal/fetcher/fetcher.go over the table             *)
(* listing_html_fetches (internal/db/queries/fetches.sql).  A task names a  *)
(* URL; the handler skips it when the URL was fetched recently, and         *)
(* otherwise fetches it, records the answer and publishes a parse task.     *)
(* Every step talks to another system and may be the last before a failure  *)
(* or a crash.                                                              *)
(*                                                                         *)
(* The queue is reduced to what Consumer shows of it: a task whose handler  *)
(* failed comes back after the retry TTL until its budget is used up, and a *)
(* task whose worker died comes back at once.  Time is the database clock;  *)
(* the worker's clock agrees with it.                                       *)
(***************************************************************************)
EXTENDS Integers, FiniteSets, Sequences

CONSTANTS
    Task,           \* messages of listings.fetch
    Url,            \* listing pages
    Slots,          \* handlers at a time: prefetch x workers
    MinRefetch,     \* MinRefetchInterval; 0 disables the dedup gate
    RetryTTL,       \* how long a failed task is parked
    Budget,         \* failures before a task is promoted
    MaxTime,        \* bound on the clock
    MaxCrashes      \* bound on the crashes of one behaviour

ASSUME FetcherAssumption ==
    /\ IsFiniteSet(Task)
    /\ Slots \in Nat \ {0}
    /\ MinRefetch \in Nat
    /\ RetryTTL \in Nat
    /\ Budget \in Nat \ {0}
    /\ MaxTime \in Nat
    /\ MaxCrashes \in Nat

VARIABLES
    now,        \* the clock
    rows,       \* listing_html_fetches, the id of a row is its index
    parse,      \* fetch ids of the parse tasks published so far
    url,        \* task |-> its URL
    where,      \* task |-> where the broker has it
    parkedAt,   \* task |-> when it entered the retry queue
    failures,   \* task |-> its x-death count
    step,       \* task |-> how far its handler is
    rowOf,      \* task |-> the row its handler inserted, 0 for none
    crashes     \* crashes so far, at most MaxCrashes

queueVars == <<url, where, parkedAt, failures>>
vars == <<now, rows, parse, queueVars, step, rowOf, crashes>>

Place == {"unpublished", "queued", "busy", "retry", "done", "dead"}
Step  == {"idle", "gate", "fetch", "insert", "insert4xx", "publish", "ack"}
Row   == [url : Url, at : 0..MaxTime, html : BOOLEAN]

TypeOK ==
    /\ now \in 0..MaxTime
    /\ rows \in Seq(Row)
    /\ parse \subseteq DOMAIN rows
    /\ url \in [Task -> Url]
    /\ where \in [Task -> Place]
    /\ parkedAt \in [Task -> 0..MaxTime]
    /\ failures \in [Task -> 0..Budget]
    /\ step \in [Task -> Step]
    /\ rowOf \in [Task -> 0..Len(rows)]
    /\ crashes \in 0..MaxCrashes

Init ==
    /\ now = 0
    /\ rows = <<>>
    /\ parse = {}
    /\ url \in [Task -> Url]
    /\ where = [t \in Task |-> "unpublished"]
    /\ parkedAt = [t \in Task |-> 0]
    /\ failures = [t \in Task |-> 0]
    /\ step = [t \in Task |-> "idle"]
    /\ rowOf = [t \in Task |-> 0]
    /\ crashes = 0

-----------------------------------------------------------------------------
(* The dedup gate.                                                         *)

RowsOf(u) == {i \in DOMAIN rows : rows[i].url = u}

\* GetLatestFetchByURL: ORDER BY fetched_at DESC LIMIT 1.
Latest(u) ==
    CHOOSE i \in RowsOf(u) : \A j \in RowsOf(u) : rows[j].at <= rows[i].at

\* Mutant: the window is a tick short.
RecentlyFetchedOffByOne(fetchedAt) == MinRefetch > 0 /\ now - fetchedAt < MinRefetch - 1

recentlyFetched(fetchedAt) == MinRefetch > 0 /\ now - fetchedAt < MinRefetch

FetchedRecently(u) == RowsOf(u) # {} /\ recentlyFetched(rows[Latest(u)].at)

-----------------------------------------------------------------------------
(* The queue.                                                              *)

\* Discovery, the enricher or an operator publishes a fetch task.
Submit(t) ==
    /\ where[t] = "unpublished"
    /\ where' = [where EXCEPT ![t] = "queued"]
    /\ UNCHANGED <<now, rows, parse, url, parkedAt, failures, step, rowOf, crashes>>

\* Mutant: a task is retried however often it failed.
TakeUnbounded(t) ==
    /\ where[t] = "queued"
    /\ Cardinality({s \in Task : where[s] = "busy"}) < Slots
    /\ \/ /\ failures[t] <= Budget
          /\ where' = [where EXCEPT ![t] = "busy"]
          /\ step' = [step EXCEPT ![t] = "gate"]
       \/ /\ failures[t] = Budget
          /\ where' = [where EXCEPT ![t] = "dead"]
          /\ UNCHANGED step
    /\ UNCHANGED <<now, rows, parse, url, parkedAt, failures, rowOf, crashes>>

\* The consumer takes a task; one whose budget is used up is promoted.
Take(t) ==
    /\ where[t] = "queued"
    /\ Cardinality({s \in Task : where[s] = "busy"}) < Slots
    /\ \/ /\ failures[t] < Budget
          /\ where' = [where EXCEPT ![t] = "busy"]
          /\ step' = [step EXCEPT ![t] = "gate"]
       \/ /\ failures[t] = Budget
          /\ where' = [where EXCEPT ![t] = "dead"]
          /\ UNCHANGED step
    /\ UNCHANGED <<now, rows, parse, url, parkedAt, failures, rowOf, crashes>>

\* The handler returns an error: the task is parked for RetryTTL.
Fail(t) ==
    /\ where' = [where EXCEPT ![t] = "retry"]
    /\ parkedAt' = [parkedAt EXCEPT ![t] = now]
    /\ failures' = [failures EXCEPT ![t] = @ + 1]
    /\ step' = [step EXCEPT ![t] = "idle"]
    /\ rowOf' = [rowOf EXCEPT ![t] = 0]

Expire(t) ==
    /\ where[t] = "retry"
    /\ now - parkedAt[t] >= RetryTTL
    /\ where' = [where EXCEPT ![t] = "queued"]
    /\ parkedAt' = [parkedAt EXCEPT ![t] = 0]
    /\ UNCHANGED <<now, rows, parse, url, failures, step, rowOf, crashes>>

\* The handler has returned nil: the consumer acks.
Ack(t) ==
    /\ step[t] = "ack"
    /\ where' = [where EXCEPT ![t] = "done"]
    /\ step' = [step EXCEPT ![t] = "idle"]
    /\ rowOf' = [rowOf EXCEPT ![t] = 0]
    /\ UNCHANGED <<now, rows, parse, url, parkedAt, failures, crashes>>

\* The worker dies with the tasks of S in hand: they are queued again.
Crash(S) ==
    /\ S # {} /\ \A t \in S : where[t] = "busy"
    /\ crashes < MaxCrashes
    /\ crashes' = crashes + 1
    /\ where' = [t \in Task |-> IF t \in S THEN "queued" ELSE where[t]]
    /\ step' = [t \in Task |-> IF t \in S THEN "idle" ELSE step[t]]
    /\ rowOf' = [t \in Task |-> IF t \in S THEN 0 ELSE rowOf[t]]
    /\ UNCHANGED <<now, rows, parse, url, parkedAt, failures>>

Tick ==
    /\ now < MaxTime
    /\ now' = now + 1
    /\ UNCHANGED <<rows, parse, queueVars, step, rowOf, crashes>>

-----------------------------------------------------------------------------
(* Fetcher.Handle, one action per call to another system.                  *)

\* The dedup lookup: skip and ack, go on, or fail on a database error.
Gate(t) ==
    /\ step[t] = "gate"
    /\ \/ /\ FetchedRecently(url[t])
          /\ step' = [step EXCEPT ![t] = "ack"]
          /\ UNCHANGED <<queueVars, rowOf>>
       \/ /\ ~FetchedRecently(url[t])
          /\ step' = [step EXCEPT ![t] = "fetch"]
          /\ UNCHANGED <<queueVars, rowOf>>
       \/ MinRefetch > 0 /\ Fail(t) /\ UNCHANGED url
    /\ UNCHANGED <<now, rows, parse, crashes>>

\* The rate limiter and the HTTP round trip, classified: a page, a permanent
\* 4xx, or a transient failure (an error, 5xx or 429).
Fetch(t) ==
    /\ step[t] = "fetch"
    /\ \/ /\ \E s \in {"insert", "insert4xx"} : step' = [step EXCEPT ![t] = s]
          /\ UNCHANGED <<queueVars, rowOf>>
       \/ Fail(t) /\ UNCHANGED url
    /\ UNCHANGED <<now, rows, parse, crashes>>

NewRow(t, html) == [url |-> url[t], at |-> now, html |-> html]

\* Mutant: a failed insert is logged and the task acked.
Insert4xxErrorIgnored(t) ==
    /\ step[t] = "insert4xx"
    /\ \/ /\ rows' = Append(rows, NewRow(t, FALSE))
          /\ step' = [step EXCEPT ![t] = "ack"]
          /\ UNCHANGED <<queueVars, rowOf>>
       \/ step' = [step EXCEPT ![t] = "ack"] /\ UNCHANGED <<rows, queueVars, rowOf>>
    /\ UNCHANGED <<now, parse, crashes>>

\* InsertFetch for a permanent failure, the last thing the handler does.
Insert4xx(t) ==
    /\ step[t] = "insert4xx"
    /\ \/ /\ rows' = Append(rows, NewRow(t, FALSE))
          /\ step' = [step EXCEPT ![t] = "ack"]
          /\ UNCHANGED <<queueVars, rowOf>>
       \/ Fail(t) /\ UNCHANGED <<rows, url>>
    /\ UNCHANGED <<now, parse, crashes>>

\* Mutant: the row of a page is written without its body.
InsertPage4xx(t) ==
    /\ step[t] = "insert"
    /\ \/ /\ rows' = Append(rows, NewRow(t, FALSE))
          /\ step' = [step EXCEPT ![t] = "publish"]
          /\ rowOf' = [rowOf EXCEPT ![t] = Len(rows) + 1]
          /\ UNCHANGED queueVars
       \/ Fail(t) /\ UNCHANGED <<rows, url>>
    /\ UNCHANGED <<now, parse, crashes>>

\* InsertFetch for a page: committed before the parse task is published.
Insert(t) ==
    /\ step[t] = "insert"
    /\ \/ /\ rows' = Append(rows, NewRow(t, TRUE))
          /\ step' = [step EXCEPT ![t] = "publish"]
          /\ rowOf' = [rowOf EXCEPT ![t] = Len(rows) + 1]
          /\ UNCHANGED queueVars
       \/ Fail(t) /\ UNCHANGED <<rows, url>>
    /\ UNCHANGED <<now, parse, crashes>>

\* Mutant: the handler returns nil although the publish failed.
PublishErrorIgnored(t) ==
    /\ step[t] = "publish"
    /\ \/ /\ parse' = parse \cup {rowOf[t]}
          /\ step' = [step EXCEPT ![t] = "ack"]
          /\ UNCHANGED <<queueVars, rowOf>>
       \/ /\ parse' \in {parse, parse \cup {rowOf[t]}}
          /\ step' = [step EXCEPT ![t] = "ack"]
          /\ UNCHANGED <<queueVars, rowOf>>
    /\ UNCHANGED <<now, rows, crashes>>

\* Publish the parse task.  An error may hide a message the broker has stored.
PublishParse(t) ==
    /\ step[t] = "publish"
    /\ \/ /\ parse' = parse \cup {rowOf[t]}
          /\ step' = [step EXCEPT ![t] = "ack"]
          /\ UNCHANGED <<queueVars, rowOf>>
       \/ /\ parse' \in {parse, parse \cup {rowOf[t]}}
          /\ Fail(t) /\ UNCHANGED url
    /\ UNCHANGED <<now, rows, crashes>>

Handle(t) ==
    Gate(t) \/ Fetch(t) \/ Insert4xx(t) \/ Insert(t) \/ PublishParse(t)

Next ==
    \/ \E t \in Task : Submit(t) \/ Take(t) \/ Handle(t) \/ Ack(t) \/ Expire(t)
    \/ \E S \in SUBSET Task : Crash(S)
    \/ Tick

Spec == Init /\ [][Next]_vars

-----------------------------------------------------------------------------
\* The interval holds for the whole stage, crashes and retries included: in
\* any window of MinRefetch a URL gets at most one row per handler that runs
\* at a time, so exactly one with the default prefetch of 1 (fetcher.go
\* 97-100, a round trip once per interval).
OnePerWindow ==
    MinRefetch > 0 =>
        \A i \in DOMAIN rows :
            Cardinality({j \in RowsOf(rows[i].url) :
                            j >= i /\ rows[j].at - rows[i].at < MinRefetch}) <= Slots

\* A parse task always names a row that is there and has a page, so the
\* parser's GetFetchByID finds one (publish after commit).
ParseHasPage == \A i \in parse : i \in DOMAIN rows /\ rows[i].html

\* A task leaves the queue only with an answer on record for its URL.
AckedIsRecorded ==
    \A t \in Task : where[t] = "done" => RowsOf(url[t]) # {}

\* While no publish has failed and no worker has died, the page of every row
\* is with the parser or its handler is about to publish it.
Untroubled == crashes = 0 /\ \A t \in Task : failures[t] = 0
PageIsParsed ==
    Untroubled =>
        \A i \in DOMAIN rows :
            rows[i].html => i \in parse \/ \E t \in Task : rowOf[t] = i /\ step[t] = "publish"

\* fetcher.go 176-178: after a failed publish "a retry will create another
\* fetch row and re-publish".  So once every task of a URL has been acked, a
\* page that was stored for it has been handed to the parser.
StoredIsParsed ==
    \A u \in Url :
        /\ \E i \in RowsOf(u) : rows[i].html
        /\ \A t \in Task : url[t] = u => where[t] \in {"unpublished", "done"}
        => \E i \in RowsOf(u) : i \in parse
=============================================================================
