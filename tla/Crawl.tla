-------------------------------- MODULE Crawl -------------------------------
(***************************************************************************)
(* The cycle of the pipeline: the enricher publishes fetch tasks, the       *)
(* fetcher and the parser turn each into a task for the enricher.  Enricher *)
(* is taken as it is; of the other two stages it matters only what comes of *)
(* a fetch task, which Fetcher and Parser show.                             *)
(***************************************************************************)
EXTENDS Enricher

CONSTANTS
    MaxSeeds        \* bound on the tasks published from outside the cycle

ASSUME CrawlAssumption == MaxSeeds \in Nat

VARIABLES
    owner,      \* URL |-> the seller of that listing
    seeds       \* tasks published from outside so far, at most MaxSeeds

vars == <<enricherVars, owner, seeds>>

TypeOK ==
    /\ EnricherTypeOK
    /\ owner \in [Url -> Seller]
    /\ seeds \in 0..MaxSeeds

Init ==
    /\ EnricherInit
    /\ owner \in [Url -> Seller]
    /\ seeds = 0

Seed ==
    /\ seeds < MaxSeeds
    /\ seeds' = seeds + 1

\* Discovery has found a listing.
Discover(u) ==
    /\ Seed
    /\ Enqueue(u)
    /\ UNCHANGED <<row, fresh, enrichq, jobVars, ghostVars, owner>>

\* cmd/publish puts a seller in, who need not be stored.
PublishByHand(s) ==
    /\ Seed
    /\ enrichq' = [enrichq EXCEPT ![s][0] = @ + 1]
    /\ UNCHANGED <<row, fresh, fetchq, jobVars, ghostVars, owner>>

\* The page is stored, then its listing and the seller with the profile's
\* address, then the seller is to be enriched.
FetchAndParse(u) ==
    /\ fetchq[u] > 0
    /\ fetchq' = [fetchq EXCEPT ![u] = @ - 1]
    /\ row' = [row EXCEPT ![owner[u]] = "profile"]
    /\ enrichq' = [enrichq EXCEPT ![owner[u]][0] = @ + 1]
    /\ UNCHANGED <<fresh, jobVars, ghostVars, owner, seeds>>

\* The same, and the parser's task comes back after its publish.
ParseAgain(u) ==
    /\ fetchq[u] > 0
    /\ Fault
    /\ row' = [row EXCEPT ![owner[u]] = "profile"]
    /\ enrichq' = [enrichq EXCEPT ![owner[u]][0] = @ + 1]
    /\ UNCHANGED <<fresh, fetchq, jobVars, owed, visits, windows, owner, seeds>>

\* A 4xx, the fetcher's gate or a dead task: nothing comes of it.
NotFetched(u) ==
    /\ fetchq[u] > 0
    /\ fetchq' = [fetchq EXCEPT ![u] = @ - 1]
    /\ UNCHANGED <<row, fresh, enrichq, jobVars, ghostVars, owner, seeds>>

Quiet ==
    /\ \A u \in Url : fetchq[u] = 0
    /\ \A s \in Seller, n \in 0..Budget : enrichq[s][n] = 0
    /\ \A k \in Slot : step[k] = "idle"

\* The pipeline waits for the next seed.
Idle == Quiet /\ UNCHANGED vars

Next ==
    \/ EnricherNext /\ UNCHANGED <<owner, seeds>>
    \/ \E u \in Url : Discover(u) \/ FetchAndParse(u) \/ ParseAgain(u) \/ NotFetched(u)
    \/ \E s \in Seller : PublishByHand(s)
    \/ Idle

(* Every stage takes what is queued and its handlers go on.  Nothing has to *)
(* be seeded or to fail, and no window has to pass.                         *)
Fairness ==
    /\ \A k \in Slot : WF_vars((TakeAny(k) \/ Handle(k) \/ Ack(k)) /\ UNCHANGED <<owner, seeds>>)
    /\ \A u \in Url : WF_vars(FetchAndParse(u) \/ NotFetched(u))

Spec == Init /\ [][Next]_vars /\ Fairness

StepRank(s) ==
    IF s = "lookup" THEN 4 ELSE IF s \in {"profile", "fanout"} THEN 3
    ELSE IF s = "mark" THEN 2 ELSE IF s = "ack" THEN 1 ELSE 0

\* What is left to do: the visits a seller can still have in its window, the
\* listings that handlers have still to publish, the fetch tasks, the enrich
\* tasks, and the way each handler is from its end.
WorkLeft ==
    <<[s \in Seller |-> MaxVisits - visits[s]],
      [j \in Slot \X Url |-> IF j[2] \in todo[j[1]] THEN 1 ELSE 0],
      fetchq,
      [j \in Seller \X (0..Budget) |-> enrichq[j[1]][j[2]]],
      [k \in Slot |-> StepRank(step[k])]>>

\* The cycle does not feed itself (README 100-102): a profile gives fetch tasks
\* and these give tasks for the same profile, but a step that is neither a seed,
\* a fault nor the end of a window leaves less to do.
WorkRunsOut ==
    [][\/ seeds' > seeds
       \/ faults' > faults
       \/ windows' > windows
       \/ Lower(WorkLeft', WorkLeft)]_vars

\* The cycle ends by the enricher's gate alone, even if the fetcher's gate
\* never closes (0003_sellers_last_enriched_at.sql 4-8, README 100-102): when
\* no more windows pass, every queue runs dry.
CycleEnds == <>[]Quiet
=============================================================================
