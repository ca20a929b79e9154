------------------------------ MODULE Enricher ------------------------------
(***************************************************************************)
(* The enrich stage: internal/enrich/enrich.go over the column              *)
(* sellers.last_enriched_at.  A task names a seller; the handler skips it   *)
(* when the seller was enriched recently, and otherwise reads the profile,  *)
(* publishes a fetch task for every listing on it and only then marks the   *)
(* seller.                                                                  *)
(*                                                                         *)
(* Of the time only the freshness window is kept: it passes at any moment,  *)
(* MaxWindows times.  The retry hop is no more than a delay, so a queue is  *)
(* how many copies of each task are in it.                                  *)
(***************************************************************************)
EXTENDS Integers, FiniteSets, Progress

CONSTANTS
    Seller, Url,
    Slots,          \* handlers at a time: prefetch x workers
    Budget,         \* failures before a task is promoted
    MaxWindows,     \* bound on the windows that pass
    MaxFaults       \* bound on errors and crashes of one behaviour

ASSUME EnricherAssumption ==
    /\ Seller # {}
    /\ Slots \in Nat \ {0}
    /\ Budget \in Nat \ {0}
    /\ MaxWindows \in Nat
    /\ MaxFaults \in Nat

VARIABLES
    row,        \* seller |-> its row: none, bare (no profile_url), profile
    fresh,      \* sellers marked less than Freshness ago
    enrichq,    \* sellers.enrich: seller, failures |-> copies waiting
    fetchq,     \* listings.fetch: URL |-> copies waiting
    step,       \* slot |-> how far its handler is
    seller,     \* slot |-> the seller of its task
    failed,     \* slot |-> the x-death count of its task
    todo,       \* slot |-> listings of the profile still to publish
    owed,       \* pairs (slot, URL) it found and the broker does not have
    visits,     \* seller |-> profiles read since its window last passed,
                \*           counted up to MaxVisits
    windows,    \* windows that have passed, at most MaxWindows
    faults      \* faults so far, at most MaxFaults

queues    == <<enrichq, fetchq>>
jobVars   == <<step, seller, failed, todo>>
ghostVars == <<owed, visits, windows, faults>>
enricherVars == <<row, fresh, queues, jobVars, ghostVars>>

Slot == 1..Slots

\* One more than VisitsBounded allows.
MaxVisits == Slots + MaxFaults + 1

Step == {"idle", "lookup", "profile", "fanout", "mark", "ack"}

EnricherTypeOK ==
    /\ row \in [Seller -> {"none", "bare", "profile"}]
    /\ fresh \subseteq Seller
    /\ enrichq \in [Seller -> [0..Budget -> Nat]]
    /\ fetchq \in [Url -> Nat]
    /\ step \in [Slot -> Step]
    /\ seller \in [Slot -> Seller]
    /\ failed \in [Slot -> 0..(Budget - 1)]
    /\ todo \in [Slot -> SUBSET Url]
    /\ owed \subseteq Slot \X Url
    /\ visits \in [Seller -> 0..MaxVisits]
    /\ windows \in 0..MaxWindows
    /\ faults \in 0..MaxFaults

\* A row without a profile_url is not from a page of OLX, but may be there.
EnricherInit ==
    /\ row \in [Seller -> {"none", "bare"}]
    /\ fresh = {}
    /\ enrichq = [s \in Seller |-> [n \in 0..Budget |-> 0]]
    /\ fetchq = [u \in Url |-> 0]
    /\ step = [k \in Slot |-> "idle"]
    /\ seller = [k \in Slot |-> CHOOSE s \in Seller : TRUE]
    /\ failed = [k \in Slot |-> 0]
    /\ todo = [k \in Slot |-> {}]
    /\ owed = {}
    /\ visits = [s \in Seller |-> 0]
    /\ windows = 0
    /\ faults = 0

Fault ==
    /\ faults < MaxFaults
    /\ faults' = faults + 1

-----------------------------------------------------------------------------
(* The queue.                                                              *)

\* Mutant: a task is handled however often it failed.
TakeUnbounded(k, s, n) ==
    /\ step[k] = "idle"
    /\ enrichq[s][n] > 0
    /\ enrichq' = [enrichq EXCEPT ![s][n] = @ - 1]
    /\ step' = [step EXCEPT ![k] = "lookup"]
    /\ seller' = [seller EXCEPT ![k] = s]
    /\ failed' = [failed EXCEPT ![k] = n]
    /\ UNCHANGED <<row, fresh, fetchq, todo, ghostVars>>

\* The consumer takes a task, to handle it or to promote it.
Take(k, s, n) ==
    /\ step[k] = "idle"
    /\ enrichq[s][n] > 0
    /\ enrichq' = [enrichq EXCEPT ![s][n] = @ - 1]
    /\ \/ /\ n < Budget
          /\ step' = [step EXCEPT ![k] = "lookup"]
          /\ seller' = [seller EXCEPT ![k] = s]
          /\ failed' = [failed EXCEPT ![k] = n]
       \/ n = Budget /\ UNCHANGED <<step, seller, failed>>
    /\ UNCHANGED <<row, fresh, fetchq, todo, ghostVars>>

TakeAny(k) == \E s \in Seller, n \in 0..Budget : Take(k, s, n)

\* The slot is free again and holds nothing of its last task.
Free(k) ==
    /\ step' = [step EXCEPT ![k] = "idle"]
    /\ seller' = [seller EXCEPT ![k] = CHOOSE s \in Seller : TRUE]
    /\ failed' = [failed EXCEPT ![k] = 0]
    /\ todo' = [todo EXCEPT ![k] = {}]
    /\ owed' = {p \in owed : p[1] # k}

Ack(k) ==
    /\ step[k] = "ack"
    /\ Free(k)
    /\ UNCHANGED <<row, fresh, queues, visits, windows, faults>>

Requeue(k, n) ==
    /\ Free(k)
    /\ enrichq' = [enrichq EXCEPT ![seller[k]][n] = @ + 1]
    /\ Fault

\* The worker dies with the task in hand.
Crash(k) ==
    /\ step[k] # "idle"
    /\ Requeue(k, failed[k])
    /\ UNCHANGED <<row, fresh, fetchq, visits, windows>>

-----------------------------------------------------------------------------
(* Worker.Handle.                                                          *)

Goto(k, to) == step' = [step EXCEPT ![k] = to]

Visit(s) ==
    visits' = [visits EXCEPT ![s] = IF @ < MaxVisits THEN @ + 1 ELSE @]

\* Mutant: the freshness gate is not asked.
LookupUngated(k) ==
    /\ step[k] = "lookup"
    /\ Goto(k, IF row[seller[k]] = "none" THEN "ack"
               ELSE IF row[seller[k]] = "bare" THEN "mark" ELSE "profile")
    /\ UNCHANGED <<row, fresh, queues, seller, failed, todo, ghostVars>>

\* GetSellerByOlxID and the gate: an unknown seller and a fresh one are
\* skipped, and one without a profile is only marked.
Lookup(k) ==
    /\ step[k] = "lookup"
    /\ Goto(k, IF row[seller[k]] = "none" \/ seller[k] \in fresh THEN "ack"
               ELSE IF row[seller[k]] = "bare" THEN "mark" ELSE "profile")
    /\ UNCHANGED <<row, fresh, queues, seller, failed, todo, ghostVars>>

\* Mutant: a profile that shows nothing is not marked.
FetchProfileEmptyUnmarked(k) ==
    /\ step[k] = "profile"
    /\ Visit(seller[k])
    /\ \E found \in SUBSET Url :
          /\ Goto(k, IF found = {} THEN "ack" ELSE "fanout")
          /\ todo' = [todo EXCEPT ![k] = found]
          /\ owed' = owed \cup ({k} \X found)
    /\ UNCHANGED <<row, fresh, queues, seller, failed, windows, faults>>

\* fetchProfile: the distinct listings on the profile, none for a 4xx.
FetchProfile(k) ==
    /\ step[k] = "profile"
    /\ Visit(seller[k])
    /\ \E found \in SUBSET Url :
          /\ Goto(k, IF found = {} THEN "mark" ELSE "fanout")
          /\ todo' = [todo EXCEPT ![k] = found]
          /\ owed' = owed \cup ({k} \X found)
    /\ UNCHANGED <<row, fresh, queues, seller, failed, windows, faults>>

Enqueue(u) == fetchq' = [fetchq EXCEPT ![u] = @ + 1]

\* One publish of the fan-out, confirmed.
PublishFetch(k) ==
    /\ step[k] = "fanout"
    /\ \E u \in todo[k] :
          /\ Enqueue(u)
          /\ todo' = [todo EXCEPT ![k] = @ \ {u}]
          /\ owed' = owed \ {<<k, u>>}
          /\ Goto(k, IF todo[k] = {u} THEN "mark" ELSE "fanout")
    /\ UNCHANGED <<row, fresh, enrichq, seller, failed, visits, windows, faults>>

\* MarkSellerEnriched, and the handler returns nil.
Mark(k) ==
    /\ step[k] = "mark"
    /\ fresh' = fresh \cup {seller[k]}
    /\ Goto(k, "ack")
    /\ UNCHANGED <<row, queues, seller, failed, todo, ghostVars>>

\* Mutant: a failed publish is logged and the fan-out goes on.
HandlerSkipsPublish(k) ==
    /\ step[k] = "fanout"
    /\ Fault
    /\ \E u \in todo[k] :
          /\ todo' = [todo EXCEPT ![k] = @ \ {u}]
          /\ Goto(k, IF todo[k] = {u} THEN "mark" ELSE "fanout")
    /\ UNCHANGED <<row, fresh, queues, seller, failed, owed, visits, windows>>

\* Any of these calls returns an error.  A publish may be stored and a mark
\* written all the same.
HandlerFails(k) ==
    /\ step[k] \in Step \ {"idle", "ack"}
    /\ Requeue(k, failed[k] + 1)
    /\ \/ UNCHANGED <<fresh, fetchq>>
       \/ step[k] = "fanout" /\ (\E u \in todo[k] : Enqueue(u)) /\ UNCHANGED fresh
       \/ step[k] = "mark" /\ fresh' = fresh \cup {seller[k]} /\ UNCHANGED fetchq
    /\ UNCHANGED <<row, visits, windows>>

Handle(k) == Lookup(k) \/ FetchProfile(k) \/ PublishFetch(k) \/ Mark(k)

\* The mark of s gets older than Freshness.
WindowPasses(s) ==
    /\ s \in fresh
    /\ windows < MaxWindows
    /\ windows' = windows + 1
    /\ fresh' = fresh \ {s}
    /\ visits' = [visits EXCEPT ![s] = 0]
    /\ UNCHANGED <<row, queues, jobVars, owed, faults>>

EnricherNext ==
    \/ \E k \in Slot : TakeAny(k) \/ Handle(k) \/ HandlerFails(k) \/ Ack(k) \/ Crash(k)
    \/ \E s \in Seller : WindowPasses(s)

-----------------------------------------------------------------------------
\* A seller is marked, and its task acked, only when every listing of the
\* profile the handler read is with the broker (enrich.go 150-151), whatever
\* failed on the way.
MarkedIsFannedOut ==
    \A k \in Slot : step[k] \in {"mark", "ack"} => \A u \in Url : <<k, u>> \notin owed

\* Of any number of tasks for one seller the gate lets through one per handler
\* in a window, and one more for every error or crash; the others are skipped
\* (README 100-103).  It is read before the profile is fetched and written
\* after the fan-out, so with more handlers more than one get through.
VisitsBounded == \A s \in Seller : visits[s] <= Slots + faults
=============================================================================
