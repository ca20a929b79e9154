------------------------------ MODULE Consumer ------------------------------
(***************************************************************************)
(* One stage of the pipeline: a work queue with its retry and dead         *)
(* siblings (internal/queue/topology.go), the worker processes that        *)
(* consume it (internal/queue/consumer.go) and the publisher each of them  *)
(* uses to promote a message to the dead queue (publisher.go).             *)
(*                                                                         *)
(* A worker has two broker connections, one to consume and one to publish. *)
(* They fail separately, and a goroutine whose consume channel is gone     *)
(* keeps running: the broker hands its message to another worker while it  *)
(* is still being handled.  Queue order is not modelled: a work queue is   *)
(* the set of the messages that are in it.                                 *)
(***************************************************************************)
EXTENDS Integers, FiniteSets, Progress

CONSTANTS
    Message,            \* messages ever published to this work queue
    Worker,             \* worker processes consuming it
    Prefetch,           \* ConsumerConfig.Prefetch, as configured
    MaxRetries,         \* ConsumerConfig.MaxRetries, as configured
    MaxFaults,          \* bound on the faults of one behaviour
    PublisherMayDrop    \* may a publisher lose its connection?

ASSUME ConsumerAssumption ==
    /\ Prefetch \in Int
    /\ MaxRetries \in Int
    /\ MaxFaults \in Nat
    /\ PublisherMayDrop \in BOOLEAN

\* NewConsumer replaces values that are not positive.
Cap    == IF Prefetch <= 0 THEN 1 ELSE Prefetch
Budget == IF MaxRetries <= 0 THEN 5 ELSE MaxRetries

VARIABLES
    loc,        \* where the broker has each message
    held,       \* worker |-> messages unacked on its consume channel
    rejected,   \* message |-> "rejected" count of its x-death header
    expired,    \* message |-> "expired" count of its x-death header
    dead,       \* message |-> copies of it in the dead queue
    proc,       \* worker |-> is Run running, and if not, how it ended
    cancelled,  \* worker |-> was its context cancelled (SIGTERM)?
    chanOpen,   \* worker |-> is its consume channel alive?
    pubUp,      \* worker |-> is its publisher's channel alive?
    pc,         \* worker, message |-> where the dispatch goroutine is
    seen,       \* worker, message |-> deathCount of the delivery in hand
    handled,    \* messages for which some handler call returned nil
    runs,       \* message |-> handler calls begun
    breaks,     \* message |-> deliveries the broker had to take back
    faults      \* faults so far, at most MaxFaults

brokerVars == <<loc, held, rejected, expired, dead>>
workerVars == <<proc, cancelled, chanOpen, pubUp>>
jobVars    == <<pc, seen>>
ghostVars  == <<handled, runs, breaks, faults>>
vars       == <<brokerVars, workerVars, jobVars, ghostVars>>

Place  == {"unpublished", "work", "unacked", "retry", "gone"}
JobPC  == {"idle", "received", "handling", "promoting", "acking"}

TypeOK ==
    /\ loc \in [Message -> Place]
    /\ held \in [Worker -> SUBSET Message]
    /\ rejected \in [Message -> Nat]
    /\ expired \in [Message -> Nat]
    /\ dead \in [Message -> Nat]
    /\ proc \in [Worker -> {"running", "returnedNil", "killed"}]
    /\ cancelled \in [Worker -> BOOLEAN]
    /\ chanOpen \in [Worker -> BOOLEAN]
    /\ pubUp \in [Worker -> BOOLEAN]
    /\ pc \in [Worker -> [Message -> JobPC]]
    /\ seen \in [Worker -> [Message -> Nat]]
    /\ handled \in SUBSET Message
    /\ runs \in [Message -> Nat]
    /\ breaks \in [Message -> Nat]
    /\ faults \in 0..MaxFaults

Init ==
    /\ loc = [m \in Message |-> "unpublished"]
    /\ held = [w \in Worker |-> {}]
    /\ rejected = [m \in Message |-> 0]
    /\ expired = [m \in Message |-> 0]
    /\ dead = [m \in Message |-> 0]
    /\ proc = [w \in Worker |-> "running"]
    /\ cancelled = [w \in Worker |-> FALSE]
    /\ chanOpen = [w \in Worker |-> TRUE]
    /\ pubUp = [w \in Worker |-> TRUE]
    /\ pc = [w \in Worker |-> [m \in Message |-> "idle"]]
    /\ seen = [w \in Worker |-> [m \in Message |-> 0]]
    /\ handled = {}
    /\ runs = [m \in Message |-> 0]
    /\ breaks = [m \in Message |-> 0]
    /\ faults = 0

-----------------------------------------------------------------------------
(* What the broker does on behalf of a call.                               *)

\* Mutant: the TTL hops are counted as failures too.
CountAllDeaths(m) == rejected[m] + expired[m]

\* Mutant: the count starts at the second failure.
CountRetriesOnly(m) == rejected[m] - 1

\* The nacks of this handler; the hops through the retry queue's TTL are not
\* failures and are not counted.
xDeathCount(m) == rejected[m]

\* The broker takes the messages of S back to the head of the work queue.
BackToWork(S) == loc' = [m \in Message |-> IF m \in S THEN "work" ELSE loc[m]]

CountBreak(S) ==
    breaks' = [m \in Message |-> IF m \in S THEN breaks[m] + 1 ELSE breaks[m]]

\* Mutant: a late ack or nack is applied whatever channel it comes from.
OwnsAny(w, m) == TRUE

\* An ack or a nack reaches the broker only on the channel of the delivery.
Owns(w, m) == m \in held[w]

\* The goroutine of delivery m on worker w ends.
EndJob(w, m) ==
    /\ pc' = [pc EXCEPT ![w][m] = "idle"]
    /\ seen' = [seen EXCEPT ![w][m] = 0]

\* The last call of dispatch, an ack or a nack that moves m to place; on a
\* lost channel the call fails and moves nothing.
Answer(w, m, place) ==
    /\ EndJob(w, m)
    /\ held' = [held EXCEPT ![w] = @ \ {m}]
    /\ loc' = [loc EXCEPT ![m] = IF Owns(w, m) THEN place ELSE @]

Fault ==
    /\ faults < MaxFaults
    /\ faults' = faults + 1

-----------------------------------------------------------------------------
(* The life of a message.                                                  *)

\* An upstream stage publishes m to the work exchange and has its confirm.
Publish(m) ==
    /\ loc[m] = "unpublished"
    /\ loc' = [loc EXCEPT ![m] = "work"]
    /\ UNCHANGED <<held, rejected, expired, dead, workerVars, jobVars, ghostVars>>

\* Mutant: no Qos on the channel.
DeliverWithoutQos(w, m) ==
    /\ proc[w] = "running" /\ chanOpen[w] /\ ~cancelled[w]
    /\ loc[m] = "work"
    /\ loc' = [loc EXCEPT ![m] = "unacked"]
    /\ held' = [held EXCEPT ![w] = @ \cup {m}]
    /\ pc' = [pc EXCEPT ![w][m] = "received"]
    /\ seen' = [seen EXCEPT ![w][m] = xDeathCount(m)]
    /\ UNCHANGED <<rejected, expired, dead, workerVars, ghostVars>>

\* The broker pushes m to a worker that has fewer than Cap unacked messages.
\* The delivery carries the header m has now.
Deliver(w, m) ==
    /\ proc[w] = "running" /\ chanOpen[w] /\ ~cancelled[w]
    /\ loc[m] = "work"
    /\ Cardinality(held[w]) < Cap
    /\ loc' = [loc EXCEPT ![m] = "unacked"]
    /\ held' = [held EXCEPT ![w] = @ \cup {m}]
    /\ pc' = [pc EXCEPT ![w][m] = "received"]
    /\ seen' = [seen EXCEPT ![w][m] = xDeathCount(m)]
    /\ UNCHANGED <<rejected, expired, dead, workerVars, ghostVars>>

\* dispatch, deathCount within the budget: the handler is called.
StartHandler(w, m) ==
    /\ pc[w][m] = "received"
    /\ seen[w][m] < Budget
    /\ pc' = [pc EXCEPT ![w][m] = "handling"]
    /\ runs' = [runs EXCEPT ![m] = @ + 1]
    /\ UNCHANGED <<brokerVars, workerVars, seen, handled, breaks, faults>>

\* dispatch, deathCount >= MaxRetries: the message is to be promoted.
StartPromotion(w, m) ==
    /\ pc[w][m] = "received"
    /\ seen[w][m] >= Budget
    /\ pc' = [pc EXCEPT ![w][m] = "promoting"]
    /\ UNCHANGED <<brokerVars, workerVars, seen, ghostVars>>

\* The handler returns nil: everything it does is done; the ack is still to go.
HandlerSucceeds(w, m) ==
    /\ pc[w][m] = "handling"
    /\ handled' = handled \cup {m}
    /\ pc' = [pc EXCEPT ![w][m] = "acking"]
    /\ UNCHANGED <<brokerVars, workerVars, seen, runs, breaks, faults>>

\* Mutant: a failed handler is nacked with requeue=true.
HandlerFailsRequeued(w, m) ==
    /\ pc[w][m] = "handling"
    /\ Answer(w, m, "work")
    /\ UNCHANGED <<rejected, expired, dead, workerVars, ghostVars>>

\* The handler returns an error, or panics: Nack(requeue=false), and the
\* broker dead-letters m to the retry queue.
HandlerFails(w, m) ==
    /\ pc[w][m] = "handling"
    /\ Answer(w, m, "retry")
    /\ rejected' = [rejected EXCEPT ![m] = IF Owns(w, m) THEN @ + 1 ELSE @]
    /\ UNCHANGED <<expired, dead, workerVars, ghostVars>>

\* Mutant: the retry queue is declared without a TTL.
ExpireNever(m) ==
    /\ loc[m] = "retry" /\ FALSE
    /\ loc' = [loc EXCEPT ![m] = "work"]
    /\ expired' = [expired EXCEPT ![m] = @ + 1]
    /\ UNCHANGED <<held, rejected, dead, workerVars, jobVars, ghostVars>>

\* The retry queue's TTL expires: m goes back to the work exchange.
Expire(m) ==
    /\ loc[m] = "retry"
    /\ loc' = [loc EXCEPT ![m] = "work"]
    /\ expired' = [expired EXCEPT ![m] = @ + 1]
    /\ UNCHANGED <<held, rejected, dead, workerVars, jobVars, ghostVars>>

\* PublishDead stores a copy in the dead queue and is confirmed.
PublishDead(w, m) ==
    /\ pc[w][m] = "promoting"
    /\ pubUp[w]
    /\ dead' = [dead EXCEPT ![m] = @ + 1]
    /\ pc' = [pc EXCEPT ![w][m] = "acking"]
    /\ UNCHANGED <<loc, held, rejected, expired, workerVars, seen, ghostVars>>

\* Mutant: dispatch acks although PublishDead returned an error.
PublishDeadErrorIgnored(w, m) ==
    /\ pc[w][m] = "promoting"
    /\ pubUp[w]
    /\ Fault
    /\ \E stored \in {0, 1} : dead' = [dead EXCEPT ![m] = @ + stored]
    /\ Answer(w, m, "gone")
    /\ CountBreak({m} \cap held[w])
    /\ UNCHANGED <<rejected, expired, workerVars, handled, runs>>

\* PublishDead fails on a live connection: the broker nacks, or the context
\* is cancelled before the confirm, when the copy may already be stored.
\* dispatch answers with Nack(requeue=true).
PublishDeadUnconfirmed(w, m) ==
    /\ pc[w][m] = "promoting"
    /\ pubUp[w]
    /\ Fault
    /\ \E stored \in {0, 1} : dead' = [dead EXCEPT ![m] = @ + stored]
    /\ Answer(w, m, "work")
    /\ CountBreak({m} \cap held[w])
    /\ UNCHANGED <<rejected, expired, workerVars, handled, runs>>

\* PublishDead fails at once because the publisher's connection is gone.
PublishDeadRefused(w, m) ==
    /\ pc[w][m] = "promoting"
    /\ ~pubUp[w]
    /\ Answer(w, m, "work")
    /\ UNCHANGED <<rejected, expired, dead, workerVars, ghostVars>>

\* Mutant: the delivery is nacked after the handler returned nil.
NackAfterSuccess(w, m) ==
    /\ pc[w][m] = "acking"
    /\ Answer(w, m, "retry")
    /\ rejected' = [rejected EXCEPT ![m] = @ + 1]
    /\ UNCHANGED <<expired, dead, workerVars, ghostVars>>

\* The last step of dispatch after the handler or PublishDead returned nil.
\* On a lost channel the ack fails, which is logged.
Ack(w, m) ==
    /\ pc[w][m] = "acking"
    /\ Answer(w, m, "gone")
    /\ UNCHANGED <<rejected, expired, dead, workerVars, ghostVars>>

-----------------------------------------------------------------------------
(* The life of a worker.                                                   *)

\* SIGTERM: the context is cancelled and the subscription with it.
Cancel(w) ==
    /\ proc[w] = "running" /\ ~cancelled[w]
    /\ Fault
    /\ cancelled' = [cancelled EXCEPT ![w] = TRUE]
    /\ UNCHANGED <<brokerVars, proc, chanOpen, pubUp, jobVars, handled, runs, breaks>>

\* The consume channel dies: the broker takes every unacked message back.
LoseChannel(w) ==
    /\ proc[w] = "running" /\ chanOpen[w]
    /\ Fault
    /\ chanOpen' = [chanOpen EXCEPT ![w] = FALSE]
    /\ BackToWork(held[w])
    /\ CountBreak(held[w])
    /\ held' = [held EXCEPT ![w] = {}]
    /\ UNCHANGED <<rejected, expired, dead, proc, cancelled, pubUp, jobVars, handled, runs>>

\* A delivery still in the client's buffer is dropped when the channel dies.
DropBuffered(w, m) ==
    /\ pc[w][m] = "received" /\ ~chanOpen[w]
    /\ EndJob(w, m)
    /\ UNCHANGED <<brokerVars, workerVars, ghostVars>>

\* The publisher's connection dies.  Nothing in the process reconnects it.
LosePublisher(w) ==
    /\ PublisherMayDrop
    /\ proc[w] = "running" /\ pubUp[w]
    /\ Fault
    /\ pubUp' = [pubUp EXCEPT ![w] = FALSE]
    /\ UNCHANGED <<brokerVars, proc, cancelled, chanOpen, jobVars, handled, runs, breaks>>

\* Mutant: Run does not wait for the goroutines it started.
ReturnWithoutWaiting(w) ==
    /\ proc[w] = "running"
    /\ cancelled[w] \/ ~chanOpen[w]
    /\ proc' = [proc EXCEPT ![w] = "returnedNil"]
    /\ BackToWork(held[w])
    /\ held' = [held EXCEPT ![w] = {}]
    /\ cancelled' = [cancelled EXCEPT ![w] = FALSE]
    /\ chanOpen' = [chanOpen EXCEPT ![w] = FALSE]
    /\ pubUp' = [pubUp EXCEPT ![w] = FALSE]
    /\ UNCHANGED <<rejected, expired, dead, jobVars, ghostVars>>

\* The delivery stream is closed and every goroutine has ended: Run returns
\* nil, and main closes the consumer and the publisher.
Return(w) ==
    /\ proc[w] = "running"
    /\ cancelled[w] \/ ~chanOpen[w]
    /\ \A m \in Message : pc[w][m] = "idle"
    /\ proc' = [proc EXCEPT ![w] = "returnedNil"]
    /\ BackToWork(held[w])
    /\ held' = [held EXCEPT ![w] = {}]
    /\ cancelled' = [cancelled EXCEPT ![w] = FALSE]
    /\ chanOpen' = [chanOpen EXCEPT ![w] = FALSE]
    /\ pubUp' = [pubUp EXCEPT ![w] = FALSE]
    /\ UNCHANGED <<rejected, expired, dead, jobVars, ghostVars>>

\* The process dies in the middle of anything.
Crash(w) ==
    /\ proc[w] = "running"
    /\ Fault
    /\ proc' = [proc EXCEPT ![w] = "killed"]
    /\ BackToWork(held[w])
    /\ CountBreak(held[w])
    /\ held' = [held EXCEPT ![w] = {}]
    /\ cancelled' = [cancelled EXCEPT ![w] = FALSE]
    /\ chanOpen' = [chanOpen EXCEPT ![w] = FALSE]
    /\ pubUp' = [pubUp EXCEPT ![w] = FALSE]
    /\ pc' = [pc EXCEPT ![w] = [m \in Message |-> "idle"]]
    /\ seen' = [seen EXCEPT ![w] = [m \in Message |-> 0]]
    /\ UNCHANGED <<rejected, expired, dead, handled, runs>>

\* docker-compose restarts a worker that ended, whatever its exit code:
\* NewPublisher and NewConsumer dial again and Run subscribes.
Restart(w) ==
    /\ proc[w] # "running"
    /\ proc' = [proc EXCEPT ![w] = "running"]
    /\ chanOpen' = [chanOpen EXCEPT ![w] = TRUE]
    /\ pubUp' = [pubUp EXCEPT ![w] = TRUE]
    /\ UNCHANGED <<brokerVars, cancelled, jobVars, ghostVars>>

\* Every message is settled: the workers wait for the next one.
Idle ==
    /\ \A m \in Message : loc[m] = "gone"
    /\ UNCHANGED vars

-----------------------------------------------------------------------------
JobStep(w, m) ==
    \/ StartHandler(w, m)
    \/ StartPromotion(w, m)
    \/ HandlerSucceeds(w, m)
    \/ HandlerFails(w, m)
    \/ PublishDead(w, m)
    \/ PublishDeadUnconfirmed(w, m)
    \/ PublishDeadRefused(w, m)
    \/ Ack(w, m)

WorkerStep(w) ==
    \/ Cancel(w)
    \/ LoseChannel(w)
    \/ LosePublisher(w)
    \/ Return(w)
    \/ Crash(w)
    \/ Restart(w)

Next ==
    \/ \E m \in Message : Publish(m) \/ Expire(m)
    \/ \E w \in Worker, m \in Message :
          Deliver(w, m) \/ JobStep(w, m) \/ DropBuffered(w, m)
    \/ \E w \in Worker : WorkerStep(w)
    \/ Idle

(* The broker delivers and expires; a goroutine that was started runs and   *)
(* its handler returns, because every HTTP request has a deadline; a        *)
(* process whose goroutines are done returns and is restarted.  No fault    *)
(* ever has to happen, and nothing has to be published.                     *)
Fairness ==
    /\ \A m \in Message : WF_vars(Expire(m)) /\ WF_vars(\E w \in Worker : Deliver(w, m))
    /\ \A w \in Worker, m \in Message : WF_vars(JobStep(w, m))
    /\ \A w \in Worker : WF_vars(Return(w)) /\ WF_vars(Restart(w))

Spec == Init /\ [][Next]_vars /\ Fairness

-----------------------------------------------------------------------------
(* Safety.                                                                 *)

\* The broker forgets a message only after a handler call for it returned nil
\* or a copy of it is in the dead queue (publish first, then ack:
\* consumer.go 164-166).
NoLoss ==
    \A m \in Message : loc[m] = "gone" => m \in handled \/ dead[m] > 0

\* An unacked message is unacked on exactly one channel, and the goroutines
\* of a live channel are exactly those of its unacked deliveries: no delivery
\* is held with nobody working on it, which would block the prefetch window.
OneOwner ==
    /\ \A m \in Message :
          loc[m] = "unacked" <=> \E w \in Worker : m \in held[w]
    /\ \A v, w \in Worker, m \in Message :
          m \in held[v] /\ m \in held[w] => v = w
    /\ \A w \in Worker, m \in Message :
          m \in held[w] <=> chanOpen[w] /\ pc[w][m] # "idle"

\* A message is rejected at most Budget times, and only a message that was
\* rejected exactly Budget times has a copy in the dead queue, whatever the
\* number of TTL hops, redeliveries and goroutines that outlive their channel.
BudgetHonoured ==
    \A m \in Message :
        /\ rejected[m] <= Budget
        /\ dead[m] > 0 => rejected[m] = Budget

\* Handler calls and dead copies together never exceed one per delivery that
\* was rejected, taken back or is the last: retries do not multiply work.
AttemptsBounded ==
    \A m \in Message :
        runs[m] + dead[m] <= rejected[m] + breaks[m] + 1

\* A message none of whose deliveries was taken back has one outcome: it was
\* handled, or it is in the dead queue, never both.
OneOutcome ==
    \A m \in Message : breaks[m] = 0 => ~(m \in handled /\ dead[m] > 0)

\* Prefetch caps the goroutines of a worker, also of one that lost its
\* channel and of one that came back after a crash (consumer.go 27-31).
ConcurrencyCapped ==
    \A w \in Worker : Cardinality({m \in Message : pc[w][m] # "idle"}) <= Cap

PlaceRank(p) ==
    IF p \in {"unpublished", "retry"} THEN 3
    ELSE IF p = "work" THEN 2 ELSE IF p = "unacked" THEN 1 ELSE 0

JobRank(s) ==
    IF s = "received" THEN 3
    ELSE IF s \in {"handling", "promoting"} THEN 2 ELSE IF s = "acking" THEN 1 ELSE 0

WorkerRank(w) ==
    IF proc[w] # "running" THEN 1 ELSE IF cancelled[w] \/ ~chanOpen[w] THEN 2 ELSE 0

\* What is left to do: the failures each message still has, the way it is from
\* being settled, the goroutines, and the workers that have to come back.
WorkLeft ==
    <<[m \in Message |-> Budget - rejected[m]],
      [m \in Message |-> PlaceRank(loc[m])],
      [j \in Worker \X Message |-> JobRank(pc[j[1]][j[2]])],
      [w \in Worker |-> WorkerRank(w)]>>

\* The stage does not run in circles: whatever is delivered, retried, promoted
\* or restarted, a step that is not a fault leaves less to do. The exception is
\* the nack that requeues an exhausted message because the publisher's
\* connection is gone (consumer.go 170-174).
WorkRunsOut ==
    [][\/ faults' > faults
       \/ \E w \in Worker, m \in Message : PublishDeadRefused(w, m)
       \/ Lower(WorkLeft', WorkLeft)]_vars

(* What the documentation says of the code, and the code does not do.      *)

\* Run's doc comment (consumer.go 101-103): it returns nil on cancellation,
\* and a non-nil error when the channel died unexpectedly.
NilOnlyAfterCancel ==
    [][\A w \in Worker :
          proc[w] = "running" /\ proc'[w] = "returnedNil" => cancelled[w]]_vars

\* topology.go 13-14: messages that exhausted their retry budget end up in
\* the dead queue.
ExhaustedEndInDead ==
    \A m \in Message :
        (loc[m] = "work" /\ rejected[m] >= Budget) ~> dead[m] > 0
-----------------------------------------------------------------------------
(* The stage keeps the promise of Delivery.                                *)

Status == [m \in Message |-> CASE loc[m] = "unpublished" -> "unpublished"
                                [] loc[m] = "gone" -> "settled"
                                [] OTHER -> "pending"]

Promise == INSTANCE Delivery
               WITH status <- Status,
                    processed <- handled,
                    parked <- {m \in Message : dead[m] > 0}

\* Whatever faults happen, a step of the stage is a step of at-least-once
\* delivery: a settled message never comes back and none is settled unhandled.
DeliverySafe == Promise!SafeSpec

\* Once faults have stopped, the whole promise: every accepted message is
\* processed or parked and then settled.
DeliveryKept == Promise!Spec
=============================================================================
