--------------------------- MODULE ConsumerProofs ---------------------------
(***************************************************************************)
(* Proofs about Consumer, for any sets of messages and workers, any        *)
(* configuration and any number of faults.                                 *)
(***************************************************************************)
EXTENDS Consumer, TLAPS

LEMMA BudgetIsPositive == Budget \in Nat /\ Budget > 0
BY ConsumerAssumption DEF Budget

\* Every variable keeps its type.
LEMMA TypeOKInductive == TypeOK /\ [Next]_vars => TypeOK'
<1> SUFFICES ASSUME TypeOK, [Next]_vars PROVE TypeOK'
  OBVIOUS
<1> USE ConsumerAssumption DEF TypeOK, Place, JobPC
<1>1. ASSUME NEW m \in Message, Publish(m) PROVE TypeOK'
  BY <1>1 DEF Publish, workerVars, jobVars, ghostVars
<1>2. ASSUME NEW m \in Message, Expire(m) PROVE TypeOK'
  BY <1>2 DEF Expire, workerVars, jobVars, ghostVars
<1>3. ASSUME NEW w \in Worker, NEW m \in Message, Deliver(w, m) PROVE TypeOK'
  BY <1>3 DEF Deliver, xDeathCount, workerVars, ghostVars
<1>4. ASSUME NEW w \in Worker, NEW m \in Message, StartHandler(w, m) PROVE TypeOK'
  BY <1>4 DEF StartHandler, brokerVars, workerVars
<1>24. ASSUME NEW w \in Worker, NEW m \in Message, StartPromotion(w, m) PROVE TypeOK'
  BY <1>24 DEF StartPromotion, brokerVars, workerVars, ghostVars
<1>5. ASSUME NEW w \in Worker, NEW m \in Message, HandlerSucceeds(w, m) PROVE TypeOK'
  BY <1>5 DEF HandlerSucceeds, brokerVars, workerVars
<1>6. ASSUME NEW w \in Worker, NEW m \in Message, HandlerFails(w, m) PROVE TypeOK'
  BY <1>6 DEF HandlerFails, Answer, EndJob, workerVars, ghostVars
<1>7. ASSUME NEW w \in Worker, NEW m \in Message, PublishDead(w, m) PROVE TypeOK'
  BY <1>7 DEF PublishDead, workerVars, ghostVars
<1>8. ASSUME NEW w \in Worker, NEW m \in Message, PublishDeadUnconfirmed(w, m)
      PROVE  TypeOK'
  BY <1>8 DEF PublishDeadUnconfirmed, Answer, EndJob,
              CountBreak, Fault, workerVars
<1>9. ASSUME NEW w \in Worker, NEW m \in Message, PublishDeadRefused(w, m) PROVE TypeOK'
  BY <1>9 DEF PublishDeadRefused, Answer, EndJob,
              workerVars, ghostVars
<1>10. ASSUME NEW w \in Worker, NEW m \in Message, Ack(w, m) PROVE TypeOK'
  BY <1>10 DEF Ack, Answer, EndJob, workerVars, ghostVars
<1>11. ASSUME NEW w \in Worker, NEW m \in Message, DropBuffered(w, m) PROVE TypeOK'
  BY <1>11 DEF DropBuffered, EndJob, brokerVars, workerVars, ghostVars
<1>12. ASSUME NEW w \in Worker, Cancel(w) PROVE TypeOK'
  BY <1>12 DEF Cancel, Fault, brokerVars, jobVars
<1>13. ASSUME NEW w \in Worker, LoseChannel(w) PROVE TypeOK'
  BY <1>13 DEF LoseChannel, Fault, BackToWork, CountBreak, jobVars
<1>14. ASSUME NEW w \in Worker, LosePublisher(w) PROVE TypeOK'
  BY <1>14 DEF LosePublisher, Fault, brokerVars, jobVars
<1>15. ASSUME NEW w \in Worker, Return(w) PROVE TypeOK'
  BY <1>15 DEF Return, BackToWork, jobVars, ghostVars
<1>16. ASSUME NEW w \in Worker, Crash(w) PROVE TypeOK'
  BY <1>16 DEF Crash, Fault, BackToWork, CountBreak
<1>17. ASSUME NEW w \in Worker, Restart(w) PROVE TypeOK'
  BY <1>17 DEF Restart, brokerVars, jobVars, ghostVars
<1>18. CASE UNCHANGED vars
  BY <1>18 DEF vars, brokerVars, workerVars, jobVars, ghostVars
<1>19. QED
  BY <1>1, <1>2, <1>3, <1>4, <1>24, <1>5, <1>6, <1>7, <1>8, <1>9, <1>10, <1>11, <1>12,
     <1>13, <1>14, <1>15, <1>16, <1>17, <1>18
     DEF Next, JobStep, WorkerStep, Idle

\* Every variable has its type in every reachable state.
THEOREM TypeCorrect == Spec => []TypeOK
<1>1. Init => TypeOK
  BY ConsumerAssumption DEF Init, TypeOK, Place, JobPC
<1>2. QED
  BY <1>1, TypeOKInductive, PTL DEF Spec
-----------------------------------------------------------------------------
(* The inductive invariant.  Beyond the four properties it says how a       *)
(* process ends, what a published message is, and what the goroutine of a   *)
(* delivery knows: the count it read is never ahead of the header, is the   *)
(* header while the delivery is its own, and decided where it is.           *)

Stopped ==
    \A w \in Worker :
        proc[w] # "running" =>
            ~cancelled[w] /\ ~chanOpen[w] /\ \A m \in Message : pc[w][m] = "idle"

Published ==
    \A m \in Message :
        loc[m] = "unpublished" =>
            /\ m \notin handled /\ dead[m] = 0
            /\ \A w \in Worker : pc[w][m] = "idle"

Attempt ==
    \A w \in Worker, m \in Message :
        /\ seen[w][m] <= rejected[m]
        /\ m \in held[w] => seen[w][m] = rejected[m]
        /\ pc[w][m] = "handling" => seen[w][m] < Budget
        /\ pc[w][m] = "promoting" => seen[w][m] >= Budget
        /\ pc[w][m] = "acking" => m \in handled \/ dead[m] > 0

\* A process that has ended has no context, no channel and no goroutine.
LEMMA StoppedInductive ==
    TypeOK /\ Stopped /\ [Next]_vars => Stopped'
<1> SUFFICES ASSUME TypeOK, Stopped, [Next]_vars PROVE Stopped'
  OBVIOUS
<1> USE BudgetIsPositive DEF TypeOK, Place, JobPC, Stopped
<1>1. ASSUME NEW m \in Message, Publish(m) PROVE Stopped'
  BY <1>1 DEF Publish, workerVars, jobVars, ghostVars
<1>2. ASSUME NEW m \in Message, Expire(m) PROVE Stopped'
  BY <1>2 DEF Expire, workerVars, jobVars, ghostVars
<1>3. ASSUME NEW w \in Worker, NEW m \in Message, Deliver(w, m) PROVE Stopped'
  BY <1>3 DEF Deliver, xDeathCount, workerVars, ghostVars
<1>4. ASSUME NEW w \in Worker, NEW m \in Message, StartHandler(w, m) PROVE Stopped'
  BY <1>4 DEF StartHandler, brokerVars, workerVars
<1>5. ASSUME NEW w \in Worker, NEW m \in Message, StartPromotion(w, m) PROVE Stopped'
  BY <1>5 DEF StartPromotion, brokerVars, workerVars, ghostVars
<1>6. ASSUME NEW w \in Worker, NEW m \in Message, HandlerSucceeds(w, m) PROVE Stopped'
  BY <1>6 DEF HandlerSucceeds, brokerVars, workerVars
<1>7. ASSUME NEW w \in Worker, NEW m \in Message, HandlerFails(w, m) PROVE Stopped'
  BY <1>7 DEF HandlerFails, Answer, EndJob, Owns, workerVars, ghostVars
<1>8. ASSUME NEW w \in Worker, NEW m \in Message, PublishDead(w, m) PROVE Stopped'
  BY <1>8 DEF PublishDead, workerVars, ghostVars
<1>9. ASSUME NEW w \in Worker, NEW m \in Message, PublishDeadUnconfirmed(w, m)
      PROVE  Stopped'
  BY <1>9 DEF PublishDeadUnconfirmed, Answer, EndJob, Owns, CountBreak, workerVars
<1>10. ASSUME NEW w \in Worker, NEW m \in Message, PublishDeadRefused(w, m)
       PROVE  Stopped'
  BY <1>10 DEF PublishDeadRefused, Answer, EndJob, Owns, workerVars, ghostVars
<1>11. ASSUME NEW w \in Worker, NEW m \in Message, Ack(w, m) PROVE Stopped'
  BY <1>11 DEF Ack, Answer, EndJob, Owns, workerVars, ghostVars
<1>12. ASSUME NEW w \in Worker, NEW m \in Message, DropBuffered(w, m) PROVE Stopped'
  BY <1>12 DEF DropBuffered, brokerVars, workerVars, ghostVars, EndJob
<1>13. ASSUME NEW w \in Worker, Cancel(w) PROVE Stopped'
  BY <1>13 DEF Cancel, brokerVars, jobVars
<1>14. ASSUME NEW w \in Worker, LoseChannel(w) PROVE Stopped'
  BY <1>14 DEF LoseChannel, BackToWork, CountBreak, jobVars
<1>15. ASSUME NEW w \in Worker, LosePublisher(w) PROVE Stopped'
  BY <1>15 DEF LosePublisher, brokerVars, jobVars
<1>16. ASSUME NEW w \in Worker, Return(w) PROVE Stopped'
  BY <1>16 DEF Return, BackToWork, jobVars, ghostVars
<1>17. ASSUME NEW w \in Worker, Crash(w) PROVE Stopped'
  BY <1>17 DEF Crash, BackToWork, CountBreak
<1>18. ASSUME NEW w \in Worker, Restart(w) PROVE Stopped'
  BY <1>18 DEF Restart, brokerVars, jobVars, ghostVars
<1>19. CASE UNCHANGED vars
  BY <1>19 DEF vars, brokerVars, workerVars, jobVars, ghostVars
<1>20. QED
  BY <1>1, <1>2, <1>3, <1>4, <1>5, <1>6, <1>7, <1>8, <1>9, <1>10, <1>11, <1>12,
     <1>13, <1>14, <1>15, <1>16, <1>17, <1>18, <1>19
     DEF Next, JobStep, WorkerStep, Idle

\* Ownership of unacked messages is kept.
LEMMA OneOwnerInductive ==
    TypeOK /\ Stopped /\ OneOwner /\ [Next]_vars => OneOwner'
<1> SUFFICES ASSUME TypeOK, Stopped, OneOwner, [Next]_vars PROVE OneOwner'
  OBVIOUS
<1> USE BudgetIsPositive DEF TypeOK, Place, JobPC, Stopped, OneOwner
<1>1. ASSUME NEW m \in Message, Publish(m) PROVE OneOwner'
  BY <1>1 DEF Publish, workerVars, jobVars, ghostVars
<1>2. ASSUME NEW m \in Message, Expire(m) PROVE OneOwner'
  BY <1>2 DEF Expire, workerVars, jobVars, ghostVars
<1>3. ASSUME NEW w \in Worker, NEW m \in Message, Deliver(w, m) PROVE OneOwner'
  BY <1>3 DEF Deliver, xDeathCount, workerVars, ghostVars
<1>4. ASSUME NEW w \in Worker, NEW m \in Message, StartHandler(w, m) PROVE OneOwner'
  BY <1>4 DEF StartHandler, brokerVars, workerVars
<1>5. ASSUME NEW w \in Worker, NEW m \in Message, StartPromotion(w, m) PROVE OneOwner'
  BY <1>5 DEF StartPromotion, brokerVars, workerVars, ghostVars
<1>6. ASSUME NEW w \in Worker, NEW m \in Message, HandlerSucceeds(w, m) PROVE OneOwner'
  BY <1>6 DEF HandlerSucceeds, brokerVars, workerVars
<1>7. ASSUME NEW w \in Worker, NEW m \in Message, HandlerFails(w, m) PROVE OneOwner'
  BY <1>7 DEF HandlerFails, Answer, EndJob, Owns, workerVars, ghostVars
<1>8. ASSUME NEW w \in Worker, NEW m \in Message, PublishDead(w, m) PROVE OneOwner'
  BY <1>8 DEF PublishDead, workerVars, ghostVars
<1>9. ASSUME NEW w \in Worker, NEW m \in Message, PublishDeadUnconfirmed(w, m)
      PROVE  OneOwner'
  BY <1>9 DEF PublishDeadUnconfirmed, Answer, EndJob, Owns, CountBreak, workerVars
<1>10. ASSUME NEW w \in Worker, NEW m \in Message, PublishDeadRefused(w, m)
       PROVE  OneOwner'
  BY <1>10 DEF PublishDeadRefused, Answer, EndJob, Owns, workerVars, ghostVars
<1>11. ASSUME NEW w \in Worker, NEW m \in Message, Ack(w, m) PROVE OneOwner'
  BY <1>11 DEF Ack, Answer, EndJob, Owns, workerVars, ghostVars
<1>12. ASSUME NEW w \in Worker, NEW m \in Message, DropBuffered(w, m) PROVE OneOwner'
  BY <1>12 DEF DropBuffered, brokerVars, workerVars, ghostVars, EndJob
<1>13. ASSUME NEW w \in Worker, Cancel(w) PROVE OneOwner'
  BY <1>13 DEF Cancel, brokerVars, jobVars
<1>14. ASSUME NEW w \in Worker, LoseChannel(w) PROVE OneOwner'
  BY <1>14 DEF LoseChannel, BackToWork, CountBreak, jobVars
<1>15. ASSUME NEW w \in Worker, LosePublisher(w) PROVE OneOwner'
  BY <1>15 DEF LosePublisher, brokerVars, jobVars
<1>16. ASSUME NEW w \in Worker, Return(w) PROVE OneOwner'
  BY <1>16 DEF Return, BackToWork, jobVars, ghostVars
<1>17. ASSUME NEW w \in Worker, Crash(w) PROVE OneOwner'
  BY <1>17 DEF Crash, BackToWork, CountBreak
<1>18. ASSUME NEW w \in Worker, Restart(w) PROVE OneOwner'
  BY <1>18 DEF Restart, brokerVars, jobVars, ghostVars
<1>19. CASE UNCHANGED vars
  BY <1>19 DEF vars, brokerVars, workerVars, jobVars, ghostVars
<1>20. QED
  BY <1>1, <1>2, <1>3, <1>4, <1>5, <1>6, <1>7, <1>8, <1>9, <1>10, <1>11, <1>12,
     <1>13, <1>14, <1>15, <1>16, <1>17, <1>18, <1>19
     DEF Next, JobStep, WorkerStep, Idle

\* Nothing happens to a message before it is published.
LEMMA PublishedInductive ==
    TypeOK /\ OneOwner /\ Published /\ [Next]_vars => Published'
<1> SUFFICES ASSUME TypeOK, OneOwner, Published, [Next]_vars PROVE Published'
  OBVIOUS
<1> USE BudgetIsPositive DEF TypeOK, Place, JobPC, OneOwner, Published
<1>1. ASSUME NEW m \in Message, Publish(m) PROVE Published'
  BY <1>1 DEF Publish, workerVars, jobVars, ghostVars
<1>2. ASSUME NEW m \in Message, Expire(m) PROVE Published'
  BY <1>2 DEF Expire, workerVars, jobVars, ghostVars
<1>3. ASSUME NEW w \in Worker, NEW m \in Message, Deliver(w, m) PROVE Published'
  BY <1>3 DEF Deliver, xDeathCount, workerVars, ghostVars
<1>4. ASSUME NEW w \in Worker, NEW m \in Message, StartHandler(w, m) PROVE Published'
  BY <1>4 DEF StartHandler, brokerVars, workerVars
<1>5. ASSUME NEW w \in Worker, NEW m \in Message, StartPromotion(w, m) PROVE Published'
  BY <1>5 DEF StartPromotion, brokerVars, workerVars, ghostVars
<1>6. ASSUME NEW w \in Worker, NEW m \in Message, HandlerSucceeds(w, m) PROVE Published'
  BY <1>6 DEF HandlerSucceeds, brokerVars, workerVars
<1>7. ASSUME NEW w \in Worker, NEW m \in Message, HandlerFails(w, m) PROVE Published'
  BY <1>7 DEF HandlerFails, Answer, EndJob, Owns, workerVars, ghostVars
<1>8. ASSUME NEW w \in Worker, NEW m \in Message, PublishDead(w, m) PROVE Published'
  BY <1>8 DEF PublishDead, workerVars, ghostVars
<1>9. ASSUME NEW w \in Worker, NEW m \in Message, PublishDeadUnconfirmed(w, m)
      PROVE  Published'
  BY <1>9 DEF PublishDeadUnconfirmed, Answer, EndJob, Owns, CountBreak, workerVars
<1>10. ASSUME NEW w \in Worker, NEW m \in Message, PublishDeadRefused(w, m)
       PROVE  Published'
  BY <1>10 DEF PublishDeadRefused, Answer, EndJob, Owns, workerVars, ghostVars
<1>11. ASSUME NEW w \in Worker, NEW m \in Message, Ack(w, m) PROVE Published'
  BY <1>11 DEF Ack, Answer, EndJob, Owns, workerVars, ghostVars
<1>12. ASSUME NEW w \in Worker, NEW m \in Message, DropBuffered(w, m) PROVE Published'
  BY <1>12 DEF DropBuffered, brokerVars, workerVars, ghostVars, EndJob
<1>13. ASSUME NEW w \in Worker, Cancel(w) PROVE Published'
  BY <1>13 DEF Cancel, brokerVars, jobVars
<1>14. ASSUME NEW w \in Worker, LoseChannel(w) PROVE Published'
  BY <1>14 DEF LoseChannel, BackToWork, CountBreak, jobVars
<1>15. ASSUME NEW w \in Worker, LosePublisher(w) PROVE Published'
  BY <1>15 DEF LosePublisher, brokerVars, jobVars
<1>16. ASSUME NEW w \in Worker, Return(w) PROVE Published'
  BY <1>16 DEF Return, BackToWork, jobVars, ghostVars
<1>17. ASSUME NEW w \in Worker, Crash(w) PROVE Published'
  BY <1>17 DEF Crash, BackToWork, CountBreak
<1>18. ASSUME NEW w \in Worker, Restart(w) PROVE Published'
  BY <1>18 DEF Restart, brokerVars, jobVars, ghostVars
<1>19. CASE UNCHANGED vars
  BY <1>19 DEF vars, brokerVars, workerVars, jobVars, ghostVars
<1>20. QED
  BY <1>1, <1>2, <1>3, <1>4, <1>5, <1>6, <1>7, <1>8, <1>9, <1>10, <1>11, <1>12,
     <1>13, <1>14, <1>15, <1>16, <1>17, <1>18, <1>19
     DEF Next, JobStep, WorkerStep, Idle

\* What a goroutine knows stays true.
LEMMA AttemptInductive ==
    TypeOK /\ OneOwner /\ Attempt /\ [Next]_vars => Attempt'
<1> SUFFICES ASSUME TypeOK, OneOwner, Attempt, [Next]_vars PROVE Attempt'
  OBVIOUS
<1> USE BudgetIsPositive DEF TypeOK, Place, JobPC, OneOwner, Attempt
<1>1. ASSUME NEW m \in Message, Publish(m) PROVE Attempt'
  BY <1>1 DEF Publish, workerVars, jobVars, ghostVars
<1>2. ASSUME NEW m \in Message, Expire(m) PROVE Attempt'
  BY <1>2 DEF Expire, workerVars, jobVars, ghostVars
<1>3. ASSUME NEW w \in Worker, NEW m \in Message, Deliver(w, m) PROVE Attempt'
  BY <1>3 DEF Deliver, xDeathCount, workerVars, ghostVars
<1>4. ASSUME NEW w \in Worker, NEW m \in Message, StartHandler(w, m) PROVE Attempt'
  BY <1>4 DEF StartHandler, brokerVars, workerVars
<1>5. ASSUME NEW w \in Worker, NEW m \in Message, StartPromotion(w, m) PROVE Attempt'
  BY <1>5 DEF StartPromotion, brokerVars, workerVars, ghostVars
<1>6. ASSUME NEW w \in Worker, NEW m \in Message, HandlerSucceeds(w, m) PROVE Attempt'
  BY <1>6 DEF HandlerSucceeds, brokerVars, workerVars
<1>7. ASSUME NEW w \in Worker, NEW m \in Message, HandlerFails(w, m) PROVE Attempt'
  BY <1>7 DEF HandlerFails, Answer, EndJob, Owns, workerVars, ghostVars
<1>8. ASSUME NEW w \in Worker, NEW m \in Message, PublishDead(w, m) PROVE Attempt'
  BY <1>8 DEF PublishDead, workerVars, ghostVars
<1>9. ASSUME NEW w \in Worker, NEW m \in Message, PublishDeadUnconfirmed(w, m)
      PROVE  Attempt'
  BY <1>9 DEF PublishDeadUnconfirmed, Answer, EndJob, Owns, CountBreak, workerVars
<1>10. ASSUME NEW w \in Worker, NEW m \in Message, PublishDeadRefused(w, m)
       PROVE  Attempt'
  BY <1>10 DEF PublishDeadRefused, Answer, EndJob, Owns, workerVars, ghostVars
<1>11. ASSUME NEW w \in Worker, NEW m \in Message, Ack(w, m) PROVE Attempt'
  BY <1>11 DEF Ack, Answer, EndJob, Owns, workerVars, ghostVars
<1>12. ASSUME NEW w \in Worker, NEW m \in Message, DropBuffered(w, m) PROVE Attempt'
  BY <1>12 DEF DropBuffered, brokerVars, workerVars, ghostVars, EndJob
<1>13. ASSUME NEW w \in Worker, Cancel(w) PROVE Attempt'
  BY <1>13 DEF Cancel, brokerVars, jobVars
<1>14. ASSUME NEW w \in Worker, LoseChannel(w) PROVE Attempt'
  BY <1>14 DEF LoseChannel, BackToWork, CountBreak, jobVars
<1>15. ASSUME NEW w \in Worker, LosePublisher(w) PROVE Attempt'
  BY <1>15 DEF LosePublisher, brokerVars, jobVars
<1>16. ASSUME NEW w \in Worker, Return(w) PROVE Attempt'
  BY <1>16 DEF Return, BackToWork, jobVars, ghostVars
<1>17. ASSUME NEW w \in Worker, Crash(w) PROVE Attempt'
  BY <1>17 DEF Crash, BackToWork, CountBreak
<1>18. ASSUME NEW w \in Worker, Restart(w) PROVE Attempt'
  BY <1>18 DEF Restart, brokerVars, jobVars, ghostVars
<1>19. CASE UNCHANGED vars
  BY <1>19 DEF vars, brokerVars, workerVars, jobVars, ghostVars
<1>20. QED
  BY <1>1, <1>2, <1>3, <1>4, <1>5, <1>6, <1>7, <1>8, <1>9, <1>10, <1>11, <1>12,
     <1>13, <1>14, <1>15, <1>16, <1>17, <1>18, <1>19
     DEF Next, JobStep, WorkerStep, Idle

\* Only a message that has used its budget is promoted.
LEMMA PromotedAtBudget ==
    ASSUME TypeOK, Attempt, BudgetHonoured,
           NEW w \in Worker, NEW m \in Message, pc[w][m] = "promoting"
    PROVE  rejected[m] = Budget
<1>1. seen[w][m] >= Budget /\ seen[w][m] <= rejected[m]
  BY DEF Attempt
<1>2. rejected[m] <= Budget
  BY DEF BudgetHonoured, xDeathCount
<1>3. rejected[m] \in Nat /\ seen[w][m] \in Nat
  BY DEF TypeOK
<1>4. QED
  BY <1>1, <1>2, <1>3, BudgetIsPositive

\* The retry budget is honoured.
LEMMA BudgetInductive ==
    TypeOK /\ Attempt /\ BudgetHonoured /\ [Next]_vars => BudgetHonoured'
<1> SUFFICES ASSUME TypeOK, Attempt, BudgetHonoured, [Next]_vars PROVE BudgetHonoured'
  OBVIOUS
<1> USE BudgetIsPositive DEF TypeOK, Place, JobPC, Attempt, BudgetHonoured, xDeathCount
<1>1. ASSUME NEW m \in Message, Publish(m) PROVE BudgetHonoured'
  BY <1>1 DEF Publish, workerVars, jobVars, ghostVars
<1>2. ASSUME NEW m \in Message, Expire(m) PROVE BudgetHonoured'
  BY <1>2 DEF Expire, workerVars, jobVars, ghostVars
<1>3. ASSUME NEW w \in Worker, NEW m \in Message, Deliver(w, m) PROVE BudgetHonoured'
  BY <1>3 DEF Deliver, xDeathCount, workerVars, ghostVars
<1>4. ASSUME NEW w \in Worker, NEW m \in Message, StartHandler(w, m)
      PROVE  BudgetHonoured'
  BY <1>4 DEF StartHandler, brokerVars, workerVars
<1>5. ASSUME NEW w \in Worker, NEW m \in Message, StartPromotion(w, m)
      PROVE  BudgetHonoured'
  BY <1>5 DEF StartPromotion, brokerVars, workerVars, ghostVars
<1>6. ASSUME NEW w \in Worker, NEW m \in Message, HandlerSucceeds(w, m)
      PROVE  BudgetHonoured'
  BY <1>6 DEF HandlerSucceeds, brokerVars, workerVars
<1>7. ASSUME NEW w \in Worker, NEW m \in Message, HandlerFails(w, m)
      PROVE  BudgetHonoured'
  BY <1>7 DEF HandlerFails, Answer, EndJob, Owns, workerVars, ghostVars
<1>8. ASSUME NEW w \in Worker, NEW m \in Message, PublishDead(w, m)
      PROVE  BudgetHonoured'
  <2>1. rejected[m] = Budget
    BY <1>8, PromotedAtBudget DEF PublishDead
  <2>2. QED
    BY <1>8, <2>1 DEF PublishDead, workerVars, ghostVars
<1>9. ASSUME NEW w \in Worker, NEW m \in Message, PublishDeadUnconfirmed(w, m)
      PROVE  BudgetHonoured'
  <2>1. rejected[m] = Budget
    BY <1>9, PromotedAtBudget DEF PublishDeadUnconfirmed
  <2>2. QED
    BY <1>9, <2>1 DEF PublishDeadUnconfirmed, workerVars
<1>10. ASSUME NEW w \in Worker, NEW m \in Message, PublishDeadRefused(w, m)
       PROVE  BudgetHonoured'
  BY <1>10 DEF PublishDeadRefused, Answer, EndJob, Owns, workerVars, ghostVars
<1>11. ASSUME NEW w \in Worker, NEW m \in Message, Ack(w, m) PROVE BudgetHonoured'
  BY <1>11 DEF Ack, Answer, EndJob, Owns, workerVars, ghostVars
<1>12. ASSUME NEW w \in Worker, NEW m \in Message, DropBuffered(w, m)
       PROVE  BudgetHonoured'
  BY <1>12 DEF DropBuffered, brokerVars, workerVars, ghostVars, EndJob
<1>13. ASSUME NEW w \in Worker, Cancel(w) PROVE BudgetHonoured'
  BY <1>13 DEF Cancel, brokerVars, jobVars
<1>14. ASSUME NEW w \in Worker, LoseChannel(w) PROVE BudgetHonoured'
  BY <1>14 DEF LoseChannel, BackToWork, CountBreak, jobVars
<1>15. ASSUME NEW w \in Worker, LosePublisher(w) PROVE BudgetHonoured'
  BY <1>15 DEF LosePublisher, brokerVars, jobVars
<1>16. ASSUME NEW w \in Worker, Return(w) PROVE BudgetHonoured'
  BY <1>16 DEF Return, BackToWork, jobVars, ghostVars
<1>17. ASSUME NEW w \in Worker, Crash(w) PROVE BudgetHonoured'
  BY <1>17 DEF Crash, BackToWork, CountBreak
<1>18. ASSUME NEW w \in Worker, Restart(w) PROVE BudgetHonoured'
  BY <1>18 DEF Restart, brokerVars, jobVars, ghostVars
<1>19. CASE UNCHANGED vars
  BY <1>19 DEF vars, brokerVars, workerVars, jobVars, ghostVars
<1>20. QED
  BY <1>1, <1>2, <1>3, <1>4, <1>5, <1>6, <1>7, <1>8, <1>9, <1>10, <1>11, <1>12,
     <1>13, <1>14, <1>15, <1>16, <1>17, <1>18, <1>19
     DEF Next, JobStep, WorkerStep, Idle

\* No message is forgotten without an outcome.
LEMMA NoLossInductive ==
    TypeOK /\ Attempt /\ NoLoss /\ [Next]_vars => NoLoss'
<1> SUFFICES ASSUME TypeOK, Attempt, NoLoss, [Next]_vars PROVE NoLoss'
  OBVIOUS
<1> USE BudgetIsPositive DEF TypeOK, Place, JobPC, Attempt, NoLoss
<1>1. ASSUME NEW m \in Message, Publish(m) PROVE NoLoss'
  BY <1>1 DEF Publish, workerVars, jobVars, ghostVars
<1>2. ASSUME NEW m \in Message, Expire(m) PROVE NoLoss'
  BY <1>2 DEF Expire, workerVars, jobVars, ghostVars
<1>3. ASSUME NEW w \in Worker, NEW m \in Message, Deliver(w, m) PROVE NoLoss'
  BY <1>3 DEF Deliver, xDeathCount, workerVars, ghostVars
<1>4. ASSUME NEW w \in Worker, NEW m \in Message, StartHandler(w, m) PROVE NoLoss'
  BY <1>4 DEF StartHandler, brokerVars, workerVars
<1>5. ASSUME NEW w \in Worker, NEW m \in Message, StartPromotion(w, m) PROVE NoLoss'
  BY <1>5 DEF StartPromotion, brokerVars, workerVars, ghostVars
<1>6. ASSUME NEW w \in Worker, NEW m \in Message, HandlerSucceeds(w, m) PROVE NoLoss'
  BY <1>6 DEF HandlerSucceeds, brokerVars, workerVars
<1>7. ASSUME NEW w \in Worker, NEW m \in Message, HandlerFails(w, m) PROVE NoLoss'
  BY <1>7 DEF HandlerFails, Answer, EndJob, Owns, workerVars, ghostVars
<1>8. ASSUME NEW w \in Worker, NEW m \in Message, PublishDead(w, m) PROVE NoLoss'
  BY <1>8 DEF PublishDead, workerVars, ghostVars
<1>9. ASSUME NEW w \in Worker, NEW m \in Message, PublishDeadUnconfirmed(w, m)
      PROVE  NoLoss'
  BY <1>9 DEF PublishDeadUnconfirmed, Answer, EndJob, Owns, CountBreak, workerVars
<1>10. ASSUME NEW w \in Worker, NEW m \in Message, PublishDeadRefused(w, m)
       PROVE  NoLoss'
  BY <1>10 DEF PublishDeadRefused, Answer, EndJob, Owns, workerVars, ghostVars
<1>11. ASSUME NEW w \in Worker, NEW m \in Message, Ack(w, m) PROVE NoLoss'
  BY <1>11 DEF Ack, Answer, EndJob, Owns, workerVars, ghostVars
<1>12. ASSUME NEW w \in Worker, NEW m \in Message, DropBuffered(w, m) PROVE NoLoss'
  BY <1>12 DEF DropBuffered, brokerVars, workerVars, ghostVars, EndJob
<1>13. ASSUME NEW w \in Worker, Cancel(w) PROVE NoLoss'
  BY <1>13 DEF Cancel, brokerVars, jobVars
<1>14. ASSUME NEW w \in Worker, LoseChannel(w) PROVE NoLoss'
  BY <1>14 DEF LoseChannel, BackToWork, CountBreak, jobVars
<1>15. ASSUME NEW w \in Worker, LosePublisher(w) PROVE NoLoss'
  BY <1>15 DEF LosePublisher, brokerVars, jobVars
<1>16. ASSUME NEW w \in Worker, Return(w) PROVE NoLoss'
  BY <1>16 DEF Return, BackToWork, jobVars, ghostVars
<1>17. ASSUME NEW w \in Worker, Crash(w) PROVE NoLoss'
  BY <1>17 DEF Crash, BackToWork, CountBreak
<1>18. ASSUME NEW w \in Worker, Restart(w) PROVE NoLoss'
  BY <1>18 DEF Restart, brokerVars, jobVars, ghostVars
<1>19. CASE UNCHANGED vars
  BY <1>19 DEF vars, brokerVars, workerVars, jobVars, ghostVars
<1>20. QED
  BY <1>1, <1>2, <1>3, <1>4, <1>5, <1>6, <1>7, <1>8, <1>9, <1>10, <1>11, <1>12,
     <1>13, <1>14, <1>15, <1>16, <1>17, <1>18, <1>19
     DEF Next, JobStep, WorkerStep, Idle
\* As long as no delivery of a message was taken back, a goroutine of it owns
\* it.
Single ==
    \A w \in Worker, m \in Message :
        breaks[m] = 0 /\ pc[w][m] # "idle" => m \in held[w]

\* As long as no delivery of a message was taken back, an outcome means that
\* the broker waits for the ack or has had it.
Decided ==
    \A m \in Message :
        breaks[m] = 0 /\ (m \in handled \/ dead[m] > 0) =>
            /\ loc[m] \in {"unacked", "gone"}
            /\ \A w \in Worker : pc[w][m] \in {"idle", "acking"}

\* An untroubled message has one goroutine, which owns it.
LEMMA SingleInductive ==
    TypeOK /\ OneOwner /\ Single /\ [Next]_vars => Single'
<1> SUFFICES ASSUME TypeOK, OneOwner, Single, [Next]_vars PROVE Single'
  OBVIOUS
<1> USE BudgetIsPositive DEF TypeOK, Place, JobPC, OneOwner, Single
<1>1. ASSUME NEW m \in Message, Publish(m) PROVE Single'
  BY <1>1 DEF Publish, workerVars, jobVars, ghostVars
<1>2. ASSUME NEW m \in Message, Expire(m) PROVE Single'
  BY <1>2 DEF Expire, workerVars, jobVars, ghostVars
<1>3. ASSUME NEW w \in Worker, NEW m \in Message, Deliver(w, m) PROVE Single'
  BY <1>3 DEF Deliver, xDeathCount, workerVars, ghostVars
<1>4. ASSUME NEW w \in Worker, NEW m \in Message, StartHandler(w, m) PROVE Single'
  BY <1>4 DEF StartHandler, brokerVars, workerVars
<1>5. ASSUME NEW w \in Worker, NEW m \in Message, StartPromotion(w, m) PROVE Single'
  BY <1>5 DEF StartPromotion, brokerVars, workerVars, ghostVars
<1>6. ASSUME NEW w \in Worker, NEW m \in Message, HandlerSucceeds(w, m) PROVE Single'
  BY <1>6 DEF HandlerSucceeds, brokerVars, workerVars
<1>7. ASSUME NEW w \in Worker, NEW m \in Message, HandlerFails(w, m) PROVE Single'
  BY <1>7 DEF HandlerFails, Answer, EndJob, Owns, workerVars, ghostVars
<1>8. ASSUME NEW w \in Worker, NEW m \in Message, PublishDead(w, m) PROVE Single'
  BY <1>8 DEF PublishDead, workerVars, ghostVars
<1>9. ASSUME NEW w \in Worker, NEW m \in Message, PublishDeadUnconfirmed(w, m)
      PROVE  Single'
  BY <1>9 DEF PublishDeadUnconfirmed, Answer, EndJob, Owns, CountBreak, workerVars
<1>10. ASSUME NEW w \in Worker, NEW m \in Message, PublishDeadRefused(w, m)
       PROVE  Single'
  BY <1>10 DEF PublishDeadRefused, Answer, EndJob, Owns, workerVars, ghostVars
<1>11. ASSUME NEW w \in Worker, NEW m \in Message, Ack(w, m) PROVE Single'
  BY <1>11 DEF Ack, Answer, EndJob, Owns, workerVars, ghostVars
<1>12. ASSUME NEW w \in Worker, NEW m \in Message, DropBuffered(w, m) PROVE Single'
  BY <1>12 DEF DropBuffered, brokerVars, workerVars, ghostVars, EndJob
<1>13. ASSUME NEW w \in Worker, Cancel(w) PROVE Single'
  BY <1>13 DEF Cancel, brokerVars, jobVars
<1>14. ASSUME NEW w \in Worker, LoseChannel(w) PROVE Single'
  BY <1>14 DEF LoseChannel, BackToWork, CountBreak, jobVars
<1>15. ASSUME NEW w \in Worker, LosePublisher(w) PROVE Single'
  BY <1>15 DEF LosePublisher, brokerVars, jobVars
<1>16. ASSUME NEW w \in Worker, Return(w) PROVE Single'
  BY <1>16 DEF Return, BackToWork, jobVars, ghostVars
<1>17. ASSUME NEW w \in Worker, Crash(w) PROVE Single'
  BY <1>17 DEF Crash, BackToWork, CountBreak
<1>18. ASSUME NEW w \in Worker, Restart(w) PROVE Single'
  BY <1>18 DEF Restart, brokerVars, jobVars, ghostVars
<1>19. CASE UNCHANGED vars
  BY <1>19 DEF vars, brokerVars, workerVars, jobVars, ghostVars
<1>20. QED
  BY <1>1, <1>2, <1>3, <1>4, <1>5, <1>6, <1>7, <1>8, <1>9, <1>10, <1>11, <1>12,
     <1>13, <1>14, <1>15, <1>16, <1>17, <1>18, <1>19
     DEF Next, JobStep, WorkerStep, Idle

\* An untroubled message with an outcome is never tried again.
LEMMA DecidedInductive ==
    TypeOK /\ OneOwner /\ Single /\ Decided /\ [Next]_vars => Decided'
<1> SUFFICES ASSUME TypeOK, OneOwner, Single, Decided, [Next]_vars PROVE Decided'
  OBVIOUS
<1> USE BudgetIsPositive DEF TypeOK, Place, JobPC, OneOwner, Single, Decided
<1>1. ASSUME NEW m \in Message, Publish(m) PROVE Decided'
  BY <1>1 DEF Publish, workerVars, jobVars, ghostVars
<1>2. ASSUME NEW m \in Message, Expire(m) PROVE Decided'
  BY <1>2 DEF Expire, workerVars, jobVars, ghostVars
<1>3. ASSUME NEW w \in Worker, NEW m \in Message, Deliver(w, m) PROVE Decided'
  BY <1>3 DEF Deliver, xDeathCount, workerVars, ghostVars
<1>4. ASSUME NEW w \in Worker, NEW m \in Message, StartHandler(w, m) PROVE Decided'
  BY <1>4 DEF StartHandler, brokerVars, workerVars
<1>5. ASSUME NEW w \in Worker, NEW m \in Message, StartPromotion(w, m) PROVE Decided'
  BY <1>5 DEF StartPromotion, brokerVars, workerVars, ghostVars
<1>6. ASSUME NEW w \in Worker, NEW m \in Message, HandlerSucceeds(w, m) PROVE Decided'
  BY <1>6 DEF HandlerSucceeds, brokerVars, workerVars
<1>7. ASSUME NEW w \in Worker, NEW m \in Message, HandlerFails(w, m) PROVE Decided'
  BY <1>7 DEF HandlerFails, Answer, EndJob, Owns, workerVars, ghostVars
<1>8. ASSUME NEW w \in Worker, NEW m \in Message, PublishDead(w, m) PROVE Decided'
  BY <1>8 DEF PublishDead, workerVars, ghostVars
<1>9. ASSUME NEW w \in Worker, NEW m \in Message, PublishDeadUnconfirmed(w, m)
      PROVE  Decided'
  BY <1>9 DEF PublishDeadUnconfirmed, Answer, EndJob, Owns, CountBreak, workerVars
<1>10. ASSUME NEW w \in Worker, NEW m \in Message, PublishDeadRefused(w, m)
       PROVE  Decided'
  BY <1>10 DEF PublishDeadRefused, Answer, EndJob, Owns, workerVars, ghostVars
<1>11. ASSUME NEW w \in Worker, NEW m \in Message, Ack(w, m) PROVE Decided'
  BY <1>11 DEF Ack, Answer, EndJob, Owns, workerVars, ghostVars
<1>12. ASSUME NEW w \in Worker, NEW m \in Message, DropBuffered(w, m) PROVE Decided'
  BY <1>12 DEF DropBuffered, brokerVars, workerVars, ghostVars, EndJob
<1>13. ASSUME NEW w \in Worker, Cancel(w) PROVE Decided'
  BY <1>13 DEF Cancel, brokerVars, jobVars
<1>14. ASSUME NEW w \in Worker, LoseChannel(w) PROVE Decided'
  BY <1>14 DEF LoseChannel, BackToWork, CountBreak, jobVars
<1>15. ASSUME NEW w \in Worker, LosePublisher(w) PROVE Decided'
  BY <1>15 DEF LosePublisher, brokerVars, jobVars
<1>16. ASSUME NEW w \in Worker, Return(w) PROVE Decided'
  BY <1>16 DEF Return, BackToWork, jobVars, ghostVars
<1>17. ASSUME NEW w \in Worker, Crash(w) PROVE Decided'
  BY <1>17 DEF Crash, BackToWork, CountBreak
<1>18. ASSUME NEW w \in Worker, Restart(w) PROVE Decided'
  BY <1>18 DEF Restart, brokerVars, jobVars, ghostVars
<1>19. CASE UNCHANGED vars
  BY <1>19 DEF vars, brokerVars, workerVars, jobVars, ghostVars
<1>20. QED
  BY <1>1, <1>2, <1>3, <1>4, <1>5, <1>6, <1>7, <1>8, <1>9, <1>10, <1>11, <1>12,
     <1>13, <1>14, <1>15, <1>16, <1>17, <1>18, <1>19
     DEF Next, JobStep, WorkerStep, Idle

\* An untroubled message has one outcome.
LEMMA OneOutcomeInductive ==
    TypeOK /\ OneOwner /\ Single /\ Decided /\ OneOutcome /\ [Next]_vars => OneOutcome'
<1> SUFFICES ASSUME TypeOK, OneOwner, Single, Decided, OneOutcome, [Next]_vars
             PROVE  OneOutcome'
  OBVIOUS
<1> USE BudgetIsPositive DEF TypeOK, Place, JobPC, OneOwner, Single, Decided, OneOutcome
<1>1. ASSUME NEW m \in Message, Publish(m) PROVE OneOutcome'
  BY <1>1 DEF Publish, workerVars, jobVars, ghostVars
<1>2. ASSUME NEW m \in Message, Expire(m) PROVE OneOutcome'
  BY <1>2 DEF Expire, workerVars, jobVars, ghostVars
<1>3. ASSUME NEW w \in Worker, NEW m \in Message, Deliver(w, m) PROVE OneOutcome'
  BY <1>3 DEF Deliver, xDeathCount, workerVars, ghostVars
<1>4. ASSUME NEW w \in Worker, NEW m \in Message, StartHandler(w, m) PROVE OneOutcome'
  BY <1>4 DEF StartHandler, brokerVars, workerVars
<1>5. ASSUME NEW w \in Worker, NEW m \in Message, StartPromotion(w, m) PROVE OneOutcome'
  BY <1>5 DEF StartPromotion, brokerVars, workerVars, ghostVars
<1>6. ASSUME NEW w \in Worker, NEW m \in Message, HandlerSucceeds(w, m)
      PROVE  OneOutcome'
  BY <1>6 DEF HandlerSucceeds, brokerVars, workerVars
<1>7. ASSUME NEW w \in Worker, NEW m \in Message, HandlerFails(w, m) PROVE OneOutcome'
  BY <1>7 DEF HandlerFails, Answer, EndJob, Owns, workerVars, ghostVars
<1>8. ASSUME NEW w \in Worker, NEW m \in Message, PublishDead(w, m) PROVE OneOutcome'
  BY <1>8 DEF PublishDead, workerVars, ghostVars
<1>9. ASSUME NEW w \in Worker, NEW m \in Message, PublishDeadUnconfirmed(w, m)
      PROVE  OneOutcome'
  BY <1>9 DEF PublishDeadUnconfirmed, Answer, EndJob, Owns, CountBreak, workerVars
<1>10. ASSUME NEW w \in Worker, NEW m \in Message, PublishDeadRefused(w, m)
       PROVE  OneOutcome'
  BY <1>10 DEF PublishDeadRefused, Answer, EndJob, Owns, workerVars, ghostVars
<1>11. ASSUME NEW w \in Worker, NEW m \in Message, Ack(w, m) PROVE OneOutcome'
  BY <1>11 DEF Ack, Answer, EndJob, Owns, workerVars, ghostVars
<1>12. ASSUME NEW w \in Worker, NEW m \in Message, DropBuffered(w, m) PROVE OneOutcome'
  BY <1>12 DEF DropBuffered, brokerVars, workerVars, ghostVars, EndJob
<1>13. ASSUME NEW w \in Worker, Cancel(w) PROVE OneOutcome'
  BY <1>13 DEF Cancel, brokerVars, jobVars
<1>14. ASSUME NEW w \in Worker, LoseChannel(w) PROVE OneOutcome'
  BY <1>14 DEF LoseChannel, BackToWork, CountBreak, jobVars
<1>15. ASSUME NEW w \in Worker, LosePublisher(w) PROVE OneOutcome'
  BY <1>15 DEF LosePublisher, brokerVars, jobVars
<1>16. ASSUME NEW w \in Worker, Return(w) PROVE OneOutcome'
  BY <1>16 DEF Return, BackToWork, jobVars, ghostVars
<1>17. ASSUME NEW w \in Worker, Crash(w) PROVE OneOutcome'
  BY <1>17 DEF Crash, BackToWork, CountBreak
<1>18. ASSUME NEW w \in Worker, Restart(w) PROVE OneOutcome'
  BY <1>18 DEF Restart, brokerVars, jobVars, ghostVars
<1>19. CASE UNCHANGED vars
  BY <1>19 DEF vars, brokerVars, workerVars, jobVars, ghostVars
<1>20. QED
  BY <1>1, <1>2, <1>3, <1>4, <1>5, <1>6, <1>7, <1>8, <1>9, <1>10, <1>11, <1>12,
     <1>13, <1>14, <1>15, <1>16, <1>17, <1>18, <1>19
     DEF Next, JobStep, WorkerStep, Idle

-----------------------------------------------------------------------------
Invariant ==
    /\ TypeOK
    /\ Stopped
    /\ OneOwner
    /\ Published
    /\ Attempt
    /\ BudgetHonoured
    /\ NoLoss
    /\ Single
    /\ Decided
    /\ OneOutcome

LEMMA InvariantInductive == Invariant /\ [Next]_vars => Invariant'
BY TypeOKInductive, StoppedInductive, OneOwnerInductive, PublishedInductive,
   AttemptInductive, BudgetInductive, NoLossInductive, SingleInductive,
   DecidedInductive, OneOutcomeInductive
   DEF Invariant

\* The invariant holds in every reachable state.
THEOREM InvariantHolds == Spec => []Invariant
<1>1. Init => Invariant
  BY ConsumerAssumption, BudgetIsPositive
     DEF Init, Invariant, TypeOK, Place, JobPC, Stopped, OneOwner, Published,
         Attempt, BudgetHonoured, NoLoss, Single,
         Decided, OneOutcome
<1>2. QED
  BY <1>1, InvariantInductive, PTL DEF Spec

\* No message is lost: the broker forgets it only when a handler call for it
\* has returned nil or a copy is in the dead queue.
THEOREM NothingLost == Spec => []NoLoss
BY InvariantHolds, PTL DEF Invariant

\* Every unacked message has one owner, and a live channel holds no message
\* that none of its goroutines works on.
THEOREM OwnershipHolds == Spec => []OneOwner
BY InvariantHolds, PTL DEF Invariant

\* The retry budget is exact: never exceeded, and used up before a message is
\* promoted.
THEOREM BudgetHolds == Spec => []BudgetHonoured
BY InvariantHolds, PTL DEF Invariant

\* A message none of whose deliveries was taken back is handled or dead, not
\* both.
THEOREM OutcomeIsSingle == Spec => []OneOutcome
BY InvariantHolds, PTL DEF Invariant
-----------------------------------------------------------------------------
(* The stage implements at-least-once delivery.  Publish accepts, a handler  *)
(* that returns nil processes, a copy in the dead queue parks, the ack that  *)
(* reaches the broker settles; every other step changes nothing Delivery     *)
(* sees.                                                                     *)

\* A step that leaves the three things Delivery sees alone is a stutter.
LEMMA SameStatus ==
    ASSUME UNCHANGED <<handled, dead>>, Status' = Status
    PROVE  UNCHANGED Promise!vars
BY DEF Promise!vars

LEMMA StepRefines ==
    Invariant /\ [Next]_vars => [Promise!Next]_(Promise!vars)
<1> SUFFICES ASSUME Invariant, [Next]_vars
             PROVE  Promise!Next \/ UNCHANGED Promise!vars
  OBVIOUS
<1> USE DEF Invariant
<1>1. ASSUME NEW m \in Message, Publish(m)
      PROVE  Promise!Next \/ UNCHANGED Promise!vars
  <2>1. Promise!Accept(m)
    BY <1>1 DEF Promise!Accept, Status, TypeOK, Publish, workerVars, jobVars, ghostVars
  <2>2. QED
    BY <2>1 DEF Promise!Next
<1>2. ASSUME NEW m \in Message, Expire(m)
      PROVE  Promise!Next \/ UNCHANGED Promise!vars
  <2>1. Status' = Status
    BY <1>2 DEF Status, TypeOK, Place, OneOwner, Expire, workerVars, jobVars, ghostVars
  <2>2. QED
    BY <1>2, <2>1, SameStatus DEF Expire, ghostVars
<1>3. ASSUME NEW w \in Worker, NEW m \in Message, Deliver(w, m)
      PROVE  Promise!Next \/ UNCHANGED Promise!vars
  <2>1. Status' = Status
    BY <1>3 DEF Status, TypeOK, Place, OneOwner, Deliver, xDeathCount, workerVars,
       ghostVars
  <2>2. QED
    BY <1>3, <2>1, SameStatus DEF Deliver, ghostVars
<1>4. ASSUME NEW w \in Worker, NEW m \in Message, StartHandler(w, m)
      PROVE  Promise!Next \/ UNCHANGED Promise!vars
  <2>1. Status' = Status
    BY <1>4 DEF Status, TypeOK, Place, OneOwner, StartHandler, brokerVars, workerVars
  <2>2. QED
    BY <1>4, <2>1, SameStatus DEF StartHandler, brokerVars
<1>5. ASSUME NEW w \in Worker, NEW m \in Message, StartPromotion(w, m)
      PROVE  Promise!Next \/ UNCHANGED Promise!vars
  <2>1. Status' = Status
    BY <1>5 DEF Status, TypeOK, Place, OneOwner, StartPromotion, brokerVars,
       workerVars, ghostVars
  <2>2. QED
    BY <1>5, <2>1, SameStatus DEF StartPromotion, brokerVars, ghostVars
<1>6. ASSUME NEW w \in Worker, NEW m \in Message, HandlerSucceeds(w, m)
      PROVE  Promise!Next \/ UNCHANGED Promise!vars
  <2>1. Promise!Process(m)
    BY <1>6 DEF Promise!Process, Status, TypeOK, Published, HandlerSucceeds,
       brokerVars, workerVars
  <2>2. QED
    BY <2>1 DEF Promise!Next
<1>7. ASSUME NEW w \in Worker, NEW m \in Message, HandlerFails(w, m)
      PROVE  Promise!Next \/ UNCHANGED Promise!vars
  <2>1. Status' = Status
    BY <1>7 DEF Status, TypeOK, Place, OneOwner, HandlerFails, Answer, EndJob, Owns,
       workerVars, ghostVars
  <2>2. QED
    BY <1>7, <2>1, SameStatus DEF HandlerFails, ghostVars
<1>8. ASSUME NEW w \in Worker, NEW m \in Message, PublishDead(w, m)
      PROVE  Promise!Next \/ UNCHANGED Promise!vars
  <2>1. Promise!Park(m)
    BY <1>8 DEF Promise!Park, Status, TypeOK, Published, PublishDead, workerVars,
       ghostVars
  <2>2. QED
    BY <2>1 DEF Promise!Next
<1>9. ASSUME NEW w \in Worker, NEW m \in Message, PublishDeadUnconfirmed(w, m)
      PROVE  Promise!Next \/ UNCHANGED Promise!vars
  <2>1. Owns(w, m) => loc[m] = "unacked"
    BY DEF Owns, OneOwner
  <2>2. loc' = [loc EXCEPT ![m] = IF Owns(w, m) THEN "work" ELSE @]
    BY <1>9 DEF PublishDeadUnconfirmed, Answer
  <2>3. Status' = Status
    BY <2>1, <2>2 DEF Status, TypeOK
  <2>4. PICK stored \in {0, 1} : dead' = [dead EXCEPT ![m] = @ + stored]
    BY <1>9 DEF PublishDeadUnconfirmed
  <2>5. CASE stored = 0
    <3>1. dead' = dead
      BY <2>4, <2>5 DEF TypeOK
    <3>2. QED
      BY <1>9, <2>3, <3>1, SameStatus DEF PublishDeadUnconfirmed
  <2>6. CASE stored = 1
    <3>1. Promise!Park(m)
      BY <1>9, <2>3, <2>4, <2>6
         DEF Promise!Park, Status, TypeOK, Published, PublishDeadUnconfirmed
    <3>2. QED
      BY <3>1 DEF Promise!Next
  <2>7. QED
    BY <2>5, <2>6
<1>10. ASSUME NEW w \in Worker, NEW m \in Message, PublishDeadRefused(w, m)
      PROVE  Promise!Next \/ UNCHANGED Promise!vars
  <2>1. Status' = Status
    BY <1>10 DEF Status, TypeOK, Place, OneOwner, PublishDeadRefused, Answer, EndJob,
       Owns, workerVars, ghostVars
  <2>2. QED
    BY <1>10, <2>1, SameStatus DEF PublishDeadRefused, ghostVars
<1>11. ASSUME NEW w \in Worker, NEW m \in Message, Ack(w, m)
      PROVE  Promise!Next \/ UNCHANGED Promise!vars
  <2>1. CASE Owns(w, m)
    <3>1. Promise!Settle(m)
      BY <1>11, <2>1 DEF Promise!Settle, Status, TypeOK, OneOwner, Attempt, Ack,
         Answer, EndJob, Owns, workerVars, ghostVars
    <3>2. QED
      BY <3>1 DEF Promise!Next
  <2>2. CASE ~Owns(w, m)
    <3>1. Status' = Status
      BY <1>11, <2>2 DEF Status, TypeOK, Ack, Answer, EndJob, Owns, workerVars,
         ghostVars
    <3>2. QED
      BY <1>11, <3>1, SameStatus DEF Ack, ghostVars
  <2>3. QED
    BY <2>1, <2>2
<1>12. ASSUME NEW w \in Worker, NEW m \in Message, DropBuffered(w, m)
      PROVE  Promise!Next \/ UNCHANGED Promise!vars
  <2>1. Status' = Status
    BY <1>12 DEF Status, TypeOK, Place, OneOwner, DropBuffered, brokerVars,
       workerVars, ghostVars, EndJob
  <2>2. QED
    BY <1>12, <2>1, SameStatus DEF DropBuffered, brokerVars, ghostVars
<1>13. ASSUME NEW w \in Worker, Cancel(w)
      PROVE  Promise!Next \/ UNCHANGED Promise!vars
  <2>1. Status' = Status
    BY <1>13 DEF Status, TypeOK, Place, OneOwner, Cancel, brokerVars, jobVars
  <2>2. QED
    BY <1>13, <2>1, SameStatus DEF Cancel, brokerVars
<1>14. ASSUME NEW w \in Worker, LoseChannel(w)
      PROVE  Promise!Next \/ UNCHANGED Promise!vars
  <2>1. Status' = Status
    BY <1>14 DEF Status, TypeOK, Place, OneOwner, LoseChannel, BackToWork, CountBreak,
       jobVars
  <2>2. QED
    BY <1>14, <2>1, SameStatus DEF LoseChannel
<1>15. ASSUME NEW w \in Worker, LosePublisher(w)
      PROVE  Promise!Next \/ UNCHANGED Promise!vars
  <2>1. Status' = Status
    BY <1>15 DEF Status, TypeOK, Place, OneOwner, LosePublisher, brokerVars, jobVars
  <2>2. QED
    BY <1>15, <2>1, SameStatus DEF LosePublisher, brokerVars
<1>16. ASSUME NEW w \in Worker, Return(w)
      PROVE  Promise!Next \/ UNCHANGED Promise!vars
  <2>1. Status' = Status
    BY <1>16 DEF Status, TypeOK, Place, OneOwner, Return, BackToWork, jobVars, ghostVars
  <2>2. QED
    BY <1>16, <2>1, SameStatus DEF Return, ghostVars
<1>17. ASSUME NEW w \in Worker, Crash(w)
      PROVE  Promise!Next \/ UNCHANGED Promise!vars
  <2>1. Status' = Status
    BY <1>17 DEF Status, TypeOK, Place, OneOwner, Crash, BackToWork, CountBreak
  <2>2. QED
    BY <1>17, <2>1, SameStatus DEF Crash
<1>18. ASSUME NEW w \in Worker, Restart(w)
      PROVE  Promise!Next \/ UNCHANGED Promise!vars
  <2>1. Status' = Status
    BY <1>18 DEF Status, TypeOK, Place, OneOwner, Restart, brokerVars, jobVars,
       ghostVars
  <2>2. QED
    BY <1>18, <2>1, SameStatus DEF Restart, brokerVars, ghostVars
<1>19. CASE UNCHANGED vars
  BY <1>19 DEF vars, brokerVars, workerVars, jobVars, ghostVars, Promise!vars, Status
<1>20. QED
  BY <1>1, <1>2, <1>3, <1>4, <1>5, <1>6, <1>7, <1>8, <1>9, <1>10, <1>11, <1>12,
     <1>13, <1>14, <1>15, <1>16, <1>17, <1>18, <1>19
     DEF Next, JobStep, WorkerStep, Idle

\* Every behaviour of the stage is one of at-least-once delivery.
THEOREM StageDelivers == Spec => DeliverySafe
<1>1. Init => Promise!Init
  BY DEF Init, Promise!Init, Status
<1>2. QED
  BY <1>1, StepRefines, InvariantHolds, PTL
     DEF Spec, DeliverySafe, Promise!SafeSpec
=============================================================================
