-------------------------- MODULE ConsumerCounting --------------------------
(***************************************************************************)
(* Proofs about Consumer that count: how often a message is tried, how many *)
(* goroutines a worker runs, and what is left to do.                        *)
(***************************************************************************)
EXTENDS ConsumerProofs, ProgressProofs, FiniteSetTheorems

\* The goroutines that are still to call the handler or PublishDead for m.
Undecided(m) == {w \in Worker : pc[w][m] \in {"received", "promoting"}}

\* 1 while the last delivery of m is out or was the one that settled it.
Last(m) == IF loc[m] \in {"unacked", "gone"} THEN 1 ELSE 0

\* Each delivery of m is spent on at most one handler call or dead copy, and
\* each that is over was rejected, taken back or settled m.
Tally(m) ==
    /\ IsFiniteSet(Undecided(m))
    /\ runs[m] + dead[m] + Cardinality(Undecided(m))
          <= rejected[m] + breaks[m] + Last(m)

Tallied == \A m \in Message : Tally(m)

LEMMA AddOne ==
    ASSUME NEW S, NEW T, NEW w, IsFiniteSet(S), w \notin S, T = S \cup {w}
    PROVE  IsFiniteSet(T) /\ Cardinality(T) = Cardinality(S) + 1
           /\ Cardinality(S) \in Nat /\ Cardinality(T) \in Nat
BY FS_AddElement, FS_CardinalityType

LEMMA DropOne ==
    ASSUME NEW S, NEW T, NEW w, IsFiniteSet(S), w \in S, T = S \ {w}
    PROVE  IsFiniteSet(T) /\ Cardinality(T) = Cardinality(S) - 1
           /\ Cardinality(S) \in Nat /\ Cardinality(T) \in Nat
BY FS_RemoveElement, FS_CardinalityType

\* A step that decides nothing about x and does not lower its allowance.
LEMMA TallyKept ==
    ASSUME TypeOK, TypeOK', NEW x \in Message, Tally(x),
           Undecided(x)' \subseteq Undecided(x),
           runs'[x] = runs[x], dead'[x] = dead[x],
           rejected[x] + breaks[x] + Last(x) <= rejected'[x] + breaks'[x] + Last(x)'
    PROVE  Tally(x)'
<1> DEFINE S == Undecided(x)
           T == Undecided(x)'
<1>1. IsFiniteSet(S)
  BY DEF Tally
<1>2. IsFiniteSet(T) /\ Cardinality(T) <= Cardinality(S)
      /\ Cardinality(S) \in Nat /\ Cardinality(T) \in Nat
  BY <1>1, FS_Subset, FS_CardinalityType
<1>3. runs[x] + dead[x] + Cardinality(S) <= rejected[x] + breaks[x] + Last(x)
  BY DEF Tally
<1>4. /\ runs[x] \in Nat /\ dead[x] \in Nat /\ rejected[x] \in Nat /\ breaks[x] \in Nat
      /\ rejected'[x] \in Nat /\ breaks'[x] \in Nat
      /\ Last(x) \in Nat /\ Last(x)' \in Nat
  BY DEF TypeOK, Last
<1> HIDE DEF S, T
<1>5. runs[x] + dead[x] + Cardinality(T)
        <= rejected'[x] + breaks'[x] + Last(x)'
  BY <1>2, <1>3, <1>4
<1>6. QED
  BY <1>2, <1>5 DEF Tally, S, T

\* A goroutine of x that was undecided spends its delivery: on at most one
\* handler call or dead copy, and on none when the broker takes it back
\* without counting that.
LEMMA TallySpent ==
    ASSUME TypeOK, TypeOK', NEW x \in Message, Tally(x), NEW w \in Undecided(x),
           Undecided(x)' = Undecided(x) \ {w},
           runs'[x] + dead'[x] + rejected[x] + breaks[x] + Last(x)
             <= runs[x] + dead[x] + 1 + rejected'[x] + breaks'[x] + Last(x)'
    PROVE  Tally(x)'
<1> DEFINE S == Undecided(x)
           T == Undecided(x)'
<1>1. IsFiniteSet(T) /\ Cardinality(T) = Cardinality(S) - 1
      /\ Cardinality(S) \in Nat /\ Cardinality(T) \in Nat
  BY DropOne DEF Tally
<1>2. runs[x] + dead[x] + Cardinality(S) <= rejected[x] + breaks[x] + Last(x)
  BY DEF Tally
<1>3. /\ runs[x] \in Nat /\ dead[x] \in Nat /\ rejected[x] \in Nat /\ breaks[x] \in Nat
      /\ runs'[x] \in Nat /\ dead'[x] \in Nat
      /\ rejected'[x] \in Nat /\ breaks'[x] \in Nat
      /\ Last(x) \in Nat /\ Last(x)' \in Nat
  BY DEF TypeOK, Last
<1> HIDE DEF S, T
<1>4. runs'[x] + dead'[x] + Cardinality(T)
        <= rejected'[x] + breaks'[x] + Last(x)'
  BY <1>1, <1>2, <1>3
<1>5. QED
  BY <1>1, <1>4 DEF Tally, S, T

LEMMA TalliedInductive ==
    TypeOK /\ TypeOK' /\ Stopped /\ OneOwner /\ Tallied /\ [Next]_vars => Tallied'
<1> SUFFICES ASSUME TypeOK, TypeOK', Stopped, OneOwner, Tallied, [Next]_vars,
                    NEW x \in Message
             PROVE  Tally(x)'
  BY DEF Tallied
<1>0. Tally(x)
  BY DEF Tallied
<1>1. ASSUME NEW m \in Message, Publish(m) PROVE Tally(x)'
  <2>1. Undecided(x)' \subseteq Undecided(x)
    BY <1>1 DEF Undecided, TypeOK, Publish, workerVars, jobVars, ghostVars
  <2>2. rejected[x] + breaks[x] + Last(x) <= rejected'[x] + breaks'[x] + Last(x)'
    BY <1>1 DEF Last, OneOwner, TypeOK, Publish, workerVars, jobVars, ghostVars
  <2>3. runs'[x] = runs[x] /\ dead'[x] = dead[x]
    BY <1>1 DEF Publish, ghostVars
  <2>4. QED
    BY <1>0, <2>1, <2>2, <2>3, TallyKept
<1>2. ASSUME NEW m \in Message, Expire(m) PROVE Tally(x)'
  <2>1. Undecided(x)' \subseteq Undecided(x)
    BY <1>2 DEF Undecided, TypeOK, Expire, workerVars, jobVars, ghostVars
  <2>2. rejected[x] + breaks[x] + Last(x) <= rejected'[x] + breaks'[x] + Last(x)'
    BY <1>2 DEF Last, OneOwner, TypeOK, Expire, workerVars, jobVars, ghostVars
  <2>3. runs'[x] = runs[x] /\ dead'[x] = dead[x]
    BY <1>2 DEF Expire, ghostVars
  <2>4. QED
    BY <1>0, <2>1, <2>2, <2>3, TallyKept
<1>3. ASSUME NEW w \in Worker, NEW m \in Message, Deliver(w, m) PROVE Tally(x)'
  <2>1. CASE x # m
    <3>1. Undecided(x)' = Undecided(x) /\ runs'[x] = runs[x] /\ dead'[x] = dead[x]
      BY <1>3, <2>1 DEF Undecided, TypeOK, Deliver, workerVars, ghostVars
    <3>2. rejected[x] + breaks[x] + Last(x) <= rejected'[x] + breaks'[x] + Last(x)'
      BY <1>3, <2>1 DEF Last, TypeOK, Deliver, workerVars, ghostVars
    <3>3. QED
      BY <1>0, <3>1, <3>2, TallyKept
  <2>2. CASE x = m
    <3>1. w \notin Undecided(x)
      BY <1>3, <2>2 DEF Undecided, OneOwner, Deliver, TypeOK
    <3>2. Undecided(x)' = Undecided(x) \cup {w}
      BY <1>3, <2>2 DEF Undecided, TypeOK, Deliver, workerVars, ghostVars
    <3>3. /\ IsFiniteSet(Undecided(x)')
          /\ Cardinality(Undecided(x)') = Cardinality(Undecided(x)) + 1
          /\ Cardinality(Undecided(x)) \in Nat
      BY <1>0, <3>1, <3>2, AddOne DEF Tally
    <3>4. Last(x) = 0 /\ Last(x)' = 1
      BY <1>3, <2>2 DEF Last, Deliver, TypeOK
    <3>5. UNCHANGED <<runs, dead, rejected, breaks>>
      BY <1>3 DEF Deliver, ghostVars
    <3>6. runs[x] \in Nat /\ dead[x] \in Nat /\ rejected[x] \in Nat /\ breaks[x] \in Nat
      BY DEF TypeOK
    <3>7. QED
      BY <1>0, <3>3, <3>4, <3>5, <3>6 DEF Tally
  <2>3. QED
    BY <2>1, <2>2
<1>4. ASSUME NEW w \in Worker, NEW m \in Message, StartHandler(w, m) PROVE Tally(x)'
  <2>1. CASE x # m
    <3>1. Undecided(x)' = Undecided(x) /\ runs'[x] = runs[x] /\ dead'[x] = dead[x]
      BY <1>4, <2>1 DEF Undecided, TypeOK, StartHandler, brokerVars, workerVars
    <3>2. rejected[x] + breaks[x] + Last(x) <= rejected'[x] + breaks'[x] + Last(x)'
      BY <1>4, <2>1 DEF Last, TypeOK, StartHandler, brokerVars, workerVars
    <3>3. QED
      BY <1>0, <3>1, <3>2, TallyKept
  <2>2. CASE x = m
    <3>1. w \in Undecided(x) /\ Undecided(x)' = Undecided(x) \ {w}
      BY <1>4, <2>2 DEF Undecided, TypeOK, StartHandler, brokerVars, workerVars
    <3>2. runs'[x] + dead'[x] + rejected[x] + breaks[x] + Last(x)
            <= runs[x] + dead[x] + 1 + rejected'[x] + breaks'[x] + Last(x)'
      BY <1>4, <2>2 DEF Last, OneOwner, TypeOK, StartHandler, brokerVars, workerVars
    <3>3. QED
      BY <1>0, <3>1, <3>2, TallySpent
  <2>3. QED
    BY <2>1, <2>2
<1>5. ASSUME NEW w \in Worker, NEW m \in Message, StartPromotion(w, m) PROVE Tally(x)'
  <2>1. Undecided(x)' \subseteq Undecided(x)
    BY <1>5 DEF Undecided, TypeOK, StartPromotion, brokerVars, workerVars, ghostVars
  <2>2. rejected[x] + breaks[x] + Last(x) <= rejected'[x] + breaks'[x] + Last(x)'
    BY <1>5 DEF Last, OneOwner, TypeOK, StartPromotion, brokerVars, workerVars,
       ghostVars
  <2>3. runs'[x] = runs[x] /\ dead'[x] = dead[x]
    BY <1>5 DEF StartPromotion, brokerVars, ghostVars
  <2>4. QED
    BY <1>0, <2>1, <2>2, <2>3, TallyKept
<1>6. ASSUME NEW w \in Worker, NEW m \in Message, HandlerSucceeds(w, m) PROVE Tally(x)'
  <2>1. Undecided(x)' \subseteq Undecided(x)
    BY <1>6 DEF Undecided, TypeOK, HandlerSucceeds, brokerVars, workerVars
  <2>2. rejected[x] + breaks[x] + Last(x) <= rejected'[x] + breaks'[x] + Last(x)'
    BY <1>6 DEF Last, OneOwner, TypeOK, HandlerSucceeds, brokerVars, workerVars
  <2>3. runs'[x] = runs[x] /\ dead'[x] = dead[x]
    BY <1>6 DEF HandlerSucceeds, brokerVars
  <2>4. QED
    BY <1>0, <2>1, <2>2, <2>3, TallyKept
<1>7. ASSUME NEW w \in Worker, NEW m \in Message, HandlerFails(w, m) PROVE Tally(x)'
  <2>1. Undecided(x)' \subseteq Undecided(x)
    BY <1>7 DEF Undecided, TypeOK, HandlerFails, Answer, EndJob, Owns, workerVars,
       ghostVars
  <2>2. rejected[x] + breaks[x] + Last(x) <= rejected'[x] + breaks'[x] + Last(x)'
    BY <1>7 DEF Last, OneOwner, TypeOK, HandlerFails, Answer, EndJob, Owns,
       workerVars, ghostVars
  <2>3. runs'[x] = runs[x] /\ dead'[x] = dead[x]
    BY <1>7 DEF HandlerFails, ghostVars
  <2>4. QED
    BY <1>0, <2>1, <2>2, <2>3, TallyKept
<1>8. ASSUME NEW w \in Worker, NEW m \in Message, PublishDead(w, m) PROVE Tally(x)'
  <2>1. CASE x # m
    <3>1. Undecided(x)' = Undecided(x) /\ runs'[x] = runs[x] /\ dead'[x] = dead[x]
      BY <1>8, <2>1 DEF Undecided, TypeOK, PublishDead, workerVars, ghostVars
    <3>2. rejected[x] + breaks[x] + Last(x) <= rejected'[x] + breaks'[x] + Last(x)'
      BY <1>8, <2>1 DEF Last, TypeOK, PublishDead, workerVars, ghostVars
    <3>3. QED
      BY <1>0, <3>1, <3>2, TallyKept
  <2>2. CASE x = m
    <3>1. w \in Undecided(x) /\ Undecided(x)' = Undecided(x) \ {w}
      BY <1>8, <2>2 DEF Undecided, TypeOK, PublishDead, workerVars, ghostVars
    <3>2. runs'[x] + dead'[x] + rejected[x] + breaks[x] + Last(x)
            <= runs[x] + dead[x] + 1 + rejected'[x] + breaks'[x] + Last(x)'
      BY <1>8, <2>2 DEF Last, OneOwner, TypeOK, PublishDead, workerVars, ghostVars
    <3>3. QED
      BY <1>0, <3>1, <3>2, TallySpent
  <2>3. QED
    BY <2>1, <2>2
<1>9. ASSUME NEW w \in Worker, NEW m \in Message, PublishDeadUnconfirmed(w, m)
      PROVE  Tally(x)'
  <2>1. CASE x # m
    <3>1. Undecided(x)' = Undecided(x) /\ runs'[x] = runs[x] /\ dead'[x] = dead[x]
      BY <1>9, <2>1 DEF Undecided, TypeOK, PublishDeadUnconfirmed, Answer, EndJob,
         Owns, CountBreak, workerVars
    <3>2. rejected[x] + breaks[x] + Last(x) <= rejected'[x] + breaks'[x] + Last(x)'
      BY <1>9, <2>1 DEF Last, TypeOK, PublishDeadUnconfirmed, Answer, EndJob, Owns,
         CountBreak, workerVars
    <3>3. QED
      BY <1>0, <3>1, <3>2, TallyKept
  <2>2. CASE x = m
    <3>1. w \in Undecided(x) /\ Undecided(x)' = Undecided(x) \ {w}
      BY <1>9, <2>2 DEF Undecided, TypeOK, PublishDeadUnconfirmed, Answer, EndJob,
         Owns, CountBreak, workerVars
    <3>2. runs'[x] + dead'[x] + rejected[x] + breaks[x] + Last(x)
            <= runs[x] + dead[x] + 1 + rejected'[x] + breaks'[x] + Last(x)'
      BY <1>9, <2>2 DEF Last, OneOwner, TypeOK, PublishDeadUnconfirmed, Answer,
         EndJob, Owns, CountBreak, workerVars
    <3>3. QED
      BY <1>0, <3>1, <3>2, TallySpent
  <2>3. QED
    BY <2>1, <2>2
<1>10. ASSUME NEW w \in Worker, NEW m \in Message, PublishDeadRefused(w, m)
       PROVE  Tally(x)'
  <2>1. CASE x # m
    <3>1. Undecided(x)' = Undecided(x) /\ runs'[x] = runs[x] /\ dead'[x] = dead[x]
      BY <1>10, <2>1 DEF Undecided, TypeOK, PublishDeadRefused, Answer, EndJob, Owns,
         workerVars, ghostVars
    <3>2. rejected[x] + breaks[x] + Last(x) <= rejected'[x] + breaks'[x] + Last(x)'
      BY <1>10, <2>1 DEF Last, TypeOK, PublishDeadRefused, Answer, EndJob, Owns,
         workerVars, ghostVars
    <3>3. QED
      BY <1>0, <3>1, <3>2, TallyKept
  <2>2. CASE x = m
    <3>1. w \in Undecided(x) /\ Undecided(x)' = Undecided(x) \ {w}
      BY <1>10, <2>2 DEF Undecided, TypeOK, PublishDeadRefused, Answer, EndJob, Owns,
         workerVars, ghostVars
    <3>2. runs'[x] + dead'[x] + rejected[x] + breaks[x] + Last(x)
            <= runs[x] + dead[x] + 1 + rejected'[x] + breaks'[x] + Last(x)'
      BY <1>10, <2>2 DEF Last, OneOwner, TypeOK, PublishDeadRefused, Answer, EndJob,
         Owns, workerVars, ghostVars
    <3>3. QED
      BY <1>0, <3>1, <3>2, TallySpent
  <2>3. QED
    BY <2>1, <2>2
<1>11. ASSUME NEW w \in Worker, NEW m \in Message, Ack(w, m) PROVE Tally(x)'
  <2>1. Undecided(x)' \subseteq Undecided(x)
    BY <1>11 DEF Undecided, TypeOK, Ack, Answer, EndJob, Owns, workerVars, ghostVars
  <2>2. rejected[x] + breaks[x] + Last(x) <= rejected'[x] + breaks'[x] + Last(x)'
    BY <1>11 DEF Last, OneOwner, TypeOK, Ack, Answer, EndJob, Owns, workerVars,
       ghostVars
  <2>3. runs'[x] = runs[x] /\ dead'[x] = dead[x]
    BY <1>11 DEF Ack, ghostVars
  <2>4. QED
    BY <1>0, <2>1, <2>2, <2>3, TallyKept
<1>12. ASSUME NEW w \in Worker, NEW m \in Message, DropBuffered(w, m) PROVE Tally(x)'
  <2>1. CASE x # m
    <3>1. Undecided(x)' = Undecided(x) /\ runs'[x] = runs[x] /\ dead'[x] = dead[x]
      BY <1>12, <2>1 DEF Undecided, TypeOK, DropBuffered, brokerVars, workerVars,
         ghostVars, EndJob
    <3>2. rejected[x] + breaks[x] + Last(x) <= rejected'[x] + breaks'[x] + Last(x)'
      BY <1>12, <2>1 DEF Last, TypeOK, DropBuffered, brokerVars, workerVars,
         ghostVars, EndJob
    <3>3. QED
      BY <1>0, <3>1, <3>2, TallyKept
  <2>2. CASE x = m
    <3>1. w \in Undecided(x) /\ Undecided(x)' = Undecided(x) \ {w}
      BY <1>12, <2>2 DEF Undecided, TypeOK, DropBuffered, brokerVars, workerVars,
         ghostVars, EndJob
    <3>2. runs'[x] + dead'[x] + rejected[x] + breaks[x] + Last(x)
            <= runs[x] + dead[x] + 1 + rejected'[x] + breaks'[x] + Last(x)'
      BY <1>12, <2>2 DEF Last, OneOwner, TypeOK, DropBuffered, brokerVars, workerVars,
         ghostVars, EndJob
    <3>3. QED
      BY <1>0, <3>1, <3>2, TallySpent
  <2>3. QED
    BY <2>1, <2>2
<1>13. ASSUME NEW w \in Worker, Cancel(w) PROVE Tally(x)'
  <2>1. Undecided(x)' \subseteq Undecided(x)
    BY <1>13 DEF Undecided, TypeOK, Cancel, brokerVars, jobVars
  <2>2. rejected[x] + breaks[x] + Last(x) <= rejected'[x] + breaks'[x] + Last(x)'
    BY <1>13 DEF Last, OneOwner, TypeOK, Cancel, brokerVars, jobVars
  <2>3. runs'[x] = runs[x] /\ dead'[x] = dead[x]
    BY <1>13 DEF Cancel, brokerVars
  <2>4. QED
    BY <1>0, <2>1, <2>2, <2>3, TallyKept
<1>14. ASSUME NEW w \in Worker, LoseChannel(w) PROVE Tally(x)'
  <2>1. Undecided(x)' \subseteq Undecided(x)
    BY <1>14 DEF Undecided, TypeOK, LoseChannel, BackToWork, CountBreak, jobVars
  <2>2. rejected[x] + breaks[x] + Last(x) <= rejected'[x] + breaks'[x] + Last(x)'
    BY <1>14 DEF Last, OneOwner, TypeOK, LoseChannel, BackToWork, CountBreak, jobVars
  <2>3. runs'[x] = runs[x] /\ dead'[x] = dead[x]
    BY <1>14 DEF LoseChannel
  <2>4. QED
    BY <1>0, <2>1, <2>2, <2>3, TallyKept
<1>15. ASSUME NEW w \in Worker, LosePublisher(w) PROVE Tally(x)'
  <2>1. Undecided(x)' \subseteq Undecided(x)
    BY <1>15 DEF Undecided, TypeOK, LosePublisher, brokerVars, jobVars
  <2>2. rejected[x] + breaks[x] + Last(x) <= rejected'[x] + breaks'[x] + Last(x)'
    BY <1>15 DEF Last, OneOwner, TypeOK, LosePublisher, brokerVars, jobVars
  <2>3. runs'[x] = runs[x] /\ dead'[x] = dead[x]
    BY <1>15 DEF LosePublisher, brokerVars
  <2>4. QED
    BY <1>0, <2>1, <2>2, <2>3, TallyKept
<1>16. ASSUME NEW w \in Worker, Return(w) PROVE Tally(x)'
  <2>1. Undecided(x)' \subseteq Undecided(x)
    BY <1>16 DEF Undecided, TypeOK, Return, BackToWork, jobVars, ghostVars
  <2>2. rejected[x] + breaks[x] + Last(x) <= rejected'[x] + breaks'[x] + Last(x)'
    BY <1>16 DEF Last, OneOwner, TypeOK, Return, BackToWork, jobVars, ghostVars
  <2>3. runs'[x] = runs[x] /\ dead'[x] = dead[x]
    BY <1>16 DEF Return, ghostVars
  <2>4. QED
    BY <1>0, <2>1, <2>2, <2>3, TallyKept
<1>17. ASSUME NEW w \in Worker, Crash(w) PROVE Tally(x)'
  <2>1. Undecided(x)' \subseteq Undecided(x)
    BY <1>17 DEF Undecided, TypeOK, Crash, BackToWork, CountBreak
  <2>2. rejected[x] + breaks[x] + Last(x) <= rejected'[x] + breaks'[x] + Last(x)'
    BY <1>17 DEF Last, OneOwner, TypeOK, Crash, BackToWork, CountBreak
  <2>3. runs'[x] = runs[x] /\ dead'[x] = dead[x]
    BY <1>17 DEF Crash
  <2>4. QED
    BY <1>0, <2>1, <2>2, <2>3, TallyKept
<1>18. ASSUME NEW w \in Worker, Restart(w) PROVE Tally(x)'
  <2>1. Undecided(x)' \subseteq Undecided(x)
    BY <1>18 DEF Undecided, TypeOK, Restart, brokerVars, jobVars, ghostVars
  <2>2. rejected[x] + breaks[x] + Last(x) <= rejected'[x] + breaks'[x] + Last(x)'
    BY <1>18 DEF Last, OneOwner, TypeOK, Restart, brokerVars, jobVars, ghostVars
  <2>3. runs'[x] = runs[x] /\ dead'[x] = dead[x]
    BY <1>18 DEF Restart, brokerVars, ghostVars
  <2>4. QED
    BY <1>0, <2>1, <2>2, <2>3, TallyKept
<1>19. CASE UNCHANGED vars
  <2>1. /\ Undecided(x)' = Undecided(x) /\ Last(x)' = Last(x)
        /\ UNCHANGED <<runs, dead, rejected, breaks>>
    BY <1>19 DEF vars, brokerVars, jobVars, ghostVars, Undecided, Last
  <2>2. QED
    BY <1>0, <2>1 DEF Tally
<1>20. QED
  BY <1>1, <1>2, <1>3, <1>4, <1>5, <1>6, <1>7, <1>8, <1>9, <1>10, <1>11, <1>12,
     <1>13, <1>14, <1>15, <1>16, <1>17, <1>18, <1>19
     DEF Next, JobStep, WorkerStep, Idle

\* Handler calls and dead copies of a message never outnumber its rejected and
\* taken-back deliveries by more than one.
THEOREM AttemptsAreBounded == Spec => []AttemptsBounded
<1>1. Init => Tallied
  <2> SUFFICES ASSUME Init, NEW m \in Message PROVE Tally(m)
    BY DEF Tallied
  <2>1. Undecided(m) = {}
    BY DEF Init, Undecided
  <2>2. QED
    BY <2>1, FS_EmptySet DEF Init, Tally, Last
<1>2. Invariant /\ Invariant' /\ Tallied /\ [Next]_vars => Tallied'
  BY TalliedInductive DEF Invariant
<1>3. Invariant /\ Tallied => AttemptsBounded
  <2> SUFFICES ASSUME TypeOK, NEW m \in Message, Tally(m)
               PROVE  runs[m] + dead[m] <= rejected[m] + breaks[m] + 1
    BY DEF Invariant, Tallied, AttemptsBounded
  <2>1. Cardinality(Undecided(m)) \in Nat
    BY FS_CardinalityType DEF Tally
  <2>2. QED
    BY <2>1 DEF Tally, Last, TypeOK
<1>4. QED
  BY <1>1, <1>2, <1>3, InvariantHolds, PTL DEF Spec

-----------------------------------------------------------------------------
(* How often a message is tried in all.                                     *)

\* A delivery is taken back by a fault, and one fault takes each message back
\* at most once.
BreaksCounted == \A m \in Message : breaks[m] <= faults

LEMMA BreaksInductive == TypeOK /\ BreaksCounted /\ [Next]_vars => BreaksCounted'
<1> SUFFICES ASSUME TypeOK, BreaksCounted, [Next]_vars PROVE BreaksCounted'
  OBVIOUS
<1>1. ASSUME UNCHANGED <<breaks, faults>> PROVE BreaksCounted'
  BY <1>1 DEF BreaksCounted
<1>2. ASSUME NEW S, CountBreak(S), Fault PROVE BreaksCounted'
  BY <1>2 DEF BreaksCounted, CountBreak, Fault, TypeOK
<1>3. ASSUME UNCHANGED breaks, Fault PROVE BreaksCounted'
  BY <1>3 DEF BreaksCounted, Fault, TypeOK
<1>4. ASSUME NEW m \in Message, Publish(m) \/ Expire(m) PROVE BreaksCounted'
  BY <1>1, <1>4 DEF Publish, Expire, ghostVars
<1>5. ASSUME NEW w \in Worker, NEW m \in Message,
             Deliver(w, m) \/ DropBuffered(w, m) \/ StartHandler(w, m)
                \/ StartPromotion(w, m) \/ HandlerSucceeds(w, m) \/ HandlerFails(w, m)
                \/ PublishDead(w, m) \/ PublishDeadRefused(w, m) \/ Ack(w, m)
      PROVE  BreaksCounted'
  BY <1>1, <1>5 DEF Deliver, DropBuffered, StartHandler, StartPromotion, HandlerSucceeds,
     HandlerFails, PublishDead, PublishDeadRefused, Ack, ghostVars
<1>6. ASSUME NEW w \in Worker, NEW m \in Message, PublishDeadUnconfirmed(w, m)
      PROVE  BreaksCounted'
  BY <1>2, <1>6 DEF PublishDeadUnconfirmed
<1>7. ASSUME NEW w \in Worker, Cancel(w) \/ LosePublisher(w) PROVE BreaksCounted'
  BY <1>3, <1>7 DEF Cancel, LosePublisher
<1>8. ASSUME NEW w \in Worker, LoseChannel(w) \/ Crash(w) PROVE BreaksCounted'
  BY <1>2, <1>8 DEF LoseChannel, Crash
<1>9. ASSUME NEW w \in Worker, Return(w) \/ Restart(w) PROVE BreaksCounted'
  BY <1>1, <1>9 DEF Return, Restart, ghostVars
<1>10. CASE UNCHANGED vars
  BY <1>1, <1>10 DEF vars, ghostVars
<1>11. QED
  BY <1>4, <1>5, <1>6, <1>7, <1>8, <1>9, <1>10 DEF Next, JobStep, WorkerStep, Idle

\* The handler calls for a message and its dead copies are at most one more than
\* its retry budget, and one more for each fault: what a handler has to be
\* idempotent for is bounded by the configuration, not by the length of the run.
THEOREM TriesAreBounded ==
    Spec => [](\A m \in Message : runs[m] + dead[m] <= Budget + faults + 1)
<1>1. Init => BreaksCounted
  BY DEF Init, BreaksCounted
<1>2. Invariant /\ BreaksCounted /\ [Next]_vars => BreaksCounted'
  BY BreaksInductive DEF Invariant
<1>3. Invariant /\ BreaksCounted /\ AttemptsBounded
        => \A m \in Message : runs[m] + dead[m] <= Budget + faults + 1
  <2> SUFFICES ASSUME TypeOK, BudgetHonoured, BreaksCounted, AttemptsBounded,
                      NEW m \in Message
               PROVE  runs[m] + dead[m] <= Budget + faults + 1
    BY DEF Invariant
  <2>1. /\ rejected[m] <= Budget /\ breaks[m] <= faults
        /\ runs[m] + dead[m] <= rejected[m] + breaks[m] + 1
    BY DEF BudgetHonoured, BreaksCounted, AttemptsBounded
  <2>2. /\ runs[m] \in Nat /\ dead[m] \in Nat /\ rejected[m] \in Nat /\ breaks[m] \in Nat
        /\ faults \in Nat /\ Budget \in Nat
    BY BudgetIsPositive, ConsumerAssumption DEF TypeOK
  <2>3. QED
    BY <2>1, <2>2
<1>4. QED
  BY <1>1, <1>2, <1>3, InvariantHolds, AttemptsAreBounded, PTL DEF Spec

-----------------------------------------------------------------------------
Jobs(w) == {m \in Message : pc[w][m] # "idle"}

Capped == \A w \in Worker : IsFiniteSet(Jobs(w)) /\ Cardinality(Jobs(w)) <= Cap

LEMMA CapIsPositive == Cap \in Nat /\ Cap > 0
BY ConsumerAssumption DEF Cap

LEMMA CappedInductive ==
    TypeOK /\ OneOwner /\ Capped /\ [Next]_vars => Capped'
<1> SUFFICES ASSUME TypeOK, OneOwner, Capped, [Next]_vars, NEW v \in Worker
             PROVE  IsFiniteSet(Jobs(v)') /\ Cardinality(Jobs(v)') <= Cap
  BY DEF Capped
<1>1. IsFiniteSet(Jobs(v)) /\ Cardinality(Jobs(v)) <= Cap /\ Cardinality(Jobs(v)) \in Nat
  BY FS_CardinalityType DEF Capped
<1>2. CASE \E m \in Message : Deliver(v, m)
  <2> PICK m \in Message : Deliver(v, m)
    BY <1>2
  <2>1. Jobs(v) = held[v] /\ m \notin held[v]
    <3>1. \A y \in Message : y \in held[v] <=> pc[v][y] # "idle"
      BY DEF OneOwner, Deliver
    <3>2. held[v] \subseteq Message
      BY DEF TypeOK
    <3>3. m \notin held[v]
      BY DEF OneOwner, Deliver
    <3>4. QED
      BY <3>1, <3>2, <3>3 DEF Jobs
  <2>2. Jobs(v)' = Jobs(v) \cup {m}
    BY DEF Jobs, Deliver, TypeOK
  <2>3. Cardinality(Jobs(v)) < Cap
    BY <2>1 DEF Deliver
  <2>4. QED
    BY <1>1, <2>1, <2>2, <2>3, AddOne, CapIsPositive
<1>3. CASE ~\E m \in Message : Deliver(v, m)
  <2>1. Jobs(v)' \subseteq Jobs(v)
    <3> SUFFICES ASSUME NEW m \in Message, pc[v][m] = "idle" PROVE pc'[v][m] = "idle"
      BY DEF Jobs
    <3> USE DEF TypeOK, JobPC
    <3>1. ASSUME NEW y \in Message, Publish(y) PROVE pc'[v][m] = "idle"
      BY <3>1 DEF Publish, jobVars
    <3>2. ASSUME NEW y \in Message, Expire(y) PROVE pc'[v][m] = "idle"
      BY <3>2 DEF Expire, jobVars
    <3>3. ASSUME NEW w \in Worker, NEW y \in Message, Deliver(w, y)
          PROVE  pc'[v][m] = "idle"
      BY <1>3, <3>3 DEF Deliver
    <3>4. ASSUME NEW w \in Worker, NEW y \in Message, StartHandler(w, y)
          PROVE  pc'[v][m] = "idle"
      BY <3>4 DEF StartHandler
    <3>5. ASSUME NEW w \in Worker, NEW y \in Message, StartPromotion(w, y)
          PROVE  pc'[v][m] = "idle"
      BY <3>5 DEF StartPromotion
    <3>6. ASSUME NEW w \in Worker, NEW y \in Message, HandlerSucceeds(w, y)
          PROVE  pc'[v][m] = "idle"
      BY <3>6 DEF HandlerSucceeds
    <3>7. ASSUME NEW w \in Worker, NEW y \in Message, HandlerFails(w, y)
          PROVE  pc'[v][m] = "idle"
      BY <3>7 DEF HandlerFails, Answer, EndJob
    <3>8. ASSUME NEW w \in Worker, NEW y \in Message, PublishDead(w, y)
          PROVE  pc'[v][m] = "idle"
      BY <3>8 DEF PublishDead
    <3>9. ASSUME NEW w \in Worker, NEW y \in Message, PublishDeadUnconfirmed(w, y)
          PROVE  pc'[v][m] = "idle"
      BY <3>9 DEF PublishDeadUnconfirmed, Answer, EndJob
    <3>10. ASSUME NEW w \in Worker, NEW y \in Message, PublishDeadRefused(w, y)
           PROVE  pc'[v][m] = "idle"
      BY <3>10 DEF PublishDeadRefused, Answer, EndJob
    <3>11. ASSUME NEW w \in Worker, NEW y \in Message, Ack(w, y)
           PROVE  pc'[v][m] = "idle"
      BY <3>11 DEF Ack, Answer, EndJob
    <3>12. ASSUME NEW w \in Worker, NEW y \in Message, DropBuffered(w, y)
           PROVE  pc'[v][m] = "idle"
      BY <3>12 DEF DropBuffered, EndJob
    <3>13. ASSUME NEW w \in Worker, Cancel(w) PROVE pc'[v][m] = "idle"
      BY <3>13 DEF Cancel, jobVars
    <3>14. ASSUME NEW w \in Worker, LoseChannel(w) PROVE pc'[v][m] = "idle"
      BY <3>14 DEF LoseChannel, jobVars
    <3>15. ASSUME NEW w \in Worker, LosePublisher(w) PROVE pc'[v][m] = "idle"
      BY <3>15 DEF LosePublisher, jobVars
    <3>16. ASSUME NEW w \in Worker, Return(w) PROVE pc'[v][m] = "idle"
      BY <3>16 DEF Return, jobVars
    <3>17. ASSUME NEW w \in Worker, Crash(w) PROVE pc'[v][m] = "idle"
      BY <3>17 DEF Crash
    <3>18. ASSUME NEW w \in Worker, Restart(w) PROVE pc'[v][m] = "idle"
      BY <3>18 DEF Restart, jobVars
    <3>19. CASE UNCHANGED vars
      BY <3>19 DEF vars, jobVars
    <3>20. QED
      BY <3>1, <3>2, <3>3, <3>4, <3>5, <3>6, <3>7, <3>8, <3>9, <3>10, <3>11,
         <3>12, <3>13, <3>14, <3>15, <3>16, <3>17, <3>18, <3>19
         DEF Next, JobStep, WorkerStep, Idle
  <2>2. QED
    BY <1>1, <2>1, FS_Subset, FS_CardinalityType, CapIsPositive
<1>4. QED
  BY <1>2, <1>3

\* Prefetch caps the goroutines of every worker, faults or not.
THEOREM ConcurrencyIsCapped == Spec => []ConcurrencyCapped
<1>1. Init => Capped
  <2> SUFFICES ASSUME Init, NEW w \in Worker
               PROVE  IsFiniteSet(Jobs(w)) /\ Cardinality(Jobs(w)) <= Cap
    BY DEF Capped
  <2>1. Jobs(w) = {}
    BY DEF Init, Jobs
  <2>2. QED
    BY <2>1, FS_EmptySet, CapIsPositive
<1>2. Invariant /\ Capped /\ [Next]_vars => Capped'
  BY CappedInductive DEF Invariant
<1>3. Capped => ConcurrencyCapped
  BY DEF Capped, ConcurrencyCapped, Jobs
<1>4. QED
  BY <1>1, <1>2, <1>3, InvariantHolds, PTL DEF Spec

-----------------------------------------------------------------------------
(* Every step but a fault and a refused promotion leaves less to do: it      *)
(* moves a message, a goroutine or a worker on, and what it sets back counts *)
(* for less than what it moves.                                              *)

Chances   == [m \in Message |-> Budget - rejected[m]]
Places    == [m \in Message |-> PlaceRank(loc[m])]
Dispatch  == [j \in Worker \X Message |-> JobRank(pc[j[1]][j[2]])]
Comebacks == [w \in Worker |-> WorkerRank(w)]

LEMMA WorkLeftIs ==
    /\ WorkLeft = <<Chances, Places, Dispatch, Comebacks>>
    /\ WorkLeft' = <<Chances', Places', Dispatch', Comebacks'>>
BY DEF WorkLeft, Chances, Places, Dispatch, Comebacks

LEMMA Ranked ==
    /\ \A p : PlaceRank(p) \in Nat
    /\ \A s : JobRank(s) \in Nat
    /\ \A w : WorkerRank(w) \in Nat
BY DEF PlaceRank, JobRank, WorkerRank

\* A vector of ranks falls where one rank does.
LEMMA RanksFall ==
    ASSUME NEW S, NEW f \in [S -> Nat], NEW g \in [S -> Nat], NEW x \in S,
           g[x] < f[x], \A y \in S \ {x} : g[y] = f[y]
    PROVE  Falls(g, f)
BY FallsAt

\* A failure of m that counts.
LEMMA ChanceTaken ==
    ASSUME TypeOK, BudgetHonoured, BudgetHonoured', NEW m \in Message,
           rejected' = [rejected EXCEPT ![m] = @ + 1]
    PROVE  Lower(WorkLeft', WorkLeft)
<1>1. /\ \A x \in Message : /\ rejected[x] \in Nat /\ rejected[x] <= Budget
                            /\ rejected'[x] \in Nat /\ rejected'[x] <= Budget
      /\ rejected'[m] = rejected[m] + 1
      /\ \A x \in Message \ {m} : rejected'[x] = rejected[x]
  BY DEF TypeOK, BudgetHonoured
<1>2. Chances \in [Message -> Nat] /\ Chances' \in [Message -> Nat]
  BY <1>1, BudgetIsPositive DEF Chances
<1>3. /\ Chances'[m] < Chances[m]
      /\ \A x \in Message \ {m} : Chances'[x] = Chances[x]
  BY <1>1, BudgetIsPositive DEF Chances
<1>4. Falls(Chances', Chances)
  BY <1>2, <1>3, RanksFall
<1>5. QED
  BY <1>4, LowerOfFour, WorkLeftIs

\* m comes nearer to being settled, and no failure is taken back.
LEMMA MovedOn ==
    ASSUME TypeOK, NEW m \in Message, NEW place, UNCHANGED rejected,
           loc' = [loc EXCEPT ![m] = place], PlaceRank(place) < PlaceRank(loc[m])
    PROVE  Lower(WorkLeft', WorkLeft)
<1>1. Chances' = Chances
  BY DEF Chances
<1>2. loc'[m] = place /\ \A x \in Message \ {m} : loc'[x] = loc[x]
  BY DEF TypeOK
<1>3. Places \in [Message -> Nat] /\ Places' \in [Message -> Nat]
  BY Ranked DEF Places
<1>4. /\ Places'[m] < Places[m]
      /\ \A x \in Message \ {m} : Places'[x] = Places[x]
  BY <1>2 DEF Places
<1>5. Falls(Places', Places)
  BY <1>3, <1>4, RanksFall
<1>6. QED
  BY <1>1, <1>5, LowerOfFour, WorkLeftIs

\* A goroutine goes on, and no message moves.
LEMMA WentOn ==
    ASSUME TypeOK, NEW w \in Worker, NEW m \in Message, NEW s, UNCHANGED <<rejected, loc>>,
           pc' = [pc EXCEPT ![w][m] = s], JobRank(s) < JobRank(pc[w][m])
    PROVE  Lower(WorkLeft', WorkLeft)
<1>1. Chances' = Chances /\ Places' = Places
  BY DEF Chances, Places
<1>2. /\ pc'[w][m] = s
      /\ \A j \in (Worker \X Message) \ {<<w, m>>} : pc'[j[1]][j[2]] = pc[j[1]][j[2]]
  BY DEF TypeOK
<1>3. Dispatch \in [Worker \X Message -> Nat] /\ Dispatch' \in [Worker \X Message -> Nat]
  BY Ranked DEF Dispatch
<1>4. /\ <<w, m>> \in Worker \X Message
      /\ Dispatch'[<<w, m>>] < Dispatch[<<w, m>>]
      /\ \A j \in (Worker \X Message) \ {<<w, m>>} : Dispatch'[j] = Dispatch[j]
  BY <1>2 DEF Dispatch
<1>5. Falls(Dispatch', Dispatch)
  BY <1>3, <1>4, RanksFall
<1>6. QED
  BY <1>1, <1>5, LowerOfFour, WorkLeftIs

\* A worker goes on, and no message and no goroutine does.
LEMMA CameBack ==
    ASSUME NEW w \in Worker, UNCHANGED <<rejected, loc, pc>>,
           WorkerRank(w)' < WorkerRank(w),
           \A v \in Worker \ {w} : WorkerRank(v)' = WorkerRank(v)
    PROVE  Lower(WorkLeft', WorkLeft)
<1>1. Chances' = Chances /\ Places' = Places /\ Dispatch' = Dispatch
  BY DEF Chances, Places, Dispatch
<1>2. Comebacks \in [Worker -> Nat] /\ Comebacks' \in [Worker -> Nat]
  BY Ranked DEF Comebacks, WorkerRank
<1>3. Comebacks'[w] < Comebacks[w] /\ \A v \in Worker \ {w} : Comebacks'[v] = Comebacks[v]
  BY DEF Comebacks
<1>4. Falls(Comebacks', Comebacks)
  BY <1>2, <1>3, RanksFall
<1>5. QED
  BY <1>1, <1>4, LowerOfFour, WorkLeftIs

LEMMA StepLowers ==
    ASSUME Invariant, Invariant', Next, vars' # vars
    PROVE  \/ faults' > faults
           \/ \E w \in Worker, m \in Message : PublishDeadRefused(w, m)
           \/ Lower(WorkLeft', WorkLeft)
<1> USE DEF Invariant
<1>1. ASSUME NEW m \in Message, Publish(m) PROVE Lower(WorkLeft', WorkLeft)
  <2>1. /\ UNCHANGED rejected /\ loc' = [loc EXCEPT ![m] = "work"]
        /\ PlaceRank("work") < PlaceRank(loc[m])
    BY <1>1 DEF Publish, PlaceRank
  <2>2. QED
    BY <2>1, MovedOn
<1>2. ASSUME NEW m \in Message, Expire(m) PROVE Lower(WorkLeft', WorkLeft)
  <2>1. /\ UNCHANGED rejected /\ loc' = [loc EXCEPT ![m] = "work"]
        /\ PlaceRank("work") < PlaceRank(loc[m])
    BY <1>2 DEF Expire, PlaceRank
  <2>2. QED
    BY <2>1, MovedOn
<1>3. ASSUME NEW w \in Worker, NEW m \in Message, Deliver(w, m)
      PROVE  Lower(WorkLeft', WorkLeft)
  <2>1. /\ UNCHANGED rejected /\ loc' = [loc EXCEPT ![m] = "unacked"]
        /\ PlaceRank("unacked") < PlaceRank(loc[m])
    BY <1>3 DEF Deliver, PlaceRank
  <2>2. QED
    BY <2>1, MovedOn
<1>4. ASSUME NEW w \in Worker, NEW m \in Message, StartHandler(w, m)
      PROVE  Lower(WorkLeft', WorkLeft)
  <2>1. /\ UNCHANGED <<rejected, loc>> /\ pc' = [pc EXCEPT ![w][m] = "handling"]
        /\ JobRank("handling") < JobRank(pc[w][m])
    BY <1>4 DEF StartHandler, JobRank, brokerVars
  <2>2. QED
    BY <2>1, WentOn
<1>5. ASSUME NEW w \in Worker, NEW m \in Message, StartPromotion(w, m)
      PROVE  Lower(WorkLeft', WorkLeft)
  <2>1. /\ UNCHANGED <<rejected, loc>> /\ pc' = [pc EXCEPT ![w][m] = "promoting"]
        /\ JobRank("promoting") < JobRank(pc[w][m])
    BY <1>5 DEF StartPromotion, JobRank, brokerVars
  <2>2. QED
    BY <2>1, WentOn
<1>6. ASSUME NEW w \in Worker, NEW m \in Message, HandlerSucceeds(w, m)
      PROVE  Lower(WorkLeft', WorkLeft)
  <2>1. /\ UNCHANGED <<rejected, loc>> /\ pc' = [pc EXCEPT ![w][m] = "acking"]
        /\ JobRank("acking") < JobRank(pc[w][m])
    BY <1>6 DEF HandlerSucceeds, JobRank, brokerVars
  <2>2. QED
    BY <2>1, WentOn
<1>7. ASSUME NEW w \in Worker, NEW m \in Message, HandlerFails(w, m)
      PROVE  Lower(WorkLeft', WorkLeft)
  <2>1. CASE Owns(w, m)
    <3>1. rejected' = [rejected EXCEPT ![m] = @ + 1]
      BY <1>7, <2>1 DEF HandlerFails
    <3>2. QED
      BY <3>1, ChanceTaken
  <2>2. CASE ~Owns(w, m)
    <3>1. UNCHANGED <<rejected, loc>> /\ pc' = [pc EXCEPT ![w][m] = "idle"]
      BY <1>7, <2>2 DEF HandlerFails, Answer, EndJob, TypeOK
    <3>2. JobRank("idle") < JobRank(pc[w][m])
      BY <1>7 DEF HandlerFails, JobRank
    <3>3. QED
      BY <3>1, <3>2, WentOn
  <2>3. QED
    BY <2>1, <2>2
<1>8. ASSUME NEW w \in Worker, NEW m \in Message, PublishDead(w, m)
      PROVE  Lower(WorkLeft', WorkLeft)
  <2>1. /\ UNCHANGED <<rejected, loc>> /\ pc' = [pc EXCEPT ![w][m] = "acking"]
        /\ JobRank("acking") < JobRank(pc[w][m])
    BY <1>8 DEF PublishDead, JobRank
  <2>2. QED
    BY <2>1, WentOn
<1>9. ASSUME NEW w \in Worker, NEW m \in Message, Ack(w, m)
      PROVE  Lower(WorkLeft', WorkLeft)
  <2>1. CASE Owns(w, m)
    <3>1. loc' = [loc EXCEPT ![m] = "gone"] /\ loc[m] = "unacked"
      BY <1>9, <2>1 DEF Ack, Answer, Owns, OneOwner
    <3>2. UNCHANGED rejected /\ PlaceRank("gone") < PlaceRank(loc[m])
      BY <1>9, <3>1 DEF Ack, PlaceRank
    <3>3. QED
      BY <3>1, <3>2, MovedOn
  <2>2. CASE ~Owns(w, m)
    <3>1. UNCHANGED <<rejected, loc>> /\ pc' = [pc EXCEPT ![w][m] = "idle"]
      BY <1>9, <2>2 DEF Ack, Answer, EndJob, TypeOK
    <3>2. JobRank("idle") < JobRank(pc[w][m])
      BY <1>9 DEF Ack, JobRank
    <3>3. QED
      BY <3>1, <3>2, WentOn
  <2>3. QED
    BY <2>1, <2>2
<1>10. ASSUME NEW w \in Worker, NEW m \in Message, DropBuffered(w, m)
       PROVE  Lower(WorkLeft', WorkLeft)
  <2>1. /\ UNCHANGED <<rejected, loc>> /\ pc' = [pc EXCEPT ![w][m] = "idle"]
        /\ JobRank("idle") < JobRank(pc[w][m])
    BY <1>10 DEF DropBuffered, JobRank, EndJob, brokerVars
  <2>2. QED
    BY <2>1, WentOn
<1>11. ASSUME NEW w \in Worker,
              Cancel(w) \/ LoseChannel(w) \/ LosePublisher(w) \/ Crash(w)
       PROVE  faults' > faults
  BY <1>11 DEF Cancel, LoseChannel, LosePublisher, Crash, Fault, TypeOK
<1>12. ASSUME NEW w \in Worker, NEW m \in Message, PublishDeadUnconfirmed(w, m)
       PROVE  faults' > faults
  BY <1>12 DEF PublishDeadUnconfirmed, Fault, TypeOK
<1>13. ASSUME NEW w \in Worker, Return(w) PROVE Lower(WorkLeft', WorkLeft)
  <2>1. held[w] = {}
    <3>1. \A m \in Message : m \notin held[w]
      BY <1>13 DEF Return, OneOwner
    <3>2. QED
      BY <3>1 DEF TypeOK
  <2>2. UNCHANGED <<rejected, loc, pc>>
    BY <1>13, <2>1 DEF Return, BackToWork, jobVars, TypeOK
  <2>3. WorkerRank(w) = 2 /\ WorkerRank(w)' = 1
    BY <1>13 DEF Return, WorkerRank, TypeOK
  <2>4. \A v \in Worker \ {w} : WorkerRank(v)' = WorkerRank(v)
    BY <1>13 DEF Return, WorkerRank, TypeOK
  <2>5. QED
    BY <2>2, <2>3, <2>4, CameBack
<1>14. ASSUME NEW w \in Worker, Restart(w) PROVE Lower(WorkLeft', WorkLeft)
  <2>1. WorkerRank(w) = 1 /\ WorkerRank(w)' = 0
    BY <1>14 DEF Restart, WorkerRank, TypeOK, Stopped
  <2>2. \A v \in Worker \ {w} : WorkerRank(v)' = WorkerRank(v)
    BY <1>14 DEF Restart, WorkerRank, TypeOK
  <2>3. QED
    BY <1>14, <2>1, <2>2, CameBack DEF Restart, brokerVars, jobVars
<1>15. ~Idle
  BY DEF Idle
<1>16. QED
  BY <1>1, <1>2, <1>3, <1>4, <1>5, <1>6, <1>7, <1>8, <1>9, <1>10, <1>11, <1>12,
     <1>13, <1>14, <1>15, Zenon
     DEF Next, JobStep, WorkerStep

\* The indices of the four vectors: finitely many if messages and workers are.
Indices == <<Message, Message, Worker \X Message, Worker>>

LEMMA IndicesFinite ==
    ASSUME IsFiniteSet(Message), IsFiniteSet(Worker)
    PROVE  \A i \in 1..4 : IsFiniteSet(Indices[i])
<1>1. IsFiniteSet(Worker \X Message)
  BY FS_Product
<1>2. /\ Indices[1] = Message /\ Indices[2] = Message
      /\ Indices[3] = Worker \X Message /\ Indices[4] = Worker
  BY DEF Indices
<1>3. \A i \in 1..4 : i = 1 \/ i = 2 \/ i = 3 \/ i = 4
  OBVIOUS
<1>4. QED
  BY <1>1, <1>2, <1>3, Zenon

\* What is left to do is a measure to which NoEndlessDescent applies.
THEOREM WorkIsMeasure == Spec => []Fits(WorkLeft, 4, Indices)
<1>1. Invariant => Fits(WorkLeft, 4, Indices)
  <2>1. SUFFICES ASSUME Invariant PROVE Fits(WorkLeft, 4, Indices)
    OBVIOUS
  <2>2. \A x \in Message : Budget - rejected[x] \in Nat
    BY <2>1, BudgetIsPositive DEF Invariant, TypeOK, BudgetHonoured
  <2>3. /\ Chances \in [Message -> Nat] /\ Places \in [Message -> Nat]
        /\ Dispatch \in [Worker \X Message -> Nat] /\ Comebacks \in [Worker -> Nat]
    BY <2>2, Ranked DEF Chances, Places, Dispatch, Comebacks
  <2>4. WorkLeft = <<Chances, Places, Dispatch, Comebacks>>
    BY WorkLeftIs
  <2>5. QED
    BY <2>3, <2>4 DEF Fits, Indices
<1>2. QED
  BY <1>1, InvariantHolds, PTL

\* The stage does not run in circles: a step that is neither a fault nor a
\* refused promotion lowers a measure that cannot fall for ever
\* (NoEndlessDescent).
THEOREM StageRunsOut == Spec => WorkRunsOut
<1>1. Invariant /\ Invariant' /\ [Next]_vars =>
         [\/ faults' > faults
          \/ \E w \in Worker, m \in Message : PublishDeadRefused(w, m)
          \/ Lower(WorkLeft', WorkLeft)]_vars
  BY StepLowers
<1>2. QED
  BY <1>1, InvariantHolds, PTL DEF Spec, WorkRunsOut
=============================================================================
