--------------------------- MODULE DiscoveryProofs --------------------------
(***************************************************************************)
(* Theorems about Discovery, for any listings, last page, handlers, budget, *)
(* seeds and faults.  The first part is about what a handler has done when  *)
(* its task is settled, the second counts the tasks there can be, the third *)
(* shows that the crawl does not run in circles.                            *)
(***************************************************************************)
EXTENDS Discovery, ProgressProofs, SequenceTheorems, FiniteSetTheorems, TLAPS

LEMMA ConstantsTyped ==
    /\ LastPage \in Nat \ {0}
    /\ Budget \in Nat \ {0} /\ MaxSeeds \in Nat /\ MaxFaults \in Nat
  BY DiscoveryAssumption DEF LastPage

-----------------------------------------------------------------------------
(* The invariant.                                                          *)

\* TypeOK without the bounds on history.
Typed ==
    /\ page \in Seq(1..LastPage)
    /\ where \in [Task -> Place]
    /\ failures \in [Task -> Nat]
    /\ breaks \in [Task -> Nat]
    /\ step \in [Task -> Step]
    /\ urls \in [Task -> SUBSET Url]
    /\ todo \in [Task -> SUBSET Url]
    /\ fetches \subseteq Task \X Url

\* A handler has its task in hand.
Placed == \A i \in Task : step[i] # "idle" <=> where[i] = "busy"

HandedOver(i) == \A u \in urls[i] : <<i, u>> \in fetches

GoesOn(i) == urls[i] # {} /\ page[i] < LastPage

Continued(i) == \E j \in Task : page[j] = page[i] + 1 /\ j > i

\* What a handler has published when it is at each of its steps.
Published ==
    \A i \in Task :
        /\ step[i] = "fanout" => \A u \in urls[i] : u \in todo[i] \/ <<i, u>> \in fetches
        /\ step[i] = "next" => HandedOver(i) /\ GoesOn(i)
        /\ step[i] = "ack" \/ where[i] = "done" => HandedOver(i) /\ (GoesOn(i) => Continued(i))

IInv == Typed /\ Placed /\ Published

\* The counters stay within their bounds, and a handler has a task that has not
\* used up its budget.
Limited ==
    /\ seeds \in 0..MaxSeeds
    /\ faults \in 0..MaxFaults
    /\ \A i \in Task : /\ failures[i] <= Budget /\ breaks[i] <= faults
                       /\ step[i] # "idle" => failures[i] < Budget

-----------------------------------------------------------------------------
(* A task is appended to the log.                                          *)

\* What Append makes of a function on the tasks.
LEMMA AppendIs ==
  ASSUME NEW n \in Nat, NEW S, NEW f \in [1..n -> S], NEW x \in S
  PROVE  /\ Append(f, x) \in [1..(n + 1) -> S]
         /\ \A i \in 1..n : Append(f, x)[i] = f[i]
         /\ Append(f, x)[n + 1] = x
  <1>1. f \in Seq(S) /\ Len(f) = n
    OBVIOUS
  <1>2. Append(f, x) \in Seq(S) /\ Len(Append(f, x)) = n + 1
    BY <1>1
  <1>3. Append(f, x) \in [1..(n + 1) -> S]
    BY <1>2, LenProperties
  <1>4. /\ \A i \in 1..n : Append(f, x)[i] = f[i]
        /\ Append(f, x)[n + 1] = x
    BY <1>1
  <1> QED BY <1>3, <1>4

LEMMA AppendNone ==
  ASSUME NEW n \in Nat, NEW T, NEW f \in [1..n -> SUBSET T]
  PROVE  /\ Append(f, {}) \in [1..(n + 1) -> SUBSET T]
         /\ \A i \in 1..n : Append(f, {})[i] = f[i]
  <1>1. f \in Seq(SUBSET T) /\ Len(f) = n /\ {} \in SUBSET T
    OBVIOUS
  <1>2. Append(f, {}) \in Seq(SUBSET T) /\ Len(Append(f, {})) = n + 1
    BY <1>1
  <1>3. Append(f, {}) \in [1..(n + 1) -> SUBSET T]
    BY <1>2, LenProperties
  <1>4. \A i \in 1..n : Append(f, {})[i] = f[i]
    BY <1>1
  <1> QED BY <1>3, <1>4

LEMMA PageTyped ==
  ASSUME page \in Seq(1..LastPage), NEW i \in Task
  PROVE  page[i] \in 1..LastPage
  <1>1. i \in 1..Len(page)
    BY DEF Task
  <1> QED BY <1>1, ElementOfSeq

LEMMA EnqueueIs ==
  ASSUME Typed, NEW p \in 1..LastPage, NEW wh \in [Task -> Place],
         NEW fl \in [Task -> Nat], NEW st \in [Task -> Step],
         Enqueue(p, wh, fl, st), fetches' \subseteq Task \X Url
  PROVE  /\ Typed'
         /\ Task \subseteq Task' /\ Task' = Task \cup {Len(page) + 1}
         /\ Len(page) \in Nat /\ Len(page) + 1 \notin Task /\ Len(page') = Len(page) + 1
         /\ \A i \in Task : /\ i \in Nat
                            /\ page'[i] = page[i] /\ where'[i] = wh[i] /\ step'[i] = st[i]
                            /\ urls'[i] = urls[i] /\ todo'[i] = todo[i]
         /\ page'[Len(page) + 1] = p
         /\ where'[Len(page) + 1] = "queued" /\ step'[Len(page) + 1] = "idle"
  <1>1. /\ Len(page) \in Nat /\ Task = 1..Len(page) /\ page \in Seq(1..LastPage)
        /\ page' = Append(page, p)
    BY DEF Typed, Task, Enqueue
  <1>2. PICK n \in Nat : n = Len(page)
    BY <1>1
  <1>3. Task = 1..n /\ Task' = 1..(n + 1) /\ Len(page') = n + 1
    BY <1>1, <1>2 DEF Task
  <1>4. page' \in Seq(1..LastPage) /\ page'[n + 1] = p /\ \A i \in Task : page'[i] = page[i]
    BY <1>1, <1>2
  <1>5. /\ where' \in [Task' -> Place] /\ where'[n + 1] = "queued"
        /\ \A i \in Task : where'[i] = wh[i]
    <2>1. where' = Append(wh, "queued") /\ wh \in [1..n -> Place] /\ "queued" \in Place
      BY <1>3 DEF Enqueue, Place
    <2> QED BY <1>3, <2>1, AppendIs
  <1>6. /\ step' \in [Task' -> Step] /\ step'[n + 1] = "idle"
        /\ \A i \in Task : step'[i] = st[i]
    <2>1. step' = Append(st, "idle") /\ st \in [1..n -> Step] /\ "idle" \in Step
      BY <1>3 DEF Enqueue, Step
    <2> QED BY <1>3, <2>1, AppendIs
  <1>7. failures' \in [Task' -> Nat] /\ breaks' \in [Task' -> Nat]
    <2>1. /\ failures' = Append(fl, 0) /\ breaks' = Append(breaks, 0)
          /\ fl \in [1..n -> Nat] /\ breaks \in [1..n -> Nat]
      BY <1>3 DEF Enqueue, Typed
    <2> QED BY <1>3, <2>1, AppendIs
  <1>8. /\ urls' \in [Task' -> SUBSET Url] /\ todo' \in [Task' -> SUBSET Url]
        /\ \A i \in Task : urls'[i] = urls[i] /\ todo'[i] = todo[i]
    <2>1. /\ urls' = Append(urls, {}) /\ todo' = Append(todo, {})
          /\ urls \in [1..n -> SUBSET Url] /\ todo \in [1..n -> SUBSET Url]
      BY <1>3 DEF Enqueue, Typed
    <2>2. urls' \in [1..(n + 1) -> SUBSET Url] /\ \A i \in 1..n : urls'[i] = urls[i]
      BY <2>1, AppendNone
    <2>3. todo' \in [1..(n + 1) -> SUBSET Url] /\ \A i \in 1..n : todo'[i] = todo[i]
      BY <2>1, AppendNone
    <2> QED BY <1>3, <2>2, <2>3
  <1>9. fetches' \subseteq Task' \X Url /\ Task \subseteq Task' /\ Task' = Task \cup {n + 1}
        /\ n + 1 \notin Task /\ \A i \in Task : i \in Nat
    BY <1>3
  <1>10. Typed'
    BY <1>4, <1>5, <1>6, <1>7, <1>8, <1>9 DEF Typed
  <1> QED BY <1>1, <1>2, <1>3, <1>4, <1>5, <1>6, <1>8, <1>9, <1>10

\* The counts of the new task start at nought.
LEMMA EnqueueCounts ==
  ASSUME Typed, NEW p, NEW wh, NEW fl \in [Task -> Nat], NEW st, Enqueue(p, wh, fl, st)
  PROVE  /\ \A i \in Task : failures'[i] = fl[i] /\ breaks'[i] = breaks[i]
         /\ failures'[Len(page) + 1] = 0 /\ breaks'[Len(page) + 1] = 0
  <1>1. PICK n \in Nat : n = Len(page) /\ Task = 1..n
    BY DEF Typed, Task
  <1>2. (\A i \in 1..n : failures'[i] = fl[i]) /\ failures'[n + 1] = 0
    <2>1. failures' = Append(fl, 0) /\ fl \in [1..n -> Nat]
      BY <1>1 DEF Enqueue
    <2> QED BY <2>1, AppendIs
  <1>3. (\A i \in 1..n : breaks'[i] = breaks[i]) /\ breaks'[n + 1] = 0
    <2>1. breaks' = Append(breaks, 0) /\ breaks \in [1..n -> Nat]
      BY <1>1 DEF Enqueue, Typed
    <2> QED BY <2>1, AppendIs
  <1> QED BY <1>1, <1>2, <1>3

-----------------------------------------------------------------------------
(* One lemma per kind of step.                                             *)

LEMMA InitHolds == Init => IInv
  <1> SUFFICES ASSUME Init PROVE IInv
    OBVIOUS
  <1>1. Task = {} /\ page \in Seq(1..LastPage)
    BY DEF Init, Task
  <1>2. Typed
    BY <1>1 DEF Init, Typed
  <1> QED BY <1>1, <1>2 DEF IInv, Placed, Published

\* Appending a task keeps what the others have published.
LEMMA EnqueueHolds ==
  ASSUME IInv, NEW p \in 1..LastPage, NEW wh \in [Task -> Place],
         NEW fl \in [Task -> Nat], NEW st \in [Task -> Step],
         Enqueue(p, wh, fl, st), fetches' = fetches,
         NEW i, \A j \in Task : j # i => wh[j] = where[j] /\ st[j] = step[j],
         i \in Task =>
            /\ st[i] # "idle" <=> wh[i] = "busy"
            /\ wh[i] # "done" /\ st[i] \notin {"fanout", "next"}
            /\ st[i] = "ack" => HandedOver(i) /\ p = page[i] + 1
  PROVE  IInv'
  <1> DEFINE n == Len(page) + 1
  <1>1. /\ Typed'
        /\ Task \subseteq Task' /\ Task' = Task \cup {n} /\ Len(page) \in Nat /\ n \notin Task
        /\ \A j \in Task : /\ j \in Nat
                           /\ page'[j] = page[j] /\ where'[j] = wh[j] /\ step'[j] = st[j]
                           /\ urls'[j] = urls[j] /\ todo'[j] = todo[j]
        /\ page'[n] = p /\ where'[n] = "queued" /\ step'[n] = "idle"
    <2>1. fetches' \subseteq Task \X Url
      BY DEF IInv, Typed
    <2> QED BY <2>1, EnqueueIs DEF IInv
  <1>2. \A j \in Task : n > j
    BY DEF IInv, Typed, Task
  <1>3. Placed'
    <2> SUFFICES ASSUME NEW j \in Task'
                 PROVE  step'[j] # "idle" <=> where'[j] = "busy"
      BY DEF Placed
    <2>1. CASE j \notin Task
      BY <1>1, <2>1
    <2>2. CASE j \in Task
      <3>1. step[j] # "idle" <=> where[j] = "busy"
        BY <2>2 DEF IInv, Placed
      <3>2. step'[j] = st[j] /\ where'[j] = wh[j]
        BY <1>1, <2>2
      <3> QED BY <2>2, <3>1, <3>2
    <2> QED BY <2>1, <2>2
  <1>4. \A j \in Task : /\ HandedOver(j)' <=> HandedOver(j)
                        /\ GoesOn(j)' <=> GoesOn(j)
                        /\ Continued(j) => Continued(j)'
    BY <1>1 DEF HandedOver, GoesOn, Continued
  <1>5. ASSUME i \in Task, p = page[i] + 1
        PROVE  Continued(i)'
    <2>1. n \in Task' /\ n > i /\ page'[n] = page'[i] + 1
      BY <1>1, <1>2, <1>5
    <2> QED BY <2>1, Zenon DEF Continued
  <1>6. Published'
    <2> SUFFICES ASSUME NEW j \in Task'
                 PROVE  /\ step'[j] = "fanout" =>
                               \A u \in urls'[j] : u \in todo'[j] \/ <<j, u>> \in fetches
                        /\ step'[j] = "next" => HandedOver(j)' /\ GoesOn(j)'
                        /\ step'[j] = "ack" \/ where'[j] = "done"
                              => HandedOver(j)' /\ (GoesOn(j)' => Continued(j)')
      BY DEF Published
    <2>1. CASE j \notin Task
      BY <1>1, <2>1
    <2>2. CASE j \in Task /\ j # i
      <3>1. step'[j] = step[j] /\ where'[j] = where[j]
        BY <1>1, <2>2
      <3> QED BY <1>1, <1>4, <2>2, <3>1 DEF IInv, Published
    <2>3. CASE j \in Task /\ j = i
      BY <1>1, <1>4, <1>5, <2>3
    <2> QED BY <2>1, <2>2, <2>3
  <1> QED BY <1>1, <1>3, <1>6 DEF IInv

LEMMA SeedHolds ==
  ASSUME IInv, NEW told, PublishFirst(told)
  PROVE  IInv' /\ (page' = page \/ page'[Len(page')] = 1)
  <1>1. fetches' = fetches
    BY DEF PublishFirst
  <1>2. CASE Enqueue(1, where, failures, step)
    <2>1. 1 \in 1..LastPage
      BY ConstantsTyped
    <2>2. where \in [Task -> Place] /\ failures \in [Task -> Nat] /\ step \in [Task -> Step]
      BY DEF IInv, Typed
    <2>3. IInv'
      <3>1. 0 \notin Task
        BY DEF IInv, Typed, Task
      <3> QED BY <1>1, <1>2, <2>1, <2>2, <3>1, EnqueueHolds
    <2>4. page'[Len(page')] = 1
      BY <1>2, <2>1 DEF Enqueue, IInv, Typed
    <2> QED BY <2>3, <2>4
  <1>3. CASE UNCHANGED <<page, queueVars, step, jobVars>>
    BY <1>1, <1>3 DEF IInv, Typed, Placed, Published, HandedOver, GoesOn, Continued, Task,
                      queueVars, jobVars
  <1> QED BY <1>2, <1>3 DEF PublishFirst

LEMMA PublishNextHolds ==
  ASSUME IInv, NEW i \in Task, PublishNext(i) \/ PublishNextUnconfirmed(i)
  PROVE  IInv' /\ step[i] = "next" /\ HandedOver(i) /\ page'[Len(page')] = page[i] + 1
  <1>1. step[i] = "next" /\ fetches' = fetches
    BY DEF PublishNext, PublishNextUnconfirmed
  <1>2. HandedOver(i) /\ GoesOn(i) /\ where[i] = "busy"
    BY <1>1 DEF IInv, Published, Placed
  <1>3. page[i] + 1 \in 1..LastPage
    <2>1. page[i] \in 1..LastPage
      BY PageTyped DEF IInv, Typed
    <2> QED BY <1>2, <2>1, ConstantsTyped DEF GoesOn
  <1>4. /\ where \in [Task -> Place] /\ failures \in [Task -> Nat] /\ step \in [Task -> Step]
    BY DEF IInv, Typed
  <1>5. IInv'
    <2>1. CASE PublishNext(i)
      <3> DEFINE st == [step EXCEPT ![i] = "ack"]
      <3>1. /\ st \in [Task -> Step] /\ st[i] = "ack"
            /\ \A j \in Task : j # i => st[j] = step[j]
        BY <1>4 DEF Step
      <3>2. Enqueue(page[i] + 1, where, failures, st)
        BY <2>1 DEF PublishNext
      <3> HIDE DEF st
      <3> QED BY <1>1, <1>2, <1>3, <1>4, <3>1, <3>2, EnqueueHolds
    <2>2. CASE PublishNextUnconfirmed(i)
      <3> DEFINE wh == [where EXCEPT ![i] = "retry"]
                 fl == [failures EXCEPT ![i] = @ + 1]
                 st == [step EXCEPT ![i] = "idle"]
      <3>1. /\ wh \in [Task -> Place] /\ fl \in [Task -> Nat] /\ st \in [Task -> Step]
            /\ wh[i] = "retry" /\ st[i] = "idle"
            /\ \A j \in Task : j # i => wh[j] = where[j] /\ st[j] = step[j]
        BY <1>4 DEF Place, Step
      <3>2. Enqueue(page[i] + 1, wh, fl, st)
        BY <2>2 DEF PublishNextUnconfirmed
      <3> HIDE DEF wh, fl, st
      <3> QED BY <1>1, <1>3, <3>1, <3>2, EnqueueHolds
    <2> QED BY <2>1, <2>2
  <1>6. page'[Len(page')] = page[i] + 1
    BY <1>3 DEF PublishNext, PublishNextUnconfirmed, Enqueue, IInv, Typed
  <1> QED BY <1>1, <1>2, <1>5, <1>6

\* The steps that append nothing: what is to be shown of the task they are of.
LEMMA OwnStepHolds ==
  ASSUME IInv, NEW i \in Task, page' = page,
         where' \in [Task -> Place], failures' \in [Task -> Nat], breaks' \in [Task -> Nat],
         step' \in [Task -> Step], urls' \in [Task -> SUBSET Url], todo' \in [Task -> SUBSET Url],
         fetches \subseteq fetches', fetches' \subseteq Task \X Url,
         \A j \in Task : j # i => /\ where'[j] = where[j] /\ step'[j] = step[j]
                                  /\ urls'[j] = urls[j] /\ todo'[j] = todo[j],
         step'[i] # "idle" <=> where'[i] = "busy",
         step'[i] = "fanout" => \A u \in urls'[i] : u \in todo'[i] \/ <<i, u>> \in fetches',
         step'[i] = "next" => HandedOver(i)' /\ GoesOn(i)',
         step'[i] = "ack" \/ where'[i] = "done" => HandedOver(i)' /\ (GoesOn(i)' => Continued(i))
  PROVE  IInv'
  <1>1. Task' = Task
    BY DEF Task
  <1>2. Typed'
    BY <1>1 DEF IInv, Typed
  <1>3. Placed'
    BY <1>1 DEF IInv, Placed
  <1>4. \A j \in Task : /\ Continued(j)' <=> Continued(j)
                        /\ j # i => /\ HandedOver(j) => HandedOver(j)'
                                    /\ GoesOn(j)' <=> GoesOn(j)
    BY <1>1 DEF HandedOver, GoesOn, Continued
  <1>5. Published'
    <2> SUFFICES ASSUME NEW j \in Task
                 PROVE  /\ step'[j] = "fanout" =>
                               \A u \in urls'[j] : u \in todo'[j] \/ <<j, u>> \in fetches'
                        /\ step'[j] = "next" => HandedOver(j)' /\ GoesOn(j)'
                        /\ step'[j] = "ack" \/ where'[j] = "done"
                              => HandedOver(j)' /\ (GoesOn(j)' => Continued(j)')
      BY <1>1 DEF Published
    <2>1. CASE j = i
      BY <1>4, <2>1
    <2>2. CASE j # i
      BY <1>4, <2>2 DEF IInv, Published
    <2> QED BY <2>1, <2>2
  <1> QED BY <1>2, <1>3, <1>5 DEF IInv

LEMMA TaskHolds ==
  ASSUME IInv, NEW i \in Task,
         \/ Take(i) \/ FetchListingURLs(i) \/ PublishFetch(i) \/ HandlerFails(i)
         \/ PublishFetchUnconfirmed(i) \/ Ack(i) \/ Expire(i) \/ Crash(i)
  PROVE  IInv' /\ page' = page
  <1>1. /\ page \in Seq(1..LastPage) /\ page[i] \in 1..LastPage
        /\ where \in [Task -> Place] /\ failures \in [Task -> Nat] /\ breaks \in [Task -> Nat]
        /\ step \in [Task -> Step] /\ urls \in [Task -> SUBSET Url] /\ todo \in [Task -> SUBSET Url]
        /\ fetches \subseteq Task \X Url
        /\ step[i] # "idle" <=> where[i] = "busy"
    BY PageTyped DEF IInv, Typed, Placed
  <1>2. CASE Take(i)
    <2>1. step' = [step EXCEPT ![i] = "fetch"] \/ step' = step
      BY <1>1, <1>2, ConstantsTyped DEF Take
    <2>2. step[i] = "idle"
      BY <1>1, <1>2 DEF Take
    <2> QED BY <1>1, <1>2, <2>1, <2>2, OwnStepHolds DEF Take, jobVars, Place, Step
  <1>3. CASE FetchListingURLs(i)
    <2>1. PICK found \in SUBSET Url :
              /\ urls' = [urls EXCEPT ![i] = found]
              /\ todo' = [todo EXCEPT ![i] = found]
              /\ step' = [step EXCEPT ![i] =
                             IF found = {} THEN AfterFanOut(i, found) ELSE "fanout"]
      BY <1>3, Zenon DEF FetchListingURLs
    <2>2. AfterFanOut(i, {}) = "ack"
      BY DEF AfterFanOut, HasNext
    <2>3. step' = [step EXCEPT ![i] = IF found = {} THEN "ack" ELSE "fanout"]
      BY <2>1, <2>2
    <2>4. UNCHANGED <<page, where, failures, breaks, fetches>> /\ where[i] = "busy"
      BY <1>1, <1>3 DEF FetchListingURLs, queueVars
    <2>5. /\ step' \in [Task -> Step]
          /\ urls' \in [Task -> SUBSET Url] /\ todo' \in [Task -> SUBSET Url]
      BY <1>1, <2>1, <2>3 DEF Step
    <2>6. /\ urls'[i] = found /\ todo'[i] = found
          /\ step'[i] = IF found = {} THEN "ack" ELSE "fanout"
          /\ \A j \in Task : j # i => /\ step'[j] = step[j]
                                      /\ urls'[j] = urls[j] /\ todo'[j] = todo[j]
      BY <1>1, <2>1, <2>3
    <2>7. found = {} => HandedOver(i)' /\ ~GoesOn(i)'
      BY <2>6 DEF HandedOver, GoesOn
    <2> QED BY <1>1, <2>4, <2>5, <2>6, <2>7, OwnStepHolds
  <1>4. CASE PublishFetch(i)
    <2>1. PICK u \in todo[i] :
              /\ fetches' = fetches \cup {<<i, u>>}
              /\ todo' = [todo EXCEPT ![i] = @ \ {u}]
              /\ step' = [step EXCEPT ![i] =
                             IF todo[i] = {u} THEN AfterFanOut(i, urls[i]) ELSE @]
      BY <1>4, Zenon DEF PublishFetch
    <2>2. /\ step[i] = "fanout" /\ UNCHANGED <<page, where, failures, breaks, urls>>
          /\ where[i] = "busy"
      BY <1>1, <1>4 DEF PublishFetch, queueVars
    <2>3. AfterFanOut(i, urls[i]) \in {"next", "ack"}
          /\ (AfterFanOut(i, urls[i]) = "next" <=> GoesOn(i))
      BY DEF AfterFanOut, HasNext, GoesOn
    <2>4. /\ step' \in [Task -> Step] /\ todo' \in [Task -> SUBSET Url]
          /\ fetches' \subseteq Task \X Url
      BY <1>1, <2>1, <2>3 DEF Step
    <2>5. /\ todo'[i] = todo[i] \ {u}
          /\ step'[i] = IF todo[i] = {u} THEN AfterFanOut(i, urls[i]) ELSE "fanout"
          /\ \A j \in Task : j # i => step'[j] = step[j] /\ todo'[j] = todo[j]
      BY <1>1, <2>1, <2>2
    <2>6. \A v \in urls[i] : v \in todo[i] \/ <<i, v>> \in fetches
      BY <2>2 DEF IInv, Published
    <2>7. \A v \in urls[i] : v \in todo'[i] \/ <<i, v>> \in fetches'
      BY <2>1, <2>5, <2>6
    <2>8. todo[i] = {u} => HandedOver(i)'
      BY <2>2, <2>5, <2>7 DEF HandedOver
    <2>9. GoesOn(i)' <=> GoesOn(i)
      BY <2>2 DEF GoesOn
    <2> QED BY <1>1, <2>1, <2>2, <2>3, <2>4, <2>5, <2>7, <2>8, <2>9, OwnStepHolds
  <1>5. CASE HandlerFails(i) \/ PublishFetchUnconfirmed(i)
    <2>1. /\ UNCHANGED <<page, breaks, urls, todo>>
          /\ where' = [where EXCEPT ![i] = "retry"]
          /\ failures' = [failures EXCEPT ![i] = @ + 1]
          /\ step' = [step EXCEPT ![i] = "idle"]
      BY <1>5 DEF HandlerFails, PublishFetchUnconfirmed, Fail, jobVars
    <2>2. fetches \subseteq fetches' /\ fetches' \subseteq Task \X Url
      BY <1>1, <1>5 DEF HandlerFails, PublishFetchUnconfirmed
    <2>3. failures' \in [Task -> Nat] /\ where' \in [Task -> Place] /\ step' \in [Task -> Step]
      BY <1>1, <2>1 DEF Place, Step
    <2> QED BY <1>1, <2>1, <2>2, <2>3, OwnStepHolds
  <1>6. CASE Ack(i)
    <2>1. /\ UNCHANGED <<page, failures, breaks, urls, todo, fetches>>
          /\ step[i] = "ack"
          /\ where' = [where EXCEPT ![i] = "done"] /\ step' = [step EXCEPT ![i] = "idle"]
      BY <1>6 DEF Ack, jobVars
    <2>2. HandedOver(i)' /\ (GoesOn(i)' => Continued(i))
      BY <2>1 DEF IInv, Published, HandedOver, GoesOn
    <2>3. where' \in [Task -> Place] /\ step' \in [Task -> Step]
      BY <1>1, <2>1 DEF Place, Step
    <2> QED BY <1>1, <2>1, <2>2, <2>3, OwnStepHolds
  <1>7. CASE Expire(i)
    <2>1. /\ UNCHANGED <<page, failures, breaks, step, urls, todo, fetches>>
          /\ where[i] = "retry" /\ where' = [where EXCEPT ![i] = "queued"]
      BY <1>7 DEF Expire, jobVars
    <2>2. where' \in [Task -> Place] /\ step'[i] = "idle"
      BY <1>1, <2>1 DEF Place
    <2> QED BY <1>1, <2>1, <2>2, OwnStepHolds
  <1>8. CASE Crash(i)
    <2>1. /\ UNCHANGED <<page, failures, urls, todo, fetches>>
          /\ where' = [where EXCEPT ![i] = "queued"]
          /\ breaks' = [breaks EXCEPT ![i] = @ + 1]
          /\ step' = [step EXCEPT ![i] = "idle"]
      BY <1>8 DEF Crash, jobVars
    <2>2. /\ where' \in [Task -> Place] /\ step' \in [Task -> Step]
          /\ breaks' \in [Task -> Nat]
      BY <1>1, <2>1 DEF Place, Step
    <2> QED BY <1>1, <2>1, <2>2, OwnStepHolds
  <1> QED BY <1>2, <1>3, <1>4, <1>5, <1>6, <1>7, <1>8

\* Only a seed and the end of a handler append a task.
LEMMA StepHolds ==
  ASSUME IInv, [Next]_vars
  PROVE  /\ IInv'
         /\ \/ page' = page
            \/ page'[Len(page')] = 1
            \/ \E i \in Task : /\ step[i] = "next" /\ HandedOver(i)
                               /\ page'[Len(page')] = page[i] + 1
  <1>1. CASE UNCHANGED vars
    BY <1>1 DEF IInv, Typed, Placed, Published, HandedOver, GoesOn, Continued, Task, vars,
                queueVars, jobVars
  <1>2. CASE Seed \/ Crawl
    BY <1>2, SeedHolds DEF Seed, Crawl
  <1>3. ASSUME NEW i \in Task, PublishNext(i) \/ PublishNextUnconfirmed(i)
        PROVE  /\ IInv'
               /\ step[i] = "next" /\ HandedOver(i) /\ page'[Len(page')] = page[i] + 1
    BY <1>3, PublishNextHolds
  <1>4. ASSUME NEW i \in Task,
               \/ Take(i) \/ FetchListingURLs(i) \/ PublishFetch(i) \/ HandlerFails(i)
               \/ PublishFetchUnconfirmed(i) \/ Ack(i) \/ Expire(i) \/ Crash(i)
        PROVE  IInv' /\ page' = page
    BY <1>4, TaskHolds
  <1> QED BY <1>1, <1>2, <1>3, <1>4, Zenon DEF Next, TaskStep, Handle, Idle

THEOREM InvariantHolds == Spec => []IInv
  <1>1. IInv /\ [Next]_vars => IInv'
    BY StepHolds
  <1> QED BY InitHolds, <1>1, PTL DEF Spec

\* No failure breaks a chain of pages in silence.
THEOREM AckHolds == Spec => []AckedIsFannedOut
  <1>1. IInv => AckedIsFannedOut
    BY DEF IInv, Published, HandedOver, GoesOn, Continued, AckedIsFannedOut, TasksOf
  <1> QED BY <1>1, InvariantHolds, PTL

\* The next page is enqueued after the fan-out of its predecessor.
THEOREM NextHolds == Spec => NextAfterFanOut
  <1>1. IInv /\ [Next]_vars =>
            [Len(page') > Len(page) /\ page'[Len(page')] > 1 =>
                \E i \in Task :
                    /\ step[i] = "next" /\ page'[Len(page')] = page[i] + 1
                    /\ \A u \in urls[i] : <<i, u>> \in fetches]_vars
    <2> SUFFICES ASSUME IInv, [Next]_vars,
                        Len(page') > Len(page), page'[Len(page')] > 1
                 PROVE  \E i \in Task :
                            /\ step[i] = "next" /\ page'[Len(page')] = page[i] + 1
                            /\ \A u \in urls[i] : <<i, u>> \in fetches
      OBVIOUS
    <2>1. page' # page /\ page'[Len(page')] # 1
      BY DEF IInv, Typed
    <2> QED BY <2>1, StepHolds DEF HandedOver
  <1> QED BY <1>1, InvariantHolds, PTL DEF Spec, NextAfterFanOut

-----------------------------------------------------------------------------
(* Lemmas about finite sets, as the counting needs them.                   *)

LEMMA Shrinks ==
  ASSUME NEW S, IsFiniteSet(S), NEW T, T \subseteq S
  PROVE  /\ IsFiniteSet(T) /\ Cardinality(T) <= Cardinality(S)
         /\ Cardinality(T) \in Nat /\ Cardinality(S) \in Nat
  BY FS_Subset, FS_CardinalityType

LEMMA Gains ==
  ASSUME NEW S, IsFiniteSet(S), NEW x, x \notin S, NEW T, T = S \cup {x}
  PROVE  /\ IsFiniteSet(T) /\ Cardinality(T) = Cardinality(S) + 1
         /\ Cardinality(T) \in Nat /\ Cardinality(S) \in Nat
  BY FS_AddElement, FS_CardinalityType

LEMMA Grows ==
  ASSUME NEW S, IsFiniteSet(S), NEW x, NEW T, T \subseteq S \cup {x}
  PROVE  /\ IsFiniteSet(T) /\ Cardinality(T) <= Cardinality(S) + 1
         /\ Cardinality(T) \in Nat /\ Cardinality(S) \in Nat
  <1>1. /\ IsFiniteSet(S \cup {x}) /\ Cardinality(S) \in Nat
        /\ Cardinality(S \cup {x}) <= Cardinality(S) + 1
    <2>1. /\ IsFiniteSet(S \cup {x})
          /\ Cardinality(S \cup {x}) = IF x \in S THEN Cardinality(S) ELSE Cardinality(S) + 1
      BY FS_AddElement
    <2>2. Cardinality(S) \in Nat
      BY FS_CardinalityType
    <2> QED BY <2>1, <2>2
  <1>2. /\ IsFiniteSet(T) /\ Cardinality(T) <= Cardinality(S \cup {x})
        /\ Cardinality(T) \in Nat /\ Cardinality(S \cup {x}) \in Nat
    BY <1>1, Shrinks
  <1> QED BY <1>1, <1>2

LEMMA Loses ==
  ASSUME NEW S, IsFiniteSet(S), NEW x \in S, NEW T, T \subseteq S \ {x}
  PROVE  /\ IsFiniteSet(T) /\ Cardinality(T) + 1 <= Cardinality(S)
         /\ Cardinality(T) \in Nat /\ Cardinality(S) \in Nat
  <1>1. /\ IsFiniteSet(S \ {x}) /\ Cardinality(S) \in Nat
        /\ Cardinality(S \ {x}) = Cardinality(S) - 1
    BY FS_RemoveElement, FS_CardinalityType
  <1>2. /\ IsFiniteSet(T) /\ Cardinality(T) <= Cardinality(S \ {x})
        /\ Cardinality(T) \in Nat
    BY <1>1, Shrinks
  <1> QED BY <1>1, <1>2

LEMMA Swaps ==
  ASSUME NEW S, IsFiniteSet(S), NEW x \in S, NEW y, NEW T, T \subseteq (S \ {x}) \cup {y}
  PROVE  /\ IsFiniteSet(T) /\ Cardinality(T) <= Cardinality(S)
         /\ Cardinality(T) \in Nat /\ Cardinality(S) \in Nat
  <1>1. /\ IsFiniteSet(S \ {x}) /\ Cardinality(S \ {x}) + 1 <= Cardinality(S)
        /\ Cardinality(S) \in Nat /\ Cardinality(S \ {x}) \in Nat
    BY Loses
  <1>2. /\ IsFiniteSet(T) /\ Cardinality(T) <= Cardinality(S \ {x}) + 1
        /\ Cardinality(T) \in Nat
    BY <1>1, Grows
  <1> QED BY <1>1, <1>2

LEMMA Unites ==
  ASSUME NEW S, IsFiniteSet(S), NEW T, IsFiniteSet(T), NEW U, U \subseteq S \cup T
  PROVE  Cardinality(U) <= Cardinality(S) + Cardinality(T)
  <1>1. /\ IsFiniteSet(S \cup T) /\ Cardinality(S) \in Nat /\ Cardinality(T) \in Nat
        /\ Cardinality(S \cup T) = Cardinality(S) + Cardinality(T) - Cardinality(S \cap T)
    BY FS_Union, FS_CardinalityType
  <1>2. Cardinality(S \cap T) \in Nat
    <2>1. IsFiniteSet(S \cap T)
      BY FS_Intersection
    <2> QED BY <2>1, FS_CardinalityType
  <1>3. Cardinality(U) <= Cardinality(S \cup T) /\ Cardinality(U) \in Nat
    BY <1>1, Shrinks
  <1> QED BY <1>1, <1>2, <1>3

LEMMA Interval ==
  ASSUME NEW n \in Nat
  PROVE  IsFiniteSet(1..n) /\ Cardinality(1..n) = n
  <1>1. n \in Int /\ 1 \in Int
    OBVIOUS
  <1>2. IsFiniteSet(1..n) /\ Cardinality(1..n) = IF 1 > n THEN 0 ELSE n - 1 + 1
    BY <1>1, FS_Interval
  <1> QED BY <1>2

\* The pairs of an element of S and a number up to what f has for it.
Below(S, f) == {e \in S \X Nat : e[2] <= f[e[1]]}

LEMMA BelowFinite ==
  ASSUME NEW S, IsFiniteSet(S), NEW f, \A x \in S : f[x] \in Nat
  PROVE  IsFiniteSet(Below(S, f)) /\ Cardinality(Below(S, f)) \in Nat
  <1> DEFINE g == [x \in S |-> f[x]]
  <1>1. IsFiniteSet(Units(S, g))
    BY UnitsFinite
  <1>2. IsFiniteSet(S \X {0})
    BY FS_Singleton, FS_Product
  <1>3. IsFiniteSet(Units(S, g) \cup (S \X {0}))
    BY <1>1, <1>2, FS_Union
  <1>4. Below(S, f) \subseteq Units(S, g) \cup (S \X {0})
    <2> SUFFICES ASSUME NEW e \in S \X Nat, e[2] <= f[e[1]]
                 PROVE  e \in Units(S, g) \/ e \in S \X {0}
      BY DEF Below
    <2>1. e[1] \in S /\ e[2] \in Nat /\ g[e[1]] = f[e[1]] /\ f[e[1]] \in Nat
      OBVIOUS
    <2>2. CASE e[2] = 0
      BY <2>1, <2>2
    <2>3. CASE e[2] # 0
      <3>1. e[2] \in 1..g[e[1]]
        BY <2>1, <2>3
      <3> QED BY <3>1 DEF Units
    <2> QED BY <2>2, <2>3
  <1> QED BY <1>3, <1>4, Shrinks

\* One more number for one element, which may be new, is one more pair.
LEMMA BelowGains ==
  ASSUME NEW S, IsFiniteSet(S), NEW f, \A y \in S : f[y] \in Nat,
         NEW x, NEW T, T = S \cup {x}, NEW g, \A y \in S \ {x} : g[y] = f[y],
         IF x \in S THEN g[x] = f[x] + 1 ELSE g[x] = 0
  PROVE  Cardinality(Below(T, g)) = Cardinality(Below(S, f)) + 1
  <1>1. <<x, g[x]>> \notin Below(S, f)
    BY DEF Below
  <1>2. Below(T, g) = Below(S, f) \cup {<<x, g[x]>>}
    <2>1. ASSUME NEW e \in Below(T, g)
          PROVE  e \in Below(S, f) \/ e = <<x, g[x]>>
      <3>1. /\ e \in T \X Nat /\ e = <<e[1], e[2]>>
            /\ e[1] \in T /\ e[2] \in Nat /\ e[2] <= g[e[1]]
        BY DEF Below
      <3>2. CASE e[1] # x
        BY <3>1, <3>2 DEF Below
      <3>3. CASE e[1] = x /\ x \in S
        <4>1. e[2] <= f[x] \/ e[2] = g[x]
          BY <3>1, <3>3
        <4> QED BY <3>1, <3>3, <4>1 DEF Below
      <3>4. CASE e[1] = x /\ x \notin S
        BY <3>1, <3>4
      <3> QED BY <3>2, <3>3, <3>4
    <2>2. Below(S, f) \subseteq Below(T, g)
      <3> SUFFICES ASSUME NEW e \in S \X Nat, e[2] <= f[e[1]]
                   PROVE  e \in T \X Nat /\ e[2] <= g[e[1]]
        BY DEF Below
      <3>1. e[1] \in S /\ e[2] \in Nat /\ f[e[1]] \in Nat
        OBVIOUS
      <3>2. g[e[1]] = f[e[1]] \/ g[e[1]] = f[e[1]] + 1
        BY <3>1
      <3> QED BY <3>1, <3>2
    <2>3. <<x, g[x]>> \in Below(T, g)
      <3>1. g[x] \in Nat
        OBVIOUS
      <3> QED BY <3>1 DEF Below
    <2> QED BY <2>1, <2>2, <2>3
  <1> QED BY <1>1, <1>2, BelowFinite, Gains

-----------------------------------------------------------------------------
(* What a step does to the tasks that still have something to publish and  *)
(* to the number of their deliveries.                                      *)

\* The task has, or will have, a handler that may enqueue the next page.
Open(i) == where[i] \in {"queued", "retry"} \/ step[i] \in {"fetch", "fanout", "next"}

\* The deliveries of each task before the one it waits for or is in.
Tries == [i \in Task |-> failures[i] + breaks[i]]

\* Of these tasks none is delivered again, and none that was through is not.
Kept(S) == \A j \in S : Tries'[j] = Tries[j] /\ (Open(j)' => Open(j))

Added(n, p) ==
    /\ n \notin Task /\ Task' = Task \cup {n}
    /\ \A j \in Task : page'[j] = page[j]
    /\ page'[n] = p /\ Tries'[n] = 0

\* The five shapes of a step.
Quiet ==
    /\ page' = page
    /\ seeds' >= seeds /\ faults' = faults
    /\ Kept(Task)

Retried(i) ==
    /\ page' = page
    /\ seeds' = seeds /\ faults' = faults + 1
    /\ Tries'[i] = Tries[i] + 1 /\ Kept(Task \ {i})

Seeded(n) ==
    /\ Added(n, 1)
    /\ seeds' = seeds + 1 /\ faults' = faults
    /\ Kept(Task)

Chained(n, i) ==
    /\ Added(n, page[i] + 1)
    /\ seeds' = seeds /\ faults' = faults
    /\ Open(i) /\ ~Open(i)' /\ Kept(Task)

Forked(n, i) ==
    /\ Added(n, page[i] + 1)
    /\ seeds' = seeds /\ faults' = faults + 1
    /\ Open(i) /\ Tries'[i] = Tries[i] + 1 /\ Kept(Task \ {i})

LEMMA Enqueued ==
  ASSUME IInv, NEW p \in 1..LastPage, NEW wh \in [Task -> Place],
         NEW fl \in [Task -> Nat], NEW st \in [Task -> Step],
         Enqueue(p, wh, fl, st), fetches' = fetches, NEW n, n = Len(page) + 1
  PROVE  /\ n \notin Task /\ Task' = Task \cup {n}
         /\ \A j \in Task : /\ page'[j] = page[j] /\ where'[j] = wh[j] /\ step'[j] = st[j]
                            /\ failures'[j] = fl[j] /\ breaks'[j] = breaks[j]
         /\ page'[n] = p /\ where'[n] = "queued" /\ step'[n] = "idle"
         /\ failures'[n] = 0 /\ breaks'[n] = 0
  <1>1. Typed /\ fetches' \subseteq Task \X Url
    BY DEF IInv, Typed
  <1>2. /\ n \notin Task /\ Task' = Task \cup {n}
        /\ \A j \in Task : page'[j] = page[j] /\ where'[j] = wh[j] /\ step'[j] = st[j]
        /\ page'[n] = p /\ where'[n] = "queued" /\ step'[n] = "idle"
    BY <1>1, EnqueueIs
  <1>3. /\ \A j \in Task : failures'[j] = fl[j] /\ breaks'[j] = breaks[j]
        /\ failures'[n] = 0 /\ breaks'[n] = 0
    BY <1>1, EnqueueCounts
  <1> QED BY <1>2, <1>3

LEMMA SeedShape ==
  ASSUME IInv, NEW told, PublishFirst(told), Limited
  PROVE  (Quiet \/ \E n : Seeded(n)) /\ Limited'
  <1>1. /\ seeds < MaxSeeds /\ seeds' = seeds + 1 /\ faults' = faults /\ fetches' = fetches
        /\ seeds \in Nat /\ seeds' \in 0..MaxSeeds
    BY ConstantsTyped DEF PublishFirst, Limited
  <1>2. CASE Enqueue(1, where, failures, step)
    <2>1. PICK n : n = Len(page) + 1
      OBVIOUS
    <2>2. /\ 1 \in 1..LastPage
          /\ where \in [Task -> Place] /\ failures \in [Task -> Nat] /\ step \in [Task -> Step]
      BY ConstantsTyped DEF IInv, Typed
    <2>3. /\ n \notin Task /\ Task' = Task \cup {n}
          /\ \A j \in Task : /\ page'[j] = page[j] /\ where'[j] = where[j] /\ step'[j] = step[j]
                             /\ failures'[j] = failures[j] /\ breaks'[j] = breaks[j]
          /\ page'[n] = 1 /\ where'[n] = "queued" /\ step'[n] = "idle"
          /\ failures'[n] = 0 /\ breaks'[n] = 0
      BY <1>1, <1>2, <2>1, <2>2, Enqueued
    <2>4. Tries'[n] = 0 /\ \A j \in Task : Tries'[j] = Tries[j] /\ (Open(j)' <=> Open(j))
      BY <2>3 DEF Tries, Open
    <2>5. Seeded(n)
      BY <1>1, <2>3, <2>4 DEF Seeded, Added, Kept
    <2>6. Limited'
      BY <1>1, <2>3, ConstantsTyped DEF Limited
    <2> QED BY <2>5, <2>6
  <1>3. CASE UNCHANGED <<page, queueVars, step, jobVars>>
    <2>1. UNCHANGED <<page, where, failures, breaks, step>> /\ Task' = Task
      BY <1>3 DEF queueVars, Task
    <2>2. Quiet
      BY <1>1, <2>1 DEF Quiet, Kept, Tries, Open
    <2>3. Limited'
      BY <1>1, <2>1 DEF Limited
    <2> QED BY <2>2, <2>3
  <1> QED BY <1>2, <1>3 DEF PublishFirst

LEMMA PublishNextShape ==
  ASSUME IInv, NEW i \in Task, PublishNext(i) \/ PublishNextUnconfirmed(i), Limited
  PROVE  (\E n : Chained(n, i) \/ Forked(n, i)) /\ Limited'
  <1>1. /\ step[i] = "next" /\ fetches' = fetches /\ seeds' = seeds /\ where[i] = "busy"
        /\ faults \in Nat
    BY ConstantsTyped DEF PublishNext, PublishNextUnconfirmed, IInv, Placed, Limited
  <1>2. page[i] + 1 \in 1..LastPage
    <2>1. page[i] \in 1..LastPage /\ page[i] < LastPage
      BY <1>1, PageTyped DEF IInv, Typed, Published, GoesOn
    <2> QED BY <2>1, ConstantsTyped
  <1>3. /\ where \in [Task -> Place] /\ failures \in [Task -> Nat] /\ step \in [Task -> Step]
        /\ breaks \in [Task -> Nat]
    BY DEF IInv, Typed
  <1>4. PICK n : n = Len(page) + 1
    OBVIOUS
  <1>5. CASE PublishNext(i)
    <2> DEFINE st == [step EXCEPT ![i] = "ack"]
    <2>1. /\ st \in [Task -> Step] /\ st[i] = "ack"
          /\ \A j \in Task : j # i => st[j] = step[j]
          /\ where \in [Task -> Place] /\ failures \in [Task -> Nat]
      BY <1>3 DEF Step
    <2>2. Enqueue(page[i] + 1, where, failures, st) /\ faults' = faults
      BY <1>5 DEF PublishNext
    <2> HIDE DEF st
    <2>3. /\ n \notin Task /\ Task' = Task \cup {n}
          /\ \A j \in Task : /\ page'[j] = page[j] /\ where'[j] = where[j] /\ step'[j] = st[j]
                             /\ failures'[j] = failures[j] /\ breaks'[j] = breaks[j]
          /\ page'[n] = page[i] + 1 /\ where'[n] = "queued" /\ step'[n] = "idle"
          /\ failures'[n] = 0 /\ breaks'[n] = 0
      BY <1>1, <1>2, <1>4, <2>1, <2>2, Enqueued
    <2>4. Open(i) /\ ~Open(i)'
      BY <1>1, <2>1, <2>3 DEF Open
    <2>5. Tries'[n] = 0 /\ \A j \in Task : Tries'[j] = Tries[j]
      BY <2>3 DEF Tries
    <2>6. \A j \in Task : Open(j)' => Open(j)
      BY <2>1, <2>3, <2>4 DEF Open
    <2>7. Chained(n, i)
      BY <1>1, <2>2, <2>3, <2>4, <2>5, <2>6 DEF Chained, Added, Kept
    <2>8. \A j \in Task' : /\ failures'[j] <= Budget /\ breaks'[j] <= faults'
                           /\ step'[j] # "idle" => failures'[j] < Budget
      <3> TAKE j \in Task'
      <3>1. CASE j = n
        BY <1>1, <2>2, <2>3, <3>1, ConstantsTyped
      <3>2. CASE j \in Task
        <4>1. step'[j] # "idle" => step[j] # "idle"
          BY <1>1, <2>1, <2>3, <3>2
        <4> QED BY <2>2, <2>3, <3>2, <4>1 DEF Limited
      <3> QED BY <2>3, <3>1, <3>2
    <2>9. Limited'
      BY <1>1, <2>2, <2>8 DEF Limited
    <2> QED BY <2>7, <2>9
  <1>6. CASE PublishNextUnconfirmed(i)
    <2> DEFINE wh == [where EXCEPT ![i] = "retry"]
               fl == [failures EXCEPT ![i] = @ + 1]
               st == [step EXCEPT ![i] = "idle"]
    <2>1. /\ wh \in [Task -> Place] /\ fl \in [Task -> Nat] /\ st \in [Task -> Step]
          /\ wh[i] = "retry" /\ st[i] = "idle" /\ fl[i] = failures[i] + 1
          /\ \A j \in Task : j # i => wh[j] = where[j] /\ st[j] = step[j] /\ fl[j] = failures[j]
      BY <1>3 DEF Place, Step
    <2>2. Enqueue(page[i] + 1, wh, fl, st) /\ faults' = faults + 1 /\ faults < MaxFaults
      BY <1>6 DEF PublishNextUnconfirmed, Fault
    <2> HIDE DEF wh, fl, st
    <2>3. /\ n \notin Task /\ Task' = Task \cup {n}
          /\ \A j \in Task : /\ page'[j] = page[j] /\ where'[j] = wh[j] /\ step'[j] = st[j]
                             /\ failures'[j] = fl[j] /\ breaks'[j] = breaks[j]
          /\ page'[n] = page[i] + 1 /\ where'[n] = "queued" /\ step'[n] = "idle"
          /\ failures'[n] = 0 /\ breaks'[n] = 0
      BY <1>1, <1>2, <1>4, <2>1, <2>2, Enqueued
    <2>4. Open(i)
      BY <1>1 DEF Open
    <2>5. /\ Tries'[n] = 0 /\ Tries'[i] = Tries[i] + 1
          /\ \A j \in Task : j # i => Tries'[j] = Tries[j]
      <3>1. \A j \in Task : failures[j] \in Nat /\ breaks[j] \in Nat
        BY <1>3
      <3>2. /\ \A j \in Task : Tries'[j] = fl[j] + breaks[j] /\ Tries[j] = failures[j] + breaks[j]
            /\ Tries'[n] = 0
        BY <2>3 DEF Tries
      <3>3. Tries'[i] = Tries[i] + 1
        <4>1. /\ Tries'[i] = fl[i] + breaks[i] /\ Tries[i] = failures[i] + breaks[i]
              /\ failures[i] \in Nat /\ breaks[i] \in Nat /\ fl[i] = failures[i] + 1
          BY <2>1, <3>1, <3>2
        <4> HIDE DEF Tries
        <4> QED BY <4>1
      <3>4. \A j \in Task : j # i => Tries'[j] = Tries[j]
        BY <2>1, <3>2
      <3> QED BY <3>2, <3>3, <3>4
    <2>6. \A j \in Task : j # i => (Open(j)' => Open(j))
      BY <2>1, <2>3 DEF Open
    <2>7. Forked(n, i)
      BY <1>1, <2>2, <2>3, <2>4, <2>5, <2>6 DEF Forked, Added, Kept
    <2>8. \A j \in Task' : /\ failures'[j] <= Budget /\ breaks'[j] <= faults'
                           /\ step'[j] # "idle" => failures'[j] < Budget
      <3> TAKE j \in Task'
      <3>1. CASE j = n
        BY <1>1, <2>2, <2>3, <3>1, ConstantsTyped
      <3>2. CASE j = i
        <4>1. failures[i] < Budget /\ failures[i] \in Nat /\ breaks[i] <= faults /\ breaks[i] \in Nat
          BY <1>1, <1>3 DEF Limited
        <4> QED BY <1>1, <2>1, <2>2, <2>3, <3>2, <4>1, ConstantsTyped
      <3>3. CASE j \in Task /\ j # i
        <4>1. /\ failures[j] <= Budget /\ breaks[j] <= faults /\ breaks[j] \in Nat
              /\ step[j] # "idle" => failures[j] < Budget
          BY <1>3, <3>3 DEF Limited
        <4> QED BY <1>1, <2>1, <2>2, <2>3, <3>3, <4>1
      <3> QED BY <2>3, <3>1, <3>2, <3>3
    <2>9. faults' \in 0..MaxFaults
      BY <1>1, <2>2, ConstantsTyped
    <2>10. Limited'
      BY <1>1, <2>8, <2>9 DEF Limited
    <2> QED BY <2>7, <2>10
  <1> QED BY <1>5, <1>6

\* The steps that leave the queue and the counts as they are, or take a task
\* from it, or settle it.
LEMMA QuietShape ==
  ASSUME IInv, Limited, NEW i \in Task,
         \/ Take(i) \/ FetchListingURLs(i) \/ PublishFetch(i) \/ Ack(i) \/ Expire(i)
  PROVE  Quiet /\ Limited'
  <1>1. /\ UNCHANGED <<page, failures, breaks, seeds, faults>> /\ Task' = Task
        /\ seeds \in Nat
    BY ConstantsTyped DEF Take, FetchListingURLs, PublishFetch, Ack, Expire, queueVars, Task, Limited
  <1>2. /\ where \in [Task -> Place] /\ step \in [Task -> Step]
        /\ step[i] # "idle" <=> where[i] = "busy"
    BY DEF IInv, Typed, Placed
  <1>3. \A j \in Task : j # i => where'[j] = where[j] /\ step'[j] = step[j]
    BY <1>2, Zenon DEF Take, FetchListingURLs, PublishFetch, Ack, Expire, queueVars
  <1>4. /\ Open(i)' => Open(i)
        /\ step'[i] # "idle" => step[i] # "idle" \/ failures[i] < Budget
    <2>1. CASE Take(i)
      <3>1. where[i] = "queued" /\ (step' = step \/ failures[i] < Budget)
        BY <2>1 DEF Take
      <3> QED BY <3>1 DEF Open
    <2>2. CASE FetchListingURLs(i) \/ PublishFetch(i)
      <3>1. step[i] \in {"fetch", "fanout"}
        BY <2>2 DEF FetchListingURLs, PublishFetch
      <3> QED BY <3>1 DEF Open
    <2>3. CASE Ack(i)
      <3>1. where'[i] = "done" /\ step'[i] = "idle"
        BY <1>2, <2>3 DEF Ack
      <3> QED BY <3>1 DEF Open
    <2>4. CASE Expire(i)
      <3>1. where[i] = "retry" /\ step' = step
        BY <2>4 DEF Expire
      <3> QED BY <3>1 DEF Open
    <2> QED BY <2>1, <2>2, <2>3, <2>4
  <1>5. \A j \in Task : Open(j)' => Open(j)
    BY <1>3, <1>4 DEF Open
  <1>6. \A j \in Task : Tries'[j] = Tries[j]
    BY <1>1 DEF Tries
  <1>7. Quiet
    BY <1>1, <1>5, <1>6 DEF Quiet, Kept
  <1>8. \A j \in Task : step'[j] # "idle" => failures[j] < Budget
    BY <1>3, <1>4 DEF Limited
  <1>9. Limited'
    BY <1>1, <1>8 DEF Limited
  <1> QED BY <1>7, <1>9

\* The faults that append nothing.
LEMMA RetriedShape ==
  ASSUME IInv, Limited, NEW i \in Task,
         HandlerFails(i) \/ PublishFetchUnconfirmed(i) \/ Crash(i)
  PROVE  Retried(i) /\ Limited'
  <1>1. /\ UNCHANGED <<page, seeds>> /\ Task' = Task
        /\ faults' = faults + 1 /\ faults < MaxFaults /\ faults \in Nat
        /\ step' = [step EXCEPT ![i] = "idle"]
    BY ConstantsTyped
       DEF HandlerFails, PublishFetchUnconfirmed, Crash, Fail, Fault, Task, Limited
  <1>2. /\ where \in [Task -> Place] /\ step \in [Task -> Step]
        /\ failures \in [Task -> Nat] /\ breaks \in [Task -> Nat]
        /\ step[i] # "idle"
    BY DEF IInv, Typed, Placed, HandlerFails, PublishFetchUnconfirmed, Crash
  <1>3. \/ failures' = [failures EXCEPT ![i] = @ + 1] /\ breaks' = breaks
        \/ breaks' = [breaks EXCEPT ![i] = @ + 1] /\ failures' = failures
    BY DEF HandlerFails, PublishFetchUnconfirmed, Crash, Fail
  <1>4. \A j \in Task : j # i => /\ where'[j] = where[j] /\ step'[j] = step[j]
                                 /\ failures'[j] = failures[j] /\ breaks'[j] = breaks[j]
    BY <1>1, <1>2, <1>3, Zenon DEF HandlerFails, PublishFetchUnconfirmed, Crash, Fail
  <1>5. /\ failures[i] \in Nat /\ breaks[i] \in Nat /\ step'[i] = "idle"
        /\ \/ failures'[i] = failures[i] + 1 /\ breaks'[i] = breaks[i]
           \/ failures'[i] = failures[i] /\ breaks'[i] = breaks[i] + 1
    BY <1>1, <1>2, <1>3
  <1>6. \A j \in Task : j # i => Tries'[j] = Tries[j] /\ (Open(j)' => Open(j))
    BY <1>1, <1>4 DEF Tries, Open
  <1>7. Tries'[i] = Tries[i] + 1
    <2>1. Tries'[i] = failures'[i] + breaks'[i] /\ Tries[i] = failures[i] + breaks[i]
      BY <1>1 DEF Tries
    <2> QED BY <1>5, <2>1
  <1>8. Retried(i)
    BY <1>1, <1>6, <1>7 DEF Retried, Kept
  <1>9. \A j \in Task : /\ failures'[j] <= Budget /\ breaks'[j] <= faults'
                        /\ step'[j] # "idle" => failures'[j] < Budget
    <2> TAKE j \in Task
    <2>1. CASE j = i
      <3>1. failures[i] < Budget /\ breaks[i] <= faults
        BY <1>2 DEF Limited
      <3> QED BY <1>1, <1>5, <2>1, <3>1, ConstantsTyped
    <2>2. CASE j # i
      <3>1. /\ failures[j] <= Budget /\ breaks[j] <= faults /\ breaks[j] \in Nat
            /\ step[j] # "idle" => failures[j] < Budget
        BY <1>2 DEF Limited
      <3> QED BY <1>1, <1>4, <2>2, <3>1
    <2> QED BY <2>1, <2>2
  <1>10. faults' \in 0..MaxFaults
    BY <1>1, ConstantsTyped
  <1>11. Limited'
    BY <1>1, <1>9, <1>10 DEF Limited
  <1> QED BY <1>8, <1>11

\* A step has one of the shapes.
Shaped ==
    \/ Quiet
    \/ \E i \in Task : Retried(i)
    \/ \E n : Seeded(n)
    \/ \E i \in Task : \E n : Chained(n, i) \/ Forked(n, i)

LEMMA StepShape ==
  ASSUME IInv, Limited, [Next]_vars
  PROVE  Shaped /\ Limited'
  <1>1. CASE UNCHANGED vars
    <2>1. /\ UNCHANGED <<page, where, failures, breaks, step, seeds, faults>> /\ Task' = Task
          /\ seeds \in Nat
      BY <1>1, ConstantsTyped DEF vars, queueVars, Task, Limited
    <2>2. Quiet
      BY <2>1 DEF Quiet, Kept, Tries, Open
    <2>3. Limited'
      BY <2>1 DEF Limited
    <2> QED BY <2>2, <2>3 DEF Shaped
  <1>2. CASE Seed \/ Crawl
    BY <1>2, SeedShape DEF Seed, Crawl, Shaped
  <1>3. ASSUME NEW i \in Task, PublishNext(i) \/ PublishNextUnconfirmed(i)
        PROVE  Shaped /\ Limited'
    BY <1>3, PublishNextShape DEF Shaped
  <1>4. ASSUME NEW i \in Task,
               \/ Take(i) \/ FetchListingURLs(i) \/ PublishFetch(i) \/ Ack(i) \/ Expire(i)
        PROVE  Shaped /\ Limited'
    BY <1>4, QuietShape DEF Shaped
  <1>5. ASSUME NEW i \in Task, HandlerFails(i) \/ PublishFetchUnconfirmed(i) \/ Crash(i)
        PROVE  Shaped /\ Limited'
    BY <1>5, RetriedShape DEF Shaped
  <1> QED BY <1>1, <1>2, <1>3, <1>4, <1>5, Zenon DEF Next, TaskStep, Handle, Idle

LEMMA InitLimited == Init => Limited
  BY ConstantsTyped DEF Init, Limited, Task

-----------------------------------------------------------------------------
(* How often a page is walked.                                             *)

\* The tasks of a page, and those that may still lead to one.
Walks(p) == {i \in Task : page[i] = p \/ (page[i] < p /\ Open(i))}

\* Each walk of a page goes back to a seed or to a fault of its own.
Walked == \A p \in 1..LastPage : Cardinality(Walks(p)) <= seeds + faults

LEMMA TasksAre ==
  ASSUME IInv
  PROVE  /\ IsFiniteSet(Task)
         /\ \A i \in Task : /\ page[i] \in 1..LastPage /\ page[i] \in Nat
                            /\ failures[i] \in Nat /\ breaks[i] \in Nat /\ Tries[i] \in Nat
  <1>1. Task = 1..Len(page) /\ Len(page) \in Nat
    BY DEF IInv, Typed, Task
  <1>2. IsFiniteSet(1..Len(page))
    BY <1>1, FS_Interval
  <1>3. \A i \in Task : /\ page[i] \in 1..LastPage
                        /\ failures[i] \in Nat /\ breaks[i] \in Nat
    BY PageTyped DEF IInv, Typed
  <1>4. \A i \in Task : Tries[i] = failures[i] + breaks[i]
    BY DEF Tries
  <1>5. \A i \in Task : Tries[i] \in Nat /\ page[i] \in Nat
    BY <1>3, <1>4, ConstantsTyped
  <1> QED BY <1>1, <1>2, <1>3, <1>5

LEMMA WalksFinite ==
  ASSUME IInv, NEW p
  PROVE  IsFiniteSet(Walks(p)) /\ Cardinality(Walks(p)) \in Nat
  <1>1. IsFiniteSet(Task)
    BY TasksAre
  <1>2. Walks(p) \subseteq Task
    BY DEF Walks
  <1> QED BY <1>1, <1>2, Shrinks

\* A step adds at most one task to the walks of a page, and only together with
\* a seed or a fault.
LEMMA WalkedKept ==
  ASSUME IInv, Limited, Limited', Walked, Shaped
  PROVE  Walked'
  <1> SUFFICES ASSUME NEW p \in 1..LastPage
               PROVE  Cardinality(Walks(p)') <= seeds' + faults'
    BY DEF Walked
  <1> DEFINE W == Walks(p)
  <1>1. /\ IsFiniteSet(W) /\ Cardinality(W) \in Nat /\ Cardinality(W) <= seeds + faults
        /\ seeds \in Nat /\ faults \in Nat /\ seeds' \in Nat /\ p \in Nat
    BY WalksFinite, ConstantsTyped DEF Walked, Limited
  <1>2. \A i \in Task : page[i] \in Nat
    BY TasksAre
  <1>3. CASE Quiet
    <2>1. Walks(p)' \subseteq W
      BY <1>3 DEF Quiet, Kept, Walks, Task
    <2>2. Cardinality(Walks(p)') <= Cardinality(W) /\ Cardinality(Walks(p)') \in Nat
      BY <1>1, <2>1, Shrinks
    <2> HIDE DEF W
    <2> QED BY <1>1, <1>3, <2>1, <2>2 DEF Quiet
  <1>4. CASE \E i \in Task : Retried(i)
    <2>1. PICK i \in Task : Retried(i)
      BY <1>4
    <2>2. Walks(p)' \subseteq W \cup {i}
      BY <2>1 DEF Retried, Kept, Walks, Task
    <2>3. Cardinality(Walks(p)') <= Cardinality(W) + 1 /\ Cardinality(Walks(p)') \in Nat
      BY <1>1, <2>2, Grows
    <2> HIDE DEF W
    <2> QED BY <1>1, <2>1, <2>3 DEF Retried
  <1>5. CASE \E n : Seeded(n)
    <2>1. PICK n : Seeded(n)
      BY <1>5
    <2>2. Walks(p)' \subseteq W \cup {n}
      BY <2>1 DEF Seeded, Added, Kept, Walks
    <2>3. Cardinality(Walks(p)') <= Cardinality(W) + 1 /\ Cardinality(Walks(p)') \in Nat
      BY <1>1, <2>2, Grows
    <2> HIDE DEF W
    <2> QED BY <1>1, <2>1, <2>3 DEF Seeded
  <1>6. ASSUME NEW i \in Task, NEW n, Chained(n, i)
        PROVE  Cardinality(Walks(p)') <= seeds' + faults'
    <2>1. /\ Task' = Task \cup {n} /\ n \notin Task /\ page'[n] = page[i] + 1
          /\ \A j \in Task : page'[j] = page[j] /\ (Open(j)' => Open(j))
          /\ Open(i) /\ ~Open(i)' /\ seeds' = seeds /\ faults' = faults
      BY <1>6 DEF Chained, Added, Kept
    <2>2. CASE page[i] + 1 <= p
      <3>1. page[i] < p
        BY <1>1, <1>2, <2>2
      <3>2. i \in W /\ i \notin Walks(p)'
        BY <1>1, <1>2, <2>1, <3>1 DEF Walks
      <3>3. Walks(p)' \subseteq (W \ {i}) \cup {n}
        BY <2>1, <3>2 DEF Walks
      <3> HIDE DEF W
      <3>4. Cardinality(Walks(p)') <= Cardinality(W) /\ Cardinality(Walks(p)') \in Nat
        <4>1. IsFiniteSet(W) /\ i \in W
          BY <1>1, <3>2
        <4> QED BY <3>3, <4>1, Swaps
      <3> QED BY <1>1, <2>1, <3>4
    <2>3. CASE ~(page[i] + 1 <= p)
      <3>1. ~(page'[n] = p) /\ ~(page'[n] < p)
        BY <1>1, <1>2, <2>1, <2>3
      <3>2. Walks(p)' \subseteq W
        BY <2>1, <3>1 DEF Walks
      <3> HIDE DEF W
      <3>3. Cardinality(Walks(p)') <= Cardinality(W) /\ Cardinality(Walks(p)') \in Nat
        BY <1>1, <3>2, Shrinks
      <3> QED BY <1>1, <2>1, <3>3
    <2> QED BY <2>2, <2>3
  <1>7. ASSUME NEW i \in Task, NEW n, Forked(n, i)
        PROVE  Cardinality(Walks(p)') <= seeds' + faults'
    <2>1. /\ Task' = Task \cup {n}
          /\ \A j \in Task : page'[j] = page[j] /\ (Open(j)' => Open(j))
          /\ seeds' = seeds /\ faults' = faults + 1
      BY <1>7 DEF Forked, Added, Kept
    <2>2. Walks(p)' \subseteq W \cup {n}
      BY <2>1 DEF Walks
    <2> HIDE DEF W
    <2>3. Cardinality(Walks(p)') <= Cardinality(W) + 1 /\ Cardinality(Walks(p)') \in Nat
      BY <1>1, <2>2, Grows
    <2> QED BY <1>1, <2>1, <2>3
  <1> QED BY <1>3, <1>4, <1>5, <1>6, <1>7 DEF Shaped

-----------------------------------------------------------------------------
(* What the next page costs.                                               *)

OpenOf(p) == {i \in TasksOf(p) : Open(i)}

\* A page is paid for with the deliveries of the page before it, and a task
\* that may still lead to it has one of them left.
Spent ==
    /\ Cardinality(TasksOf(1)) <= seeds
    /\ \A p \in 1..(LastPage - 1) :
          Cardinality(TasksOf(p + 1)) + Cardinality(OpenOf(p)) <= Cardinality(Attempts(p))

LEMMA AttemptsAre ==
  ASSUME NEW S, NEW f, NEW g, NEW h, \A x \in S : f[x] + g[x] \in Nat /\ h[x] = f[x] + g[x]
  PROVE  UNION {{x} \X (0..(f[x] + g[x])) : x \in S} = Below(S, h)
  <1> DEFINE U == UNION {{x} \X (0..(f[x] + g[x])) : x \in S}
  <1>1. ASSUME NEW e \in U PROVE e \in Below(S, h)
    <2>1. PICK x \in S : e \in {x} \X (0..(f[x] + g[x]))
      OBVIOUS
    <2>2. e = <<e[1], e[2]>> /\ e[1] = x /\ e[2] \in 0..(f[x] + g[x])
      BY <2>1
    <2>3. e[1] \in S /\ e[2] \in Nat /\ e[2] <= h[e[1]]
      BY <2>2
    <2> QED BY <2>2, <2>3 DEF Below
  <1>2. ASSUME NEW e \in Below(S, h) PROVE e \in U
    <2>1. /\ e = <<e[1], e[2]>> /\ e[1] \in S /\ e[2] \in Nat /\ e[2] <= h[e[1]]
      BY DEF Below
    <2>2. e[2] \in 0..(f[e[1]] + g[e[1]])
      BY <2>1
    <2>3. e \in {e[1]} \X (0..(f[e[1]] + g[e[1]]))
      BY <2>1, <2>2
    <2> QED BY <2>1, <2>3
  <1> QED BY <1>1, <1>2

\* The numbers that Spent relates, as cardinalities of finite sets.
LEMMA SpentTyped ==
  ASSUME IInv, NEW p
  PROVE  /\ IsFiniteSet(TasksOf(p)) /\ Cardinality(TasksOf(p)) \in Nat
         /\ IsFiniteSet(OpenOf(p)) /\ Cardinality(OpenOf(p)) \in Nat
         /\ \A i \in TasksOf(p) : Tries[i] \in Nat
         /\ Attempts(p) = Below(TasksOf(p), Tries) /\ Cardinality(Attempts(p)) \in Nat
  <1>1. /\ IsFiniteSet(Task) /\ TasksOf(p) \subseteq Task /\ OpenOf(p) \subseteq Task
        /\ \A i \in Task : failures[i] \in Nat /\ breaks[i] \in Nat /\ Tries[i] \in Nat
    BY TasksAre DEF TasksOf, OpenOf
  <1>2. /\ IsFiniteSet(TasksOf(p)) /\ Cardinality(TasksOf(p)) \in Nat
        /\ IsFiniteSet(OpenOf(p)) /\ Cardinality(OpenOf(p)) \in Nat
    BY <1>1, Shrinks
  <1>3. \A i \in TasksOf(p) : /\ failures[i] + breaks[i] \in Nat
                              /\ Tries[i] = failures[i] + breaks[i]
    BY <1>1 DEF Tries
  <1>4. Attempts(p) = Below(TasksOf(p), Tries)
    <2>1. UNION {{x} \X (0..(failures[x] + breaks[x])) : x \in TasksOf(p)}
             = Below(TasksOf(p), Tries)
      BY <1>3, AttemptsAre
    <2> QED BY <2>1 DEF Attempts
  <1>5. \A i \in TasksOf(p) : Tries[i] \in Nat
    BY <1>1
  <1>6. Cardinality(Below(TasksOf(p), Tries)) \in Nat
    BY <1>2, <1>5, BelowFinite
  <1> QED BY <1>2, <1>4, <1>5, <1>6

LEMMA AttemptsAfter ==
  ASSUME IInv', NEW p
  PROVE  Attempts(p)' = Below(TasksOf(p)', Tries')
  <1>1. \A i \in Task' : failures'[i] \in Nat /\ breaks'[i] \in Nat
    BY DEF IInv, Typed
  <1>2. TasksOf(p)' \subseteq Task' /\ \A i \in Task' : Tries'[i] = failures'[i] + breaks'[i]
    BY DEF TasksOf, Tries
  <1>3. \A i \in TasksOf(p)' : /\ failures'[i] + breaks'[i] \in Nat
                               /\ Tries'[i] = failures'[i] + breaks'[i]
    BY <1>1, <1>2
  <1>4. UNION {{x} \X (0..(failures'[x] + breaks'[x])) : x \in TasksOf(p)'}
             = Below(TasksOf(p)', Tries')
    BY <1>3, AttemptsAre
  <1> QED BY <1>4 DEF Attempts

\* A page of whose tasks none is new and none was delivered once more.
LEMMA AttemptsSame ==
  ASSUME IInv, IInv', NEW p, TasksOf(p)' = TasksOf(p),
         \A j \in TasksOf(p) : Tries'[j] = Tries[j]
  PROVE  Cardinality(Attempts(p)') = Cardinality(Attempts(p))
  <1>1. Below(TasksOf(p)', Tries') = Below(TasksOf(p), Tries)
    <2>1. /\ \A e \in TasksOf(p) \X Nat : e[1] \in TasksOf(p)
          /\ \A e \in TasksOf(p) \X Nat : Tries'[e[1]] = Tries[e[1]]
      OBVIOUS
    <2> QED BY <2>1 DEF Below
  <1>2. Attempts(p)' = Below(TasksOf(p)', Tries') /\ Attempts(p) = Below(TasksOf(p), Tries)
    BY SpentTyped, AttemptsAfter
  <1> QED BY <1>1, <1>2

\* One of whose tasks is, and no other.
LEMMA AttemptsGain ==
  ASSUME IInv, IInv', NEW p, NEW i, TasksOf(p)' = TasksOf(p) \cup {i},
         \A j \in TasksOf(p) \ {i} : Tries'[j] = Tries[j],
         IF i \in TasksOf(p) THEN Tries'[i] = Tries[i] + 1 ELSE Tries'[i] = 0
  PROVE  Cardinality(Attempts(p)') = Cardinality(Attempts(p)) + 1
  <1>1. /\ Attempts(p)' = Below(TasksOf(p)', Tries') /\ Attempts(p) = Below(TasksOf(p), Tries)
        /\ IsFiniteSet(TasksOf(p)) /\ \A j \in TasksOf(p) : Tries[j] \in Nat
    BY SpentTyped, AttemptsAfter
  <1>2. Cardinality(Below(TasksOf(p)', Tries')) = Cardinality(Below(TasksOf(p), Tries)) + 1
    BY <1>1, BelowGains
  <1> QED BY <1>1, <1>2

\* What Spent says of one page.
Covered(p) ==
    Cardinality(TasksOf(p + 1)) + Cardinality(OpenOf(p)) <= Cardinality(Attempts(p))

LEMMA CoveredQuiet ==
  ASSUME IInv, IInv', NEW p, Covered(p), Quiet
  PROVE  Covered(p)'
  <1>1. /\ TasksOf(p)' = TasksOf(p) /\ TasksOf(p + 1)' = TasksOf(p + 1)
        /\ \A j \in TasksOf(p) : Tries'[j] = Tries[j]
        /\ OpenOf(p)' \subseteq OpenOf(p)
    BY DEF Quiet, Kept, TasksOf, Task, OpenOf
  <1>2. Cardinality(Attempts(p)') = Cardinality(Attempts(p))
    BY <1>1, AttemptsSame
  <1>3. /\ Cardinality(TasksOf(p + 1)) \in Nat /\ Cardinality(Attempts(p)) \in Nat
        /\ IsFiniteSet(OpenOf(p))
    BY SpentTyped
  <1>4. /\ Cardinality(OpenOf(p)') <= Cardinality(OpenOf(p))
        /\ Cardinality(OpenOf(p)') \in Nat /\ Cardinality(OpenOf(p)) \in Nat
    BY <1>1, <1>3, Shrinks
  <1> QED BY <1>1, <1>2, <1>3, <1>4 DEF Covered

LEMMA CoveredRetried ==
  ASSUME IInv, IInv', NEW p, Covered(p), NEW i \in Task, Retried(i)
  PROVE  Covered(p)'
  <1>1. /\ TasksOf(p)' = TasksOf(p) /\ TasksOf(p + 1)' = TasksOf(p + 1)
        /\ \A j \in TasksOf(p) \ {i} : Tries'[j] = Tries[j]
        /\ Tries'[i] = Tries[i] + 1
    BY DEF Retried, Kept, TasksOf, Task
  <1>2. /\ Cardinality(TasksOf(p + 1)) \in Nat /\ Cardinality(Attempts(p)) \in Nat
        /\ IsFiniteSet(OpenOf(p))
    BY SpentTyped
  <1>3. CASE i \in TasksOf(p)
    <2>1. Cardinality(Attempts(p)') = Cardinality(Attempts(p)) + 1
      <3>1. TasksOf(p)' = TasksOf(p) \cup {i}
        BY <1>1, <1>3
      <3> QED BY <1>1, <1>3, <3>1, AttemptsGain
    <2>2. OpenOf(p)' \subseteq OpenOf(p) \cup {i}
      BY <1>1 DEF OpenOf, Retried, Kept, TasksOf
    <2>3. /\ Cardinality(OpenOf(p)') <= Cardinality(OpenOf(p)) + 1
          /\ Cardinality(OpenOf(p)') \in Nat /\ Cardinality(OpenOf(p)) \in Nat
      BY <1>2, <2>2, Grows
    <2> QED BY <1>1, <1>2, <2>1, <2>3 DEF Covered
  <1>4. CASE i \notin TasksOf(p)
    <2>1. Cardinality(Attempts(p)') = Cardinality(Attempts(p))
      BY <1>1, <1>4, AttemptsSame
    <2>2. OpenOf(p)' \subseteq OpenOf(p)
      BY <1>1, <1>4 DEF OpenOf, Retried, Kept, TasksOf
    <2>3. /\ Cardinality(OpenOf(p)') <= Cardinality(OpenOf(p))
          /\ Cardinality(OpenOf(p)') \in Nat /\ Cardinality(OpenOf(p)) \in Nat
      BY <1>2, <2>2, Shrinks
    <2> QED BY <1>1, <1>2, <2>1, <2>3 DEF Covered
  <1> QED BY <1>3, <1>4

\* A new task on page q of which nothing has been delivered covers itself.
LEMMA CoveredAdded ==
  ASSUME IInv, IInv', NEW p \in Nat, Covered(p), NEW n, NEW q, Added(n, q), q # p + 1,
         \A j \in TasksOf(p) : Tries'[j] = Tries[j] /\ (Open(j)' => Open(j))
  PROVE  Covered(p)'
  <1>1. /\ TasksOf(p + 1)' = TasksOf(p + 1)
        /\ n \notin TasksOf(p) /\ Tries'[n] = 0
        /\ TasksOf(p)' = IF p = q THEN TasksOf(p) \cup {n} ELSE TasksOf(p)
    BY DEF Added, TasksOf
  <1>2. /\ Cardinality(TasksOf(p + 1)) \in Nat /\ Cardinality(Attempts(p)) \in Nat
        /\ IsFiniteSet(OpenOf(p))
    BY SpentTyped
  <1>3. CASE p = q
    <2>1. Cardinality(Attempts(p)') = Cardinality(Attempts(p)) + 1
      BY <1>1, <1>3, AttemptsGain
    <2>2. OpenOf(p)' \subseteq OpenOf(p) \cup {n}
      BY <1>1, <1>3 DEF OpenOf
    <2>3. /\ Cardinality(OpenOf(p)') <= Cardinality(OpenOf(p)) + 1
          /\ Cardinality(OpenOf(p)') \in Nat /\ Cardinality(OpenOf(p)) \in Nat
      BY <1>2, <2>2, Grows
    <2> QED BY <1>1, <1>2, <2>1, <2>3 DEF Covered
  <1>4. CASE p # q
    <2>1. Cardinality(Attempts(p)') = Cardinality(Attempts(p))
      BY <1>1, <1>4, AttemptsSame
    <2>2. OpenOf(p)' \subseteq OpenOf(p)
      BY <1>1, <1>4 DEF OpenOf
    <2>3. /\ Cardinality(OpenOf(p)') <= Cardinality(OpenOf(p))
          /\ Cardinality(OpenOf(p)') \in Nat /\ Cardinality(OpenOf(p)) \in Nat
      BY <1>2, <2>2, Shrinks
    <2> QED BY <1>1, <1>2, <2>1, <2>3 DEF Covered
  <1> QED BY <1>3, <1>4

\* The page whose handler enqueued the new task pays for it: the handler is
\* through, or its task was delivered once more than it will be.
LEMMA CoveredNext ==
  ASSUME IInv, IInv', NEW p \in Nat, Covered(p), NEW i \in TasksOf(p), NEW n,
         Chained(n, i) \/ Forked(n, i)
  PROVE  Covered(p)'
  <1>1. /\ i \in Task /\ page[i] = p /\ n \notin Task /\ Task' = Task \cup {n}
        /\ page'[n] = p + 1 /\ \A j \in Task : page'[j] = page[j]
        /\ i \in OpenOf(p)
    BY DEF TasksOf, OpenOf, Chained, Forked, Added
  <1>2. /\ TasksOf(p + 1)' = TasksOf(p + 1) \cup {n} /\ n \notin TasksOf(p + 1)
        /\ TasksOf(p)' = TasksOf(p)
    BY <1>1 DEF TasksOf
  <1>3. IsFiniteSet(TasksOf(p + 1)) /\ IsFiniteSet(OpenOf(p)) /\ Cardinality(Attempts(p)) \in Nat
    BY SpentTyped
  <1>4. /\ Cardinality(TasksOf(p + 1)') = Cardinality(TasksOf(p + 1)) + 1
        /\ Cardinality(TasksOf(p + 1)) \in Nat
    BY <1>2, <1>3, Gains
  <1>5. CASE Chained(n, i)
    <2>1. Cardinality(Attempts(p)') = Cardinality(Attempts(p))
      <3>1. \A j \in TasksOf(p) : Tries'[j] = Tries[j]
        BY <1>5 DEF Chained, Kept, TasksOf
      <3> QED BY <1>2, <3>1, AttemptsSame
    <2>2. OpenOf(p)' \subseteq OpenOf(p) \ {i}
      BY <1>2, <1>5 DEF OpenOf, Chained, Kept, TasksOf
    <2>3. /\ Cardinality(OpenOf(p)') + 1 <= Cardinality(OpenOf(p))
          /\ Cardinality(OpenOf(p)') \in Nat /\ Cardinality(OpenOf(p)) \in Nat
      BY <1>1, <1>3, <2>2, Loses
    <2> QED BY <1>3, <1>4, <2>1, <2>3 DEF Covered
  <1>6. CASE Forked(n, i)
    <2>1. Cardinality(Attempts(p)') = Cardinality(Attempts(p)) + 1
      <3>1. /\ \A j \in TasksOf(p) \ {i} : Tries'[j] = Tries[j]
            /\ Tries'[i] = Tries[i] + 1
        BY <1>6 DEF Forked, Kept, TasksOf
      <3>2. TasksOf(p)' = TasksOf(p) \cup {i}
        BY <1>2
      <3> QED BY <3>1, <3>2, AttemptsGain
    <2>2. OpenOf(p)' \subseteq OpenOf(p)
      BY <1>1, <1>2, <1>6 DEF OpenOf, Forked, Kept, TasksOf
    <2>3. /\ Cardinality(OpenOf(p)') <= Cardinality(OpenOf(p))
          /\ Cardinality(OpenOf(p)') \in Nat /\ Cardinality(OpenOf(p)) \in Nat
      BY <1>3, <2>2, Shrinks
    <2> QED BY <1>3, <1>4, <2>1, <2>3 DEF Covered
  <1> QED BY <1>5, <1>6

LEMMA CoveredKept ==
  ASSUME IInv, IInv', NEW p \in Nat \ {0}, Covered(p), Shaped
  PROVE  Covered(p)'
  <1>1. CASE Quiet
    BY <1>1, CoveredQuiet
  <1>2. CASE \E i \in Task : Retried(i)
    BY <1>2, CoveredRetried
  <1>3. ASSUME NEW n, Seeded(n)
        PROVE  Covered(p)'
    <2>1. Added(n, 1) /\ 1 # p + 1 /\ \A j \in TasksOf(p) : Tries'[j] = Tries[j] /\ (Open(j)' => Open(j))
      BY <1>3 DEF Seeded, Kept, TasksOf
    <2> QED BY <2>1, CoveredAdded
  <1>4. ASSUME NEW i \in Task, NEW n, Chained(n, i) \/ Forked(n, i)
        PROVE  Covered(p)'
    <2>1. CASE page[i] = p
      <3>1. i \in TasksOf(p)
        BY <2>1 DEF TasksOf
      <3> QED BY <1>4, <3>1, CoveredNext
    <2>2. CASE page[i] # p
      <3>1. page[i] + 1 # p + 1
        BY <2>2, TasksAre
      <3>2. /\ Added(n, page[i] + 1)
            /\ \A j \in TasksOf(p) : Tries'[j] = Tries[j] /\ (Open(j)' => Open(j))
        BY <1>4, <2>2 DEF Chained, Forked, Kept, TasksOf
      <3> QED BY <3>1, <3>2, CoveredAdded
    <2> QED BY <2>1, <2>2
  <1> QED BY <1>1, <1>2, <1>3, <1>4 DEF Shaped

LEMMA SpentKept ==
  ASSUME IInv, IInv', Limited, Limited', Spent, Shaped
  PROVE  Spent'
  <1>1. Cardinality(TasksOf(1)') <= seeds'
    <2>1. /\ IsFiniteSet(TasksOf(1)) /\ Cardinality(TasksOf(1)) \in Nat
          /\ Cardinality(TasksOf(1)) <= seeds /\ seeds \in Nat /\ seeds' \in Nat
      BY SpentTyped, ConstantsTyped DEF Spent, Limited
    <2>2. CASE Quiet \/ \E i \in Task : Retried(i)
      <3>1. page' = page /\ (seeds' >= seeds \/ seeds' = seeds)
        BY <2>2 DEF Quiet, Retried
      <3>2. TasksOf(1)' = TasksOf(1) /\ seeds' >= seeds
        BY <2>1, <3>1 DEF TasksOf, Task
      <3> QED BY <2>1, <3>2
    <2>3. ASSUME NEW n, Seeded(n)
          PROVE  Cardinality(TasksOf(1)') <= seeds'
      <3>1. TasksOf(1)' \subseteq TasksOf(1) \cup {n} /\ seeds' = seeds + 1
        BY <2>3 DEF Seeded, Added, TasksOf
      <3>2. Cardinality(TasksOf(1)') <= Cardinality(TasksOf(1)) + 1 /\ Cardinality(TasksOf(1)') \in Nat
        BY <2>1, <3>1, Grows
      <3> QED BY <2>1, <3>1, <3>2
    <2>4. ASSUME NEW i \in Task, NEW n, Chained(n, i) \/ Forked(n, i)
          PROVE  Cardinality(TasksOf(1)') <= seeds'
      <3>1. page[i] + 1 # 1
        BY TasksAre
      <3>2. Added(n, page[i] + 1) /\ seeds' = seeds
        BY <2>4 DEF Chained, Forked
      <3>3. TasksOf(1)' = TasksOf(1)
        BY <3>1, <3>2 DEF Added, TasksOf
      <3> QED BY <2>1, <3>2, <3>3
    <2> QED BY <2>2, <2>3, <2>4 DEF Shaped
  <1>2. ASSUME NEW p \in 1..(LastPage - 1)
        PROVE  Covered(p)'
    <2>1. p \in Nat \ {0}
      BY ConstantsTyped
    <2>2. Covered(p)
      BY DEF Spent, Covered
    <2> QED BY <2>1, <2>2, CoveredKept
  <1> QED BY <1>1, <1>2 DEF Spent, Covered

-----------------------------------------------------------------------------
(* The two counts together.                                                *)

CInv == IInv /\ Limited /\ Walked /\ Spent

LEMMA InitCounted == Init => CInv
  <1> SUFFICES ASSUME Init PROVE CInv
    OBVIOUS
  <1>1. IInv /\ Limited /\ Task = {}
    BY InitHolds, InitLimited DEF Init, Task
  <1>2. /\ seeds = 0 /\ faults = 0
        /\ \A p : TasksOf(p) = {} /\ OpenOf(p) = {} /\ Walks(p) = {}
    BY <1>1 DEF Init, TasksOf, OpenOf, Walks
  <1>3. Cardinality({}) = 0
    BY FS_EmptySet
  <1>4. Walked
    BY <1>2, <1>3 DEF Walked
  <1>5. \A p : Cardinality(Attempts(p)) \in Nat
    BY <1>1, SpentTyped
  <1>6. Spent
    <2>1. \A p : /\ Cardinality(TasksOf(p)) = 0 /\ Cardinality(OpenOf(p)) = 0
                 /\ Cardinality(Attempts(p)) \in Nat
      BY <1>2, <1>3, <1>5
    <2>2. Cardinality(TasksOf(1)) <= seeds
      BY <1>2, <2>1
    <2>3. ASSUME NEW p \in 1..(LastPage - 1)
          PROVE  Cardinality(TasksOf(p + 1)) + Cardinality(OpenOf(p)) <= Cardinality(Attempts(p))
      BY <2>1
    <2> QED BY <2>2, <2>3 DEF Spent
  <1> QED BY <1>1, <1>4, <1>6 DEF CInv

LEMMA StepCounted == CInv /\ [Next]_vars => CInv'
  <1> SUFFICES ASSUME CInv, [Next]_vars PROVE CInv'
    OBVIOUS
  <1>1. IInv /\ Limited /\ Walked /\ Spent
    BY DEF CInv
  <1>2. IInv'
    BY <1>1, StepHolds
  <1>3. Shaped /\ Limited'
    BY <1>1, StepShape
  <1>4. Walked'
    BY <1>1, <1>3, WalkedKept
  <1>5. Spent'
    BY <1>1, <1>2, <1>3, SpentKept
  <1> QED BY <1>2, <1>3, <1>4, <1>5 DEF CInv

\* Every page is walked at most once per seed and once per fault, and never
\* more often than the page before it was delivered.
THEOREM CountsHold == Spec => []CInv
  BY InitCounted, StepCounted, PTL DEF Spec

\* A chain of pages is bounded by the deliveries that were made of it.
THEOREM ChainsHold == Spec => []ChainsBounded
  <1>1. CInv => ChainsBounded
    <2> SUFFICES ASSUME CInv PROVE ChainsBounded
      OBVIOUS
    <2>1. IInv /\ Spent
      BY DEF CInv
    <2>2. ASSUME NEW p \in 1..(LastPage - 1)
          PROVE  Cardinality(TasksOf(p + 1)) <= Cardinality(Attempts(p))
      <3>1. Cardinality(TasksOf(p + 1)) + Cardinality(OpenOf(p)) <= Cardinality(Attempts(p))
        BY <2>1 DEF Spent
      <3>2. /\ Cardinality(TasksOf(p + 1)) \in Nat /\ Cardinality(OpenOf(p)) \in Nat
            /\ Cardinality(Attempts(p)) \in Nat
        BY <2>1, SpentTyped
      <3> QED BY <3>1, <3>2
    <2> QED BY <2>1, <2>2 DEF Spent, ChainsBounded
  <1> QED BY <1>1, CountsHold, PTL

-----------------------------------------------------------------------------
(* How many tasks there can be.                                            *)

LEMMA TimesGrows ==
  ASSUME NEW a \in Nat, NEW b \in Nat, a <= b, NEW k \in Nat
  PROVE  a * k <= b * k /\ a * k \in Nat /\ b * k \in Nat
  <1>1. PICK d \in Nat : b = a + d
    <2>1. b - a \in Nat /\ b = a + (b - a)
      OBVIOUS
    <2> QED BY <2>1
  <1>2. b * k = a * k + d * k
    BY <1>1
  <1>3. a * k \in Nat /\ d * k \in Nat
    OBVIOUS
  <1> QED BY <1>2, <1>3

UpTo(p) == {i \in Task : page[i] <= p}

\* p pages are walked by at most p times as many tasks as walk one.
LEMMA UpToCounted ==
  ASSUME CInv, NEW p \in 0..LastPage
  PROVE  Cardinality(UpTo(p)) <= p * (seeds + faults)
  <1> DEFINE Above == {q \in 0..LastPage : ~(Cardinality(UpTo(q)) <= q * (seeds + faults))}
  <1> SUFFICES ASSUME Above # {} PROVE FALSE
    OBVIOUS
  <1>1. IInv /\ Limited /\ Walked
    BY DEF CInv
  <1>2. PICK q \in Above : \A r \in Above : q <= r
    <2>1. Above \subseteq Nat
      BY ConstantsTyped
    <2> HIDE DEF Above
    <2> QED BY <2>1, LeastNatural
  <1>3. /\ q \in 0..LastPage /\ q \in Nat /\ seeds + faults \in Nat /\ LastPage \in Nat
        /\ ~(Cardinality(UpTo(q)) <= q * (seeds + faults))
    BY <1>1, ConstantsTyped DEF Limited
  <1>4. IsFiniteSet(Task) /\ \A i \in Task : page[i] \in Nat /\ page[i] # 0
    BY <1>1, TasksAre
  <1>5. q # 0
    <2>1. UpTo(0) = {} /\ Cardinality({}) = 0
      BY <1>4, FS_EmptySet DEF UpTo
    <2>2. 0 * (seeds + faults) = 0
      BY <1>3
    <2> SUFFICES ASSUME q = 0 PROVE FALSE
      OBVIOUS
    <2>3. Cardinality(UpTo(0)) <= 0 * (seeds + faults)
      BY <2>1, <2>2
    <2> HIDE DEF Above
    <2> QED BY <1>3, <2>3
  <1> DEFINE r == q - 1
  <1>6. r \in 0..LastPage /\ r \in Nat /\ ~(q <= r) /\ q = r + 1 /\ q \in 1..LastPage
    BY <1>3, <1>5
  <1>7. r \notin Above
    <2> HIDE DEF r, Above
    <2> QED BY <1>2, <1>6
  <1>8. Cardinality(UpTo(r)) <= r * (seeds + faults)
    BY <1>6, <1>7
  <1> HIDE DEF r, Above
  <1>9. /\ UpTo(q) \subseteq UpTo(r) \cup Walks(q)
        /\ UpTo(q) \subseteq Task /\ UpTo(r) \subseteq Task /\ Walks(q) \subseteq Task
    BY <1>4, <1>6 DEF UpTo, Walks
  <1>10. /\ IsFiniteSet(UpTo(q)) /\ IsFiniteSet(UpTo(r)) /\ IsFiniteSet(Walks(q))
         /\ Cardinality(UpTo(q)) \in Nat /\ Cardinality(UpTo(r)) \in Nat
         /\ Cardinality(Walks(q)) \in Nat
    BY <1>4, <1>9, Shrinks
  <1>11. Cardinality(UpTo(q)) <= Cardinality(UpTo(r)) + Cardinality(Walks(q))
    BY <1>9, <1>10, Unites
  <1>12. Cardinality(Walks(q)) <= seeds + faults
    BY <1>1, <1>6 DEF Walked
  <1>13. q * (seeds + faults) = r * (seeds + faults) + (seeds + faults)
    BY <1>3, <1>6
  <1>14. r * (seeds + faults) \in Nat /\ q * (seeds + faults) \in Nat
    BY <1>3, <1>6
  <1> QED BY <1>3, <1>8, <1>10, <1>11, <1>12, <1>13, <1>14

LEMMA TasksCounted ==
  ASSUME CInv
  PROVE  MaxTasks \in Nat /\ Len(page) \in Nat /\ Len(page) <= MaxTasks
  <1>1. /\ LastPage \in Nat /\ LastPage \in 0..LastPage
        /\ seeds + faults \in Nat /\ MaxSeeds + MaxFaults \in Nat
        /\ seeds + faults <= MaxSeeds + MaxFaults
    BY ConstantsTyped DEF CInv, Limited
  <1>2. UpTo(LastPage) = Task
    <2>1. \A i \in Task : page[i] <= LastPage
      BY TasksAre, ConstantsTyped DEF CInv
    <2> QED BY <2>1 DEF UpTo
  <1>3. Cardinality(Task) <= LastPage * (seeds + faults)
    BY <1>1, <1>2, UpToCounted
  <1>4. Len(page) \in Nat /\ Cardinality(Task) = Len(page)
    <2>1. Len(page) \in Nat /\ Task = 1..Len(page)
      BY DEF CInv, IInv, Typed, Task
    <2>2. Cardinality(1..Len(page)) = Len(page)
      BY <2>1, Interval
    <2> QED BY <2>1, <2>2
  <1>5. /\ (seeds + faults) * LastPage <= (MaxSeeds + MaxFaults) * LastPage
        /\ (seeds + faults) * LastPage \in Nat /\ (MaxSeeds + MaxFaults) * LastPage \in Nat
    BY <1>1, TimesGrows
  <1>6. LastPage * (seeds + faults) = (seeds + faults) * LastPage
    BY <1>1
  <1> QED BY <1>3, <1>4, <1>5, <1>6 DEF MaxTasks

LEMMA CountedTyped ==
  ASSUME CInv
  PROVE  TypeOK
  <1>1. Typed /\ Limited /\ IInv
    BY DEF CInv, IInv
  <1>2. Len(page) <= MaxTasks
    BY TasksCounted
  <1>3. \A i \in Task : failures[i] \in 0..Budget /\ breaks[i] \in 0..MaxFaults
    <2> TAKE i \in Task
    <2>1. failures[i] \in Nat /\ breaks[i] \in Nat
      BY <1>1, TasksAre
    <2>2. failures[i] <= Budget /\ breaks[i] <= faults /\ faults \in 0..MaxFaults
      BY <1>1 DEF Limited
    <2> QED BY <2>1, <2>2, ConstantsTyped
  <1>4. failures \in [Task -> 0..Budget] /\ breaks \in [Task -> 0..MaxFaults]
    BY <1>1, <1>3 DEF Typed
  <1> QED BY <1>1, <1>2, <1>4 DEF TypeOK, Typed, Limited

\* The state is well formed, and a crawl never has more page tasks than the
\* seeds and the faults account for, whatever the pages show.
THEOREM TypeCorrect == Spec => []TypeOK
  BY CountedTyped, CountsHold, PTL

-----------------------------------------------------------------------------
(* The crawl does not run in circles.                                      *)

Unpublished == <<MaxTasks - Len(page)>>
Ranks       == [i \in 1..MaxTasks |-> IF i \in Task THEN TaskRank(i) ELSE 0]
FanOut      == [j \in (1..MaxTasks) \X Url |->
                   IF j[1] \in Task /\ j[2] \in todo[j[1]] THEN 1 ELSE 0]

LEMMA WorkLeftIs ==
  /\ WorkLeft = <<Unpublished, Ranks, FanOut>>
  /\ WorkLeft' = <<Unpublished', Ranks', FanOut'>>
  BY DEF WorkLeft, Unpublished, Ranks, FanOut

LEMMA WorkTyped ==
  ASSUME TypeOK, TypeOK', MaxTasks \in Nat
  PROVE  /\ Len(page) \in Nat /\ Len(page') \in Nat
         /\ Task \subseteq 1..MaxTasks
         /\ Unpublished \in [1..1 -> Nat] /\ Unpublished' \in [1..1 -> Nat]
         /\ Ranks \in [1..MaxTasks -> Nat] /\ Ranks' \in [1..MaxTasks -> Nat]
         /\ FanOut \in [(1..MaxTasks) \X Url -> Nat]
         /\ FanOut' \in [(1..MaxTasks) \X Url -> Nat]
  <1>1. /\ Len(page) \in Nat /\ Len(page') \in Nat
        /\ Len(page) <= MaxTasks /\ Len(page') <= MaxTasks
        /\ Task = 1..Len(page)
    BY DEF TypeOK, Task
  <1>2. Task \subseteq 1..MaxTasks
    BY <1>1
  <1>3. MaxTasks - Len(page) \in Nat /\ MaxTasks - Len(page') \in Nat
    BY <1>1
  <1>4. Unpublished \in [1..1 -> Nat] /\ Unpublished' \in [1..1 -> Nat]
    BY <1>3 DEF Unpublished, MaxTasks
  <1>5. /\ \A i \in Task : TaskRank(i) \in Nat
        /\ \A i \in Task' : TaskRank(i)' \in Nat
    BY DEF TaskRank
  <1>6. Ranks \in [1..MaxTasks -> Nat] /\ Ranks' \in [1..MaxTasks -> Nat]
    BY <1>5 DEF Ranks, MaxTasks
  <1>7. /\ FanOut \in [(1..MaxTasks) \X Url -> Nat]
        /\ FanOut' \in [(1..MaxTasks) \X Url -> Nat]
    BY DEF FanOut, MaxTasks
  <1> QED BY <1>1, <1>2, <1>4, <1>6, <1>7

\* The indices of the three vectors: finitely many if the listings are.
Indices == <<1..1, 1..MaxTasks, (1..MaxTasks) \X Url>>

LEMMA IndicesFinite ==
  ASSUME IsFiniteSet(Url), MaxTasks \in Nat
  PROVE  \A i \in 1..3 : IsFiniteSet(Indices[i])
  <1>1. IsFiniteSet(1..1) /\ IsFiniteSet(1..MaxTasks)
    BY Interval
  <1>2. IsFiniteSet((1..MaxTasks) \X Url)
    BY <1>1, FS_Product
  <1>3. Indices[1] = 1..1 /\ Indices[2] = 1..MaxTasks /\ Indices[3] = (1..MaxTasks) \X Url
    BY DEF Indices
  <1>4. \A i \in 1..3 : i = 1 \/ i = 2 \/ i = 3
    OBVIOUS
  <1> QED BY <1>1, <1>2, <1>3, <1>4, Zenon

\* A task is nearer to being settled and the others are where they were.
LEMMA RankLowers ==
  ASSUME TypeOK, TypeOK', MaxTasks \in Nat, NEW i \in Task, page' = page,
         \A j \in Task : j # i => where'[j] = where[j] /\ step'[j] = step[j],
         TaskRank(i)' < TaskRank(i)
  PROVE  Lower(WorkLeft', WorkLeft)
  <1>1. Unpublished' = Unpublished /\ Task' = Task
    BY DEF Unpublished, Task, MaxTasks
  <1>2. \A j \in Task : j # i => TaskRank(j)' = TaskRank(j)
    BY DEF TaskRank
  <1>3. /\ i \in 1..MaxTasks /\ Ranks \in [1..MaxTasks -> Nat] /\ Ranks' \in [1..MaxTasks -> Nat]
    BY WorkTyped
  <1>4. Ranks'[i] < Ranks[i] /\ \A j \in 1..MaxTasks : j # i => Ranks'[j] = Ranks[j]
    BY <1>1, <1>2, <1>3 DEF Ranks, MaxTasks
  <1>5. Falls(Ranks', Ranks)
    BY <1>3, <1>4, FallsAt
  <1> QED BY <1>1, <1>5, LowerOfThree, WorkLeftIs

LEMMA EnqueueLowers ==
  ASSUME TypeOK, TypeOK', MaxTasks \in Nat, NEW p, NEW wh, NEW fl, NEW st,
         Enqueue(p, wh, fl, st)
  PROVE  Lower(WorkLeft', WorkLeft)
  <1>1. Len(page') = Len(page) + 1
    BY DEF Enqueue, TypeOK
  <1>2. /\ Len(page) \in Nat /\ Len(page') \in Nat
        /\ Unpublished \in [1..1 -> Nat] /\ Unpublished' \in [1..1 -> Nat]
    BY WorkTyped
  <1>3. Unpublished'[1] = MaxTasks - Len(page') /\ Unpublished[1] = MaxTasks - Len(page)
    BY DEF Unpublished, MaxTasks
  <1>4. Unpublished'[1] < Unpublished[1]
    BY <1>1, <1>2, <1>3
  <1>5. 1 \in 1..1 /\ \A y \in 1..1 : y # 1 => Unpublished'[y] = Unpublished[y]
    OBVIOUS
  <1>6. Falls(Unpublished', Unpublished)
    BY <1>2, <1>4, <1>5, FallsAt
  <1> QED BY <1>6, LowerOfThree, WorkLeftIs

\* The last publish of the fan-out takes the handler on, any other leaves it one
\* listing less.
LEMMA PublishFetchLowers ==
  ASSUME TypeOK, TypeOK', MaxTasks \in Nat, IInv, NEW i \in Task, PublishFetch(i)
  PROVE  Lower(WorkLeft', WorkLeft)
  <1>1. PICK u \in todo[i] :
            /\ todo' = [todo EXCEPT ![i] = @ \ {u}]
            /\ step' = [step EXCEPT ![i] =
                           IF todo[i] = {u} THEN AfterFanOut(i, urls[i]) ELSE @]
    BY Zenon DEF PublishFetch
  <1>2. /\ step[i] = "fanout" /\ where[i] = "busy" /\ UNCHANGED <<page, where>> /\ Task' = Task
        /\ step \in [Task -> Step] /\ todo \in [Task -> SUBSET Url] /\ i \in 1..MaxTasks
    BY WorkTyped DEF PublishFetch, queueVars, Task, IInv, Typed, Placed
  <1>3. AfterFanOut(i, urls[i]) \in {"next", "ack"}
    BY DEF AfterFanOut
  <1>4. CASE todo[i] = {u}
    <2>1. step'[i] \in {"next", "ack"} /\ \A j \in Task : j # i => step'[j] = step[j]
      BY <1>1, <1>2, <1>3, <1>4
    <2>2. TaskRank(i)' < TaskRank(i)
      BY <1>2, <2>1 DEF TaskRank
    <2> QED BY <1>2, <2>1, <2>2, RankLowers
  <1>5. CASE todo[i] # {u}
    <2>1. step' = step
      BY <1>1, <1>2, <1>5
    <2>2. Unpublished' = Unpublished /\ Ranks' = Ranks
      BY <1>2, <2>1 DEF Unpublished, Ranks, TaskRank, MaxTasks
    <2>3. u \in Url /\ todo'[i] = todo[i] \ {u} /\ \A j \in Task : j # i => todo'[j] = todo[j]
      BY <1>1, <1>2
    <2>4. <<i, u>> \in (1..MaxTasks) \X Url /\ FanOut'[<<i, u>>] = 0 /\ FanOut[<<i, u>>] = 1
      BY <1>2, <2>3 DEF FanOut, MaxTasks
    <2>5. ASSUME NEW j \in (1..MaxTasks) \X Url
          PROVE  FanOut'[j] <= FanOut[j]
      <3>1. /\ FanOut'[j] = IF j[1] \in Task /\ j[2] \in todo'[j[1]] THEN 1 ELSE 0
            /\ FanOut[j] = IF j[1] \in Task /\ j[2] \in todo[j[1]] THEN 1 ELSE 0
        BY <1>2 DEF FanOut, MaxTasks
      <3>2. j[1] \in Task /\ j[2] \in todo'[j[1]] => j[2] \in todo[j[1]]
        BY <2>3
      <3> QED BY <3>1, <3>2
    <2>6. FanOut \in [(1..MaxTasks) \X Url -> Nat] /\ FanOut' \in [(1..MaxTasks) \X Url -> Nat]
      BY WorkTyped
    <2>7. FanOut'[<<i, u>>] < FanOut[<<i, u>>]
      BY <2>4
    <2>8. Falls(FanOut', FanOut)
      BY <2>4, <2>5, <2>6, <2>7, FallsIf
    <2> QED BY <2>2, <2>8, LowerOfThree, WorkLeftIs
  <1> QED BY <1>4, <1>5

LEMMA TaskLowers ==
  ASSUME TypeOK, TypeOK', MaxTasks \in Nat, IInv, NEW i \in Task,
         Take(i) \/ FetchListingURLs(i) \/ Ack(i) \/ Expire(i)
  PROVE  Lower(WorkLeft', WorkLeft)
  <1>1. /\ page' = page /\ where \in [Task -> Place] /\ step \in [Task -> Step]
        /\ step[i] # "idle" <=> where[i] = "busy"
    BY DEF Take, FetchListingURLs, Ack, Expire, IInv, Typed, Placed
  <1>2. \A j \in Task : j # i => where'[j] = where[j] /\ step'[j] = step[j]
    BY <1>1, Zenon DEF Take, FetchListingURLs, Ack, Expire, queueVars
  <1>3. TaskRank(i)' < TaskRank(i)
    <2>1. CASE Take(i)
      <3>1. where[i] = "queued" /\ where'[i] \in {"busy", "dead"} /\ TaskRank(i) = 5
        BY <1>1, <2>1 DEF Take, TaskRank
      <3>2. TaskRank(i)' < 5
        BY <3>1 DEF TaskRank
      <3> QED BY <3>1, <3>2
    <2>2. CASE FetchListingURLs(i)
      <3>1. step[i] = "fetch" /\ where' = where /\ where[i] = "busy"
        BY <1>1, <2>2 DEF FetchListingURLs, queueVars
      <3>2. step'[i] \in {"fanout", "ack"}
        <4>1. AfterFanOut(i, {}) = "ack"
          BY DEF AfterFanOut, HasNext
        <4>2. PICK found \in SUBSET Url :
                 step' = [step EXCEPT ![i] =
                             IF found = {} THEN AfterFanOut(i, found) ELSE "fanout"]
          BY <2>2, Zenon DEF FetchListingURLs
        <4> QED BY <1>1, <4>1, <4>2
      <3> QED BY <3>1, <3>2 DEF TaskRank
    <2>3. CASE Ack(i)
      <3>1. step[i] = "ack" /\ where'[i] = "done" /\ step'[i] = "idle" /\ where[i] = "busy"
        BY <1>1, <2>3 DEF Ack
      <3> QED BY <3>1 DEF TaskRank
    <2>4. CASE Expire(i)
      <3>1. where[i] = "retry" /\ where'[i] = "queued"
        BY <1>1, <2>4 DEF Expire
      <3> QED BY <3>1 DEF TaskRank
    <2> QED BY <2>1, <2>2, <2>3, <2>4
  <1> QED BY <1>1, <1>2, <1>3, RankLowers

LEMMA StepLowers ==
  ASSUME TypeOK, TypeOK', CInv, Next, vars' # vars
  PROVE  seeds' > seeds \/ faults' > faults \/ Lower(WorkLeft', WorkLeft)
  <1>0. IInv /\ MaxTasks \in Nat /\ faults \in Nat /\ seeds \in Nat
    BY TasksCounted, ConstantsTyped DEF CInv, Limited
  <1>1. CASE Seed \/ Crawl
    BY <1>0, <1>1 DEF Seed, Crawl, PublishFirst
  <1>2. ASSUME NEW i \in Task,
               \/ HandlerFails(i) \/ PublishFetchUnconfirmed(i) \/ PublishNextUnconfirmed(i)
               \/ Crash(i)
        PROVE  faults' > faults
    BY <1>0, <1>2 DEF HandlerFails, PublishFetchUnconfirmed, PublishNextUnconfirmed, Crash, Fail, Fault
  <1>3. ASSUME NEW i \in Task, PublishNext(i)
        PROVE  Lower(WorkLeft', WorkLeft)
    BY <1>0, <1>3, EnqueueLowers DEF PublishNext
  <1>4. ASSUME NEW i \in Task, PublishFetch(i)
        PROVE  Lower(WorkLeft', WorkLeft)
    BY <1>0, <1>4, PublishFetchLowers
  <1>5. ASSUME NEW i \in Task, Take(i) \/ FetchListingURLs(i) \/ Ack(i) \/ Expire(i)
        PROVE  Lower(WorkLeft', WorkLeft)
    BY <1>0, <1>5, TaskLowers
  <1>6. ~Idle
    BY DEF Idle
  <1> QED BY <1>1, <1>2, <1>3, <1>4, <1>5, <1>6, Zenon DEF Next, TaskStep, Handle

\* What is left to do is a measure to which NoEndlessDescent applies.
THEOREM WorkIsMeasure == Spec => []Fits(WorkLeft, 3, Indices)
  <1>1. TypeOK /\ TypeOK' /\ CInv => Fits(WorkLeft, 3, Indices)
    <2> SUFFICES ASSUME TypeOK, TypeOK', CInv PROVE Fits(WorkLeft, 3, Indices)
      OBVIOUS
    <2>1. MaxTasks \in Nat
      BY TasksCounted
    <2>2. /\ Unpublished \in [1..1 -> Nat] /\ Ranks \in [1..MaxTasks -> Nat]
          /\ FanOut \in [(1..MaxTasks) \X Url -> Nat]
      BY <2>1, WorkTyped
    <2>3. WorkLeft = <<Unpublished, Ranks, FanOut>>
      BY WorkLeftIs
    <2> HIDE DEF Unpublished, Ranks, FanOut
    <2> QED BY <2>2, <2>3 DEF Fits, Indices
  <1> QED BY <1>1, TypeCorrect, CountsHold, PTL

\* A step of a crawl that is neither a seed nor a fault lowers a measure that
\* cannot fall for ever (NoEndlessDescent), whatever the pages show.
THEOREM CrawlRunsOut == Spec => WorkRunsOut
  <1>1. TypeOK /\ TypeOK' /\ CInv /\ [Next]_vars =>
           [\/ seeds' > seeds
            \/ faults' > faults
            \/ Lower(WorkLeft', WorkLeft)]_vars
    BY StepLowers
  <1> QED BY <1>1, TypeCorrect, CountsHold, PTL DEF Spec, WorkRunsOut
=============================================================================
