----------------------------- MODULE CrawlProofs ----------------------------
(***************************************************************************)
(* Theorems about Crawl, for any sellers, listings, handlers, budget and    *)
(* bounds.                                                                  *)
(***************************************************************************)
EXTENDS Crawl, ProgressProofs, FiniteSetTheorems, TLAPS

LEMMA ConstantsTyped ==
    /\ (CHOOSE s \in Seller : TRUE) \in Seller
    /\ Slots \in Nat \ {0} /\ Budget \in Nat \ {0}
    /\ MaxWindows \in Nat /\ MaxFaults \in Nat /\ MaxSeeds \in Nat
    /\ MaxVisits \in Nat
  BY EnricherAssumption, CrawlAssumption DEF MaxVisits

\* What a handler owes the broker is what it has still to publish, and it is
\* at its fan-out.
Owed == \A k \in Slot, u \in Url : <<k, u>> \in owed => step[k] = "fanout" /\ u \in todo[k]

IInv == TypeOK /\ Owed

-----------------------------------------------------------------------------
(* Lemmas about the parts of a step.                                       *)

\* A task put into sellers.enrich leaves the queue well formed, and so does
\* one taken out of it.
LEMMA EnrichqPut ==
  ASSUME enrichq \in [Seller -> [0..Budget -> Nat]], NEW s \in Seller, NEW n \in 0..Budget
  PROVE  /\ [enrichq EXCEPT ![s][n] = @ + 1] \in [Seller -> [0..Budget -> Nat]]
         /\ enrichq[s][n] > 0
               => [enrichq EXCEPT ![s][n] = @ - 1] \in [Seller -> [0..Budget -> Nat]]
  <1>1. enrichq[s] \in [0..Budget -> Nat]
    OBVIOUS
  <1>2. [enrichq[s] EXCEPT ![n] = @ + 1] \in [0..Budget -> Nat]
    BY <1>1
  <1>3. ASSUME enrichq[s][n] > 0
        PROVE  [enrichq[s] EXCEPT ![n] = @ - 1] \in [0..Budget -> Nat]
    BY <1>1, <1>3
  <1> QED BY <1>2, <1>3

LEMMA FaultTyped ==
  ASSUME faults \in 0..MaxFaults, Fault
  PROVE  faults' \in 0..MaxFaults
  BY ConstantsTyped DEF Fault

LEMMA VisitTyped ==
  ASSUME visits \in [Seller -> 0..MaxVisits], NEW s \in Seller, Visit(s)
  PROVE  visits' \in [Seller -> 0..MaxVisits]
  <1>1. (IF visits[s] < MaxVisits THEN visits[s] + 1 ELSE visits[s]) \in 0..MaxVisits
    BY ConstantsTyped
  <1> QED BY <1>1, Zenon DEF Visit

LEMMA FreeHolds ==
  ASSUME IInv, NEW k \in Slot, Free(k)
  PROVE  /\ step' \in [Slot -> Step]
         /\ seller' \in [Slot -> Seller]
         /\ failed' \in [Slot -> 0..(Budget - 1)]
         /\ todo' \in [Slot -> SUBSET Url]
         /\ owed' \subseteq Slot \X Url
         /\ Owed'
  <1> USE ConstantsTyped DEF IInv, TypeOK, EnricherTypeOK, Free
  <1>1. step' \in [Slot -> Step]
    BY DEF Step
  <1>2. seller' \in [Slot -> Seller] /\ failed' \in [Slot -> 0..(Budget - 1)]
    OBVIOUS
  <1>3. todo' \in [Slot -> SUBSET Url]
    OBVIOUS
  <1>4. owed' \subseteq Slot \X Url
    OBVIOUS
  <1>5. Owed'
    BY DEF Owed
  <1> QED BY <1>1, <1>2, <1>3, <1>4, <1>5

LEMMA RequeueHolds ==
  ASSUME IInv, NEW k \in Slot, NEW n \in 0..Budget, Requeue(k, n),
         row' = row, fresh' \subseteq Seller, fetchq' \in [Url -> Nat],
         visits' = visits, windows' = windows, owner' = owner, seeds' = seeds
  PROVE  IInv'
  <1>1. enrichq' \in [Seller -> [0..Budget -> Nat]]
    BY EnrichqPut DEF Requeue, IInv, TypeOK, EnricherTypeOK
  <1>2. faults' \in 0..MaxFaults
    BY FaultTyped DEF Requeue, IInv, TypeOK, EnricherTypeOK
  <1>3. Free(k)
    BY DEF Requeue
  <1> QED BY <1>1, <1>2, <1>3, FreeHolds DEF IInv, TypeOK, EnricherTypeOK

-----------------------------------------------------------------------------
(* One lemma per kind of step.                                             *)

LEMMA InitHolds == Init => IInv
  <1> SUFFICES ASSUME Init PROVE IInv
    OBVIOUS
  <1> USE ConstantsTyped DEF Init, EnricherInit
  <1>1. TypeOK
    BY DEF TypeOK, EnricherTypeOK, Step
  <1>2. Owed
    BY DEF Owed
  <1> QED BY <1>1, <1>2 DEF IInv

LEMMA TakeHolds ==
  ASSUME IInv, NEW k \in Slot, NEW s \in Seller, NEW n \in 0..Budget, Take(k, s, n),
         UNCHANGED <<owner, seeds>>
  PROVE  IInv'
  <1> USE ConstantsTyped DEF IInv, TypeOK, EnricherTypeOK, Take, ghostVars
  <1>1. enrichq' \in [Seller -> [0..Budget -> Nat]]
    BY EnrichqPut
  <1>2. /\ step' \in [Slot -> Step]
        /\ seller' \in [Slot -> Seller]
        /\ failed' \in [Slot -> 0..(Budget - 1)]
    <2>1. CASE n < Budget
      <3>1. n \in 0..(Budget - 1) /\ n # Budget
        BY <2>1
      <3>2. /\ step' = [step EXCEPT ![k] = "lookup"]
            /\ seller' = [seller EXCEPT ![k] = s]
            /\ failed' = [failed EXCEPT ![k] = n]
        BY <3>1, Zenon
      <3>3. /\ step \in [Slot -> Step] /\ "lookup" \in Step
            /\ seller \in [Slot -> Seller]
            /\ failed \in [Slot -> 0..(Budget - 1)]
        BY Zenon DEF Step
      <3> QED BY <3>1, <3>2, <3>3, Zenon
    <2>2. CASE ~(n < Budget)
      <3>1. UNCHANGED <<step, seller, failed>>
        BY <2>2
      <3> QED BY <3>1
    <2> QED BY <2>1, <2>2
  <1>3. Owed'
    BY DEF Owed
  <1>4. TypeOK'
    BY <1>1, <1>2
  <1> QED BY <1>3, <1>4

LEMMA LookupHolds ==
  ASSUME IInv, NEW k \in Slot, Lookup(k) \/ Mark(k), UNCHANGED <<owner, seeds>>
  PROVE  IInv'
  <1> USE DEF IInv, TypeOK, EnricherTypeOK
  <1>1. /\ step[k] \in {"lookup", "mark"}
        /\ step' \in {[step EXCEPT ![k] = to] : to \in {"ack", "mark", "profile"}}
    BY Zenon DEF Lookup, Mark, Goto
  <1>2. fresh' \subseteq Seller
    BY DEF Lookup, Mark
  <1>3. UNCHANGED <<row, queues, seller, failed, todo, ghostVars>>
    BY DEF Lookup, Mark, queues
  <1>4. step' \in [Slot -> Step]
    <2>1. step \in [Slot -> Step] /\ {"ack", "mark", "profile"} \subseteq Step
      BY DEF Step
    <2> QED BY <1>1, <2>1, Zenon
  <1>5. TypeOK'
    BY <1>2, <1>3, <1>4 DEF queues, ghostVars
  <1>6. Owed'
    BY <1>1, <1>3 DEF Owed, ghostVars
  <1> QED BY <1>5, <1>6

LEMMA FetchProfileHolds ==
  ASSUME IInv, NEW k \in Slot, FetchProfile(k), UNCHANGED <<owner, seeds>>
  PROVE  IInv'
  <1> USE DEF IInv, TypeOK, EnricherTypeOK
  <1>1. PICK found \in SUBSET Url :
            /\ Goto(k, IF found = {} THEN "mark" ELSE "fanout")
            /\ todo' = [todo EXCEPT ![k] = found]
            /\ owed' = owed \cup ({k} \X found)
    BY Zenon DEF FetchProfile
  <1>2. /\ step[k] = "profile"
        /\ UNCHANGED <<row, fresh, queues, seller, failed, windows, faults>>
    BY DEF FetchProfile
  <1>3. visits' \in [Seller -> 0..MaxVisits]
    <2>1. seller[k] \in Seller /\ visits \in [Seller -> 0..MaxVisits]
      OBVIOUS
    <2>2. Visit(seller[k])
      BY DEF FetchProfile
    <2> QED BY <2>1, <2>2, VisitTyped
  <1>4. /\ step' \in [Slot -> Step]
        /\ todo' \in [Slot -> SUBSET Url]
        /\ owed' \subseteq Slot \X Url
    BY <1>1 DEF Goto, Step
  <1>5. TypeOK'
    BY <1>2, <1>3, <1>4 DEF queues
  <1>6. Owed'
    <2> SUFFICES ASSUME NEW j \in Slot, NEW u \in Url, <<j, u>> \in owed'
                 PROVE  step'[j] = "fanout" /\ u \in todo'[j]
      BY DEF Owed
    <2>1. CASE j = k
      <3>1. <<k, u>> \notin owed
        BY <1>2 DEF Owed
      <3>2. u \in found
        BY <1>1, <2>1, <3>1
      <3> QED BY <1>1, <2>1, <3>2 DEF Goto
    <2>2. CASE j # k
      <3>1. <<j, u>> \in owed
        BY <1>1, <2>2
      <3> QED BY <1>1, <2>2, <3>1 DEF Goto, Owed
    <2> QED BY <2>1, <2>2
  <1> QED BY <1>5, <1>6

LEMMA PublishFetchHolds ==
  ASSUME IInv, NEW k \in Slot, PublishFetch(k), UNCHANGED <<owner, seeds>>
  PROVE  IInv'
  <1> USE DEF IInv, TypeOK, EnricherTypeOK
  <1>1. PICK u \in todo[k] :
            /\ Enqueue(u)
            /\ todo' = [todo EXCEPT ![k] = @ \ {u}]
            /\ owed' = owed \ {<<k, u>>}
            /\ Goto(k, IF todo[k] = {u} THEN "mark" ELSE "fanout")
    BY Zenon DEF PublishFetch
  <1>2. /\ step[k] = "fanout"
        /\ UNCHANGED <<row, fresh, enrichq, seller, failed, visits, windows, faults>>
    BY DEF PublishFetch
  <1>3. fetchq' \in [Url -> Nat]
    BY <1>1 DEF Enqueue
  <1>4. /\ step' \in [Slot -> Step]
        /\ todo' \in [Slot -> SUBSET Url]
        /\ owed' \subseteq Slot \X Url
    BY <1>1 DEF Goto, Step
  <1>5. TypeOK'
    BY <1>2, <1>3, <1>4
  <1>6. Owed'
    <2> SUFFICES ASSUME NEW j \in Slot, NEW v \in Url, <<j, v>> \in owed'
                 PROVE  step'[j] = "fanout" /\ v \in todo'[j]
      BY DEF Owed
    <2>1. <<j, v>> \in owed /\ (j # k \/ v # u)
      BY <1>1
    <2>2. step[j] = "fanout" /\ v \in todo[j]
      BY <2>1 DEF Owed
    <2> QED BY <1>1, <2>1, <2>2 DEF Goto
  <1> QED BY <1>5, <1>6

LEMMA HandlerFailsHolds ==
  ASSUME IInv, NEW k \in Slot, HandlerFails(k) \/ Crash(k), UNCHANGED <<owner, seeds>>
  PROVE  IInv'
  <1> USE DEF IInv, TypeOK, EnricherTypeOK
  <1>1. failed[k] \in 0..Budget /\ failed[k] + 1 \in 0..Budget
    <2>1. failed[k] \in 0..(Budget - 1)
      BY Zenon
    <2> HIDE DEF IInv
    <2> QED BY <2>1, ConstantsTyped
  <1>2. fresh' \subseteq Seller /\ fetchq' \in [Url -> Nat]
    <2>1. \A u \in todo[k] : Enqueue(u) => fetchq' \in [Url -> Nat]
      BY DEF Enqueue
    <2> QED BY <2>1 DEF HandlerFails, Crash
  <1>3. UNCHANGED <<row, visits, windows>>
    BY DEF HandlerFails, Crash
  <1> QED BY <1>1, <1>2, <1>3, RequeueHolds DEF HandlerFails, Crash

LEMMA AckHolds ==
  ASSUME IInv, NEW k \in Slot, Ack(k), UNCHANGED <<owner, seeds>>
  PROVE  IInv'
  BY FreeHolds DEF Ack, IInv, TypeOK, EnricherTypeOK, queues

LEMMA WindowPassesHolds ==
  ASSUME IInv, NEW s \in Seller, WindowPasses(s), UNCHANGED <<owner, seeds>>
  PROVE  IInv'
  <1> USE DEF IInv, TypeOK, EnricherTypeOK, WindowPasses, queues, jobVars
  <1>1. TypeOK'
    <2>1. windows' \in 0..MaxWindows
      BY ConstantsTyped
    <2>2. visits' \in [Seller -> 0..MaxVisits]
      <3>1. 0 \in 0..MaxVisits
        BY ConstantsTyped
      <3> QED BY <3>1, Zenon
    <2>3. fresh' \subseteq Seller
      OBVIOUS
    <2> QED BY <2>1, <2>2, <2>3
  <1>2. Owed'
    BY DEF Owed
  <1> QED BY <1>1, <1>2

\* A task from outside, or the next turn of the cycle.
LEMMA SeedTyped ==
  ASSUME IInv, Seed
  PROVE  seeds' \in 0..MaxSeeds
  BY ConstantsTyped DEF IInv, TypeOK, Seed

LEMMA FetchqTyped ==
  ASSUME fetchq \in [Url -> Nat], NEW u \in Url
  PROVE  /\ Enqueue(u) => fetchq' \in [Url -> Nat]
         /\ fetchq[u] > 0 => [fetchq EXCEPT ![u] = @ - 1] \in [Url -> Nat]
  BY DEF Enqueue

LEMMA EnrichNext ==
  ASSUME IInv, NEW s \in Seller
  PROVE  [enrichq EXCEPT ![s][0] = @ + 1] \in [Seller -> [0..Budget -> Nat]]
  <1>1. 0 \in 0..Budget
    BY ConstantsTyped
  <1>2. enrichq \in [Seller -> [0..Budget -> Nat]]
    BY DEF IInv, TypeOK, EnricherTypeOK
  <1> QED BY <1>1, <1>2, EnrichqPut

LEMMA AroundHolds ==
  ASSUME IInv,
         \/ \E u \in Url : Discover(u) \/ FetchAndParse(u) \/ ParseAgain(u) \/ NotFetched(u)
         \/ \E s \in Seller : PublishByHand(s)
  PROVE  IInv'
  <1> USE DEF IInv, TypeOK, EnricherTypeOK
  <1>1. UNCHANGED <<fresh, step, seller, failed, todo, owed, visits, windows, owner>>
    BY DEF Discover, FetchAndParse, ParseAgain, NotFetched, PublishByHand, jobVars, ghostVars
  <1>2. Owed'
    BY <1>1 DEF Owed
  <1>3. ASSUME seeds' \in 0..MaxSeeds, row' \in [Seller -> {"none", "bare", "profile"}],
               enrichq' \in [Seller -> [0..Budget -> Nat]], fetchq' \in [Url -> Nat],
               faults' \in 0..MaxFaults
        PROVE  IInv'
    BY <1>1, <1>2, <1>3
  <1>4. ASSUME NEW u \in Url, Discover(u)
        PROVE  IInv'
    <2>1. seeds' \in 0..MaxSeeds /\ fetchq' \in [Url -> Nat]
      BY <1>4, SeedTyped, FetchqTyped DEF Discover
    <2> QED BY <1>3, <1>4, <2>1 DEF Discover, ghostVars
  <1>5. ASSUME NEW u \in Url, FetchAndParse(u) \/ ParseAgain(u)
        PROVE  IInv'
    <2>1. owner[u] \in Seller
      OBVIOUS
    <2>2. enrichq' \in [Seller -> [0..Budget -> Nat]]
      <3>1. enrichq' = [enrichq EXCEPT ![owner[u]][0] = @ + 1]
        BY <1>5, Zenon DEF FetchAndParse, ParseAgain
      <3> QED BY <2>1, <3>1, EnrichNext
    <2>3. row' \in [Seller -> {"none", "bare", "profile"}]
      BY <1>5, <2>1 DEF FetchAndParse, ParseAgain
    <2>4. fetchq' \in [Url -> Nat]
      <3>1. \/ fetchq' = fetchq
            \/ fetchq[u] > 0 /\ fetchq' = [fetchq EXCEPT ![u] = @ - 1]
        BY <1>5 DEF FetchAndParse, ParseAgain
      <3>2. fetchq \in [Url -> Nat]
        OBVIOUS
      <3> HIDE DEF IInv
      <3> QED BY <3>1, <3>2, FetchqTyped
    <2>5. faults' \in 0..MaxFaults /\ seeds' \in 0..MaxSeeds
      BY <1>5, FaultTyped DEF FetchAndParse, ParseAgain, ghostVars
    <2> QED BY <1>3, <2>2, <2>3, <2>4, <2>5
  <1>6. ASSUME NEW u \in Url, NotFetched(u)
        PROVE  IInv'
    <2>1. fetchq' \in [Url -> Nat]
      BY <1>6, FetchqTyped DEF NotFetched
    <2> QED BY <1>3, <1>6, <2>1 DEF NotFetched, ghostVars
  <1>7. ASSUME NEW s \in Seller, PublishByHand(s)
        PROVE  IInv'
    <2>1. enrichq' \in [Seller -> [0..Budget -> Nat]] /\ seeds' \in 0..MaxSeeds
      BY <1>7, EnrichNext, SeedTyped DEF PublishByHand
    <2> QED BY <1>3, <1>7, <2>1 DEF PublishByHand, ghostVars
  <1> QED BY <1>4, <1>5, <1>6, <1>7

LEMMA StepHolds ==
  ASSUME IInv, [Next]_vars
  PROVE  IInv'
  <1>1. CASE UNCHANGED vars
    BY <1>1 DEF IInv, TypeOK, EnricherTypeOK, Owed, vars, enricherVars, queues, jobVars, ghostVars
  <1>2. ASSUME NEW k \in Slot, TakeAny(k), UNCHANGED <<owner, seeds>>
        PROVE  IInv'
    BY <1>2, TakeHolds DEF TakeAny
  <1>3. ASSUME NEW k \in Slot, Handle(k), UNCHANGED <<owner, seeds>>
        PROVE  IInv'
    BY <1>3, LookupHolds, FetchProfileHolds, PublishFetchHolds DEF Handle
  <1>4. ASSUME NEW k \in Slot, HandlerFails(k) \/ Ack(k) \/ Crash(k), UNCHANGED <<owner, seeds>>
        PROVE  IInv'
    BY <1>4, HandlerFailsHolds, AckHolds
  <1>5. ASSUME NEW s \in Seller, WindowPasses(s), UNCHANGED <<owner, seeds>>
        PROVE  IInv'
    BY <1>5, WindowPassesHolds
  <1>6. CASE \/ \E u \in Url : Discover(u) \/ FetchAndParse(u) \/ ParseAgain(u) \/ NotFetched(u)
             \/ \E s \in Seller : PublishByHand(s)
    BY <1>6, AroundHolds
  <1> QED BY <1>1, <1>2, <1>3, <1>4, <1>5, <1>6, Zenon DEF Next, EnricherNext, Idle

\* Type correctness of the crawl.
THEOREM TypeCorrect == Spec => []TypeOK
  <1>1. IInv /\ [Next]_vars => IInv'
    BY StepHolds
  <1>2. IInv => TypeOK
    BY DEF IInv
  <1> QED BY InitHolds, <1>1, <1>2, PTL DEF Spec

\* No seller is marked and no enrich task acked while a listing of the profile
\* is missing from listings.fetch, for any number of handlers and failures.
THEOREM MarkHolds == Spec => []MarkedIsFannedOut
  <1>1. IInv /\ [Next]_vars => IInv'
    BY StepHolds
  <1>2. IInv => MarkedIsFannedOut
    BY DEF IInv, Owed, MarkedIsFannedOut
  <1> QED BY InitHolds, <1>1, <1>2, PTL DEF Spec

-----------------------------------------------------------------------------
(* The visits of a window.  While a seller is not marked, every profile that *)
(* was read has a handler at its fan-out or its mark, or a fault took that   *)
(* handler away; the first mark closes the gate, and then only the handlers  *)
(* that have passed it already may still read.                              *)

\* The handlers that may still read the profile of s, and those that have.
Reading(s) == {k \in Slot : seller[k] = s /\ step[k] = "profile"}
Past(s)    == {k \in Slot : seller[k] = s /\ step[k] \in {"fanout", "mark"}}

Gated(s) ==
    IF s \in fresh
    THEN visits[s] + Cardinality(Reading(s)) <= Slots + faults
    ELSE visits[s] <= Cardinality(Past(s)) + faults

LEMMA SlotSets ==
  ASSUME NEW R \in SUBSET Slot
  PROVE  IsFiniteSet(R) /\ Cardinality(R) \in Nat /\ Cardinality(R) <= Slots
  <1>1. IsFiniteSet(Slot) /\ Cardinality(Slot) = Slots
    BY ConstantsTyped, FS_Interval DEF Slot
  <1> QED BY <1>1, FS_Subset, FS_CardinalityType

LEMMA DisjointSlots ==
  ASSUME NEW R \in SUBSET Slot, NEW P \in SUBSET Slot, R \cap P = {}
  PROVE  Cardinality(R) + Cardinality(P) <= Slots
  <1>1. /\ IsFiniteSet(R) /\ IsFiniteSet(P)
        /\ Cardinality(R) \in Nat /\ Cardinality(P) \in Nat
        /\ Cardinality(R \cup P) <= Slots
    BY SlotSets
  <1>2. Cardinality(R \cup P) = Cardinality(R) + Cardinality(P) - Cardinality(R \cap P)
    BY <1>1, FS_Union
  <1>3. Cardinality(R \cap P) = 0
    BY FS_EmptySet
  <1> QED BY <1>1, <1>2, <1>3

LEMMA SubsetOfSlots ==
  ASSUME NEW R \in SUBSET Slot, NEW P \in SUBSET R
  PROVE  Cardinality(P) <= Cardinality(R)
  BY SlotSets, FS_Subset

LEMMA OneSlot ==
  ASSUME NEW R \in SUBSET Slot, NEW k \in Slot
  PROVE  /\ k \in R => Cardinality(R \ {k}) = Cardinality(R) - 1
         /\ k \notin R => Cardinality(R \cup {k}) = Cardinality(R) + 1
  <1>1. IsFiniteSet(R)
    BY SlotSets
  <1>2. k \in R => Cardinality(R \ {k}) = Cardinality(R) - 1
    BY <1>1, FS_RemoveElement
  <1>3. k \notin R => Cardinality(R \cup {k}) = Cardinality(R) + 1
    BY <1>1, FS_AddElement
  <1> QED BY <1>2, <1>3

\* The numbers in Gated.
LEMMA NumbersTyped ==
  ASSUME TypeOK, NEW s \in Seller
  PROVE  visits[s] \in Nat /\ faults \in Nat /\ Slots \in Nat
  BY ConstantsTyped DEF TypeOK, EnricherTypeOK

\* A step that reads no profile of s and does not mark it.
LEMMA GatedKept ==
  ASSUME TypeOK, NEW s \in Seller, Gated(s),
         faults' \in Nat, faults' >= faults, visits'[s] = visits[s],
         s \in fresh' <=> s \in fresh,
         Reading(s)' \subseteq Reading(s), Past(s) \subseteq Past(s)'
  PROVE  Gated(s)'
  <1>1. /\ Reading(s) \in SUBSET Slot /\ Reading(s)' \in SUBSET Slot
        /\ Past(s) \in SUBSET Slot /\ Past(s)' \in SUBSET Slot
    BY DEF Reading, Past
  <1>2. /\ Cardinality(Reading(s)') <= Cardinality(Reading(s))
        /\ Cardinality(Past(s)) <= Cardinality(Past(s)')
    BY <1>1, SubsetOfSlots
  <1>3. /\ Cardinality(Reading(s)) \in Nat /\ Cardinality(Reading(s)') \in Nat
        /\ Cardinality(Past(s)) \in Nat /\ Cardinality(Past(s)') \in Nat
    BY <1>1, SlotSets
  <1>4. CASE s \in fresh
    BY <1>2, <1>3, <1>4, NumbersTyped DEF Gated
  <1>5. CASE s \notin fresh
    BY <1>2, <1>3, <1>5, NumbersTyped DEF Gated
  <1> QED BY <1>4, <1>5

LEMMA FetchProfileGated ==
  ASSUME TypeOK, NEW k \in Slot, FetchProfile(k), NEW s \in Seller, Gated(s)
  PROVE  Gated(s)'
  <1>1. /\ step[k] = "profile" /\ step' = [step EXCEPT ![k] = step'[k]]
        /\ step'[k] \in {"mark", "fanout"}
        /\ seller' = seller /\ fresh' = fresh /\ faults' = faults /\ Visit(seller[k])
    BY DEF FetchProfile, Goto, TypeOK, EnricherTypeOK
  <1>2. /\ step \in [Slot -> Step] /\ visits \in [Seller -> 0..MaxVisits] /\ MaxVisits \in Nat
        /\ faults \in Nat
    BY ConstantsTyped DEF TypeOK, EnricherTypeOK
  <1>3. CASE s # seller[k]
    <2>1. visits'[s] = visits[s]
      BY <1>1, <1>2, <1>3 DEF Visit
    <2>2. Reading(s)' \subseteq Reading(s) /\ Past(s) \subseteq Past(s)'
      BY <1>1, <1>2, <1>3 DEF Reading, Past
    <2> QED BY <1>1, <1>2, <2>1, <2>2, GatedKept
  <1>4. CASE s = seller[k]
    <2>1. visits'[s] \in Nat /\ visits'[s] <= visits[s] + 1
      BY <1>1, <1>2, <1>4 DEF Visit
    <2>2. /\ k \in Reading(s) /\ Reading(s)' = Reading(s) \ {k}
          /\ k \notin Past(s) /\ Past(s)' = Past(s) \cup {k}
      BY <1>1, <1>2, <1>4 DEF Reading, Past
    <2>3. /\ Reading(s) \in SUBSET Slot /\ Cardinality(Reading(s)) \in Nat
          /\ Past(s) \in SUBSET Slot /\ Cardinality(Past(s)) \in Nat
      <3>1. Reading(s) \in SUBSET Slot /\ Past(s) \in SUBSET Slot
        BY DEF Reading, Past
      <3> QED BY <3>1, SlotSets
    <2>4. /\ Cardinality(Reading(s)') = Cardinality(Reading(s)) - 1
          /\ Cardinality(Past(s)') = Cardinality(Past(s)) + 1
      BY <2>2, <2>3, OneSlot, Zenon
    <2>5. CASE s \in fresh
      BY <1>1, <2>1, <2>3, <2>4, <2>5, NumbersTyped DEF Gated
    <2>6. CASE s \notin fresh
      BY <1>1, <2>1, <2>3, <2>4, <2>6, NumbersTyped DEF Gated
    <2> QED BY <2>5, <2>6
  <1> QED BY <1>3, <1>4

\* A mark, also one whose handler is told that it failed: what was read has a
\* handler, and those and the ones still to read are no more than the slots.
LEMMA MarkGated ==
  ASSUME TypeOK, NEW s \in Seller, Gated(s), s \notin fresh, s \in fresh',
         visits'[s] = visits[s], faults' \in Nat, faults' >= faults,
         Reading(s)' \subseteq Reading(s)
  PROVE  Gated(s)'
  <1>1. /\ Reading(s) \in SUBSET Slot /\ Past(s) \in SUBSET Slot
        /\ Reading(s) \cap Past(s) = {} /\ Reading(s)' \in SUBSET Reading(s)
        /\ Reading(s)' \in SUBSET Slot
    BY DEF Reading, Past
  <1>2. /\ Cardinality(Reading(s)) + Cardinality(Past(s)) <= Slots
        /\ Cardinality(Reading(s)') <= Cardinality(Reading(s))
        /\ Cardinality(Reading(s)) \in Nat /\ Cardinality(Past(s)) \in Nat
        /\ Cardinality(Reading(s)') \in Nat
    BY <1>1, DisjointSlots, SubsetOfSlots, SlotSets
  <1>3. visits[s] <= Cardinality(Past(s)) + faults
    BY DEF Gated
  <1>4. visits'[s] + Cardinality(Reading(s)') <= Slots + faults'
    BY <1>2, <1>3, NumbersTyped
  <1> QED BY <1>4 DEF Gated

\* A task goes back to the queue, and the fault is counted.
LEMMA RequeueGated ==
  ASSUME TypeOK, NEW k \in Slot, Free(k), Fault, visits' = visits,
         fresh' = fresh \/ (step[k] = "mark" /\ fresh' = fresh \cup {seller[k]}),
         NEW s \in Seller, Gated(s)
  PROVE  Gated(s)'
  <1>1. step' = [step EXCEPT ![k] = "idle"] /\ faults' = faults + 1
    BY DEF Free, Fault
  <1>2. \A j \in Slot : j # k => seller'[j] = seller[j]
    BY DEF Free, TypeOK, EnricherTypeOK
  <1>3. step \in [Slot -> Step]
    BY DEF TypeOK, EnricherTypeOK
  <1>4. Reading(s)' \subseteq Reading(s) /\ Past(s) \ {k} \subseteq Past(s)'
    BY <1>1, <1>2, <1>3 DEF Reading, Past
  <1>5. CASE s \in fresh' /\ s \notin fresh
    BY <1>1, <1>4, <1>5, NumbersTyped, MarkGated
  <1>6. CASE s \in fresh
    <2>1. Reading(s)' \in SUBSET Reading(s) /\ Reading(s) \in SUBSET Slot
          /\ Reading(s)' \in SUBSET Slot
      BY <1>4 DEF Reading
    <2>2. /\ Cardinality(Reading(s)') <= Cardinality(Reading(s))
          /\ Cardinality(Reading(s)) \in Nat /\ Cardinality(Reading(s)') \in Nat
      BY <2>1, SubsetOfSlots, SlotSets
    <2>3. s \in fresh' /\ visits'[s] + Cardinality(Reading(s)') <= Slots + faults'
      BY <1>1, <1>6, <2>2, NumbersTyped DEF Gated
    <2> QED BY <2>3 DEF Gated
  <1>7. CASE s \notin fresh'
    <2>1. Past(s) \in SUBSET Slot /\ Past(s)' \in SUBSET Slot
          /\ Past(s) \ {k} \in SUBSET Past(s)'
      BY <1>4 DEF Past
    <2>2. /\ Cardinality(Past(s) \ {k}) >= Cardinality(Past(s)) - 1
          /\ Cardinality(Past(s) \ {k}) <= Cardinality(Past(s)')
          /\ Cardinality(Past(s)) \in Nat /\ Cardinality(Past(s)') \in Nat
          /\ Cardinality(Past(s) \ {k}) \in Nat
      <3>1. /\ Cardinality(Past(s)) \in Nat /\ Cardinality(Past(s)') \in Nat
            /\ Cardinality(Past(s) \ {k}) \in Nat
        BY <2>1, SlotSets
      <3>2. CASE k \in Past(s)
        BY <2>1, <3>1, <3>2, OneSlot, SubsetOfSlots
      <3>3. CASE k \notin Past(s)
        <4>1. Past(s) \ {k} = Past(s)
          BY <3>3
        <4> QED BY <2>1, <3>1, <4>1, SubsetOfSlots
      <3> QED BY <3>2, <3>3
    <2>3. visits'[s] <= Cardinality(Past(s)') + faults'
      BY <1>1, <1>7, <2>2, NumbersTyped DEF Gated
    <2> QED BY <1>7, <2>3 DEF Gated
  <1> QED BY <1>5, <1>6, <1>7

LEMMA WindowPassesGated ==
  ASSUME TypeOK, NEW r \in Seller, WindowPasses(r), NEW s \in Seller, Gated(s)
  PROVE  Gated(s)'
  <1>1. /\ step' = step /\ seller' = seller /\ faults' = faults /\ fresh' = fresh \ {r}
        /\ visits' = [visits EXCEPT ![r] = 0] /\ visits \in [Seller -> 0..MaxVisits]
    BY DEF WindowPasses, jobVars, TypeOK, EnricherTypeOK
  <1>2. Reading(s)' = Reading(s) /\ Past(s)' = Past(s)
    BY <1>1 DEF Reading, Past
  <1>3. CASE s # r
    BY <1>1, <1>2, <1>3, GatedKept, NumbersTyped
  <1>4. CASE s = r
    <2>1. Past(s) \in SUBSET Slot
      BY DEF Past
    <2>2. Cardinality(Past(s)') \in Nat
      BY <1>2, <2>1, SlotSets
    <2>3. s \notin fresh' /\ visits'[s] = 0
      BY <1>1, <1>4
    <2> QED BY <1>1, <2>2, <2>3, NumbersTyped DEF Gated
  <1> QED BY <1>3, <1>4

\* The steps that neither read a profile nor mark a seller.
LEMMA OtherGated ==
  ASSUME TypeOK, NEW s \in Seller, Gated(s),
         UNCHANGED <<visits, fresh>>, faults' \in Nat, faults' >= faults,
         NEW k, \A j \in Slot : j # k => step'[j] = step[j] /\ seller'[j] = seller[j],
         k \in Slot =>
            /\ step'[k] = "profile" => seller[k] \notin fresh /\ seller'[k] = seller[k]
            /\ step[k] \in {"fanout", "mark"} =>
                   step'[k] \in {"fanout", "mark"} /\ seller'[k] = seller[k]
  PROVE  Gated(s)'
  <1>1. Past(s) \subseteq Past(s)'
    BY DEF Past
  <1>2. s \in fresh => Reading(s)' \subseteq Reading(s)
    BY DEF Reading
  <1>3. CASE s \in fresh
    BY <1>1, <1>2, <1>3, GatedKept
  <1>4. CASE s \notin fresh
    <2>1. Past(s) \in SUBSET Slot /\ Past(s)' \in SUBSET Slot /\ Past(s) \in SUBSET Past(s)'
      BY <1>1 DEF Past
    <2>2. /\ Cardinality(Past(s)) <= Cardinality(Past(s)')
          /\ Cardinality(Past(s)) \in Nat /\ Cardinality(Past(s)') \in Nat
      BY <2>1, SubsetOfSlots, SlotSets
    <2> QED BY <1>4, <2>2, NumbersTyped DEF Gated
  <1> QED BY <1>3, <1>4

LEMMA EnricherGated ==
  ASSUME TypeOK, EnricherNext, NEW s \in Seller, Gated(s)
  PROVE  Gated(s)'
  <1>1. ASSUME NEW k \in Slot, TakeAny(k) \/ Lookup(k) \/ PublishFetch(k) \/ Ack(k)
        PROVE  Gated(s)'
    <2>1. UNCHANGED <<visits, fresh, faults>>
      BY <1>1 DEF TakeAny, Take, Lookup, PublishFetch, Ack, ghostVars
    <2>2. step \in [Slot -> Step] /\ seller \in [Slot -> Seller]
      BY DEF TypeOK, EnricherTypeOK
    <2>3. \A j \in Slot : j # k => step'[j] = step[j] /\ seller'[j] = seller[j]
      BY <1>1, <2>2 DEF TakeAny, Take, Lookup, PublishFetch, Ack, Goto, Free
    <2>4. /\ step'[k] = "profile" => seller[k] \notin fresh /\ seller'[k] = seller[k]
          /\ step[k] \in {"fanout", "mark"} =>
                step'[k] \in {"fanout", "mark"} /\ seller'[k] = seller[k]
      <3>1. CASE TakeAny(k)
        <4>1. step[k] = "idle" /\ step'[k] \in {"idle", "lookup"}
          BY <2>2, <3>1 DEF TakeAny, Take
        <4> QED BY <4>1
      <3>2. CASE Lookup(k)
        <4>1. step[k] = "lookup" /\ seller' = seller
          BY <3>2 DEF Lookup
        <4>2. ASSUME seller[k] \in fresh
              PROVE  step' = [step EXCEPT ![k] = "ack"]
          BY <3>2, <4>2, Zenon DEF Lookup, Goto
        <4> QED BY <2>2, <4>1, <4>2
      <3>3. CASE PublishFetch(k)
        BY <2>2, <3>3 DEF PublishFetch, Goto
      <3>4. CASE Ack(k)
        BY <2>2, <3>4 DEF Ack, Free
      <3> QED BY <1>1, <3>1, <3>2, <3>3, <3>4
    <2> QED BY <2>1, <2>3, <2>4, NumbersTyped, OtherGated
  <1>2. ASSUME NEW k \in Slot, FetchProfile(k)
        PROVE  Gated(s)'
    BY <1>2, FetchProfileGated
  <1>3. ASSUME NEW k \in Slot, Mark(k)
        PROVE  Gated(s)'
    <2>1. /\ step[k] = "mark" /\ step' = [step EXCEPT ![k] = "ack"] /\ seller' = seller
          /\ fresh' = fresh \cup {seller[k]} /\ visits' = visits /\ faults' = faults
          /\ step \in [Slot -> Step]
      BY <1>3 DEF Mark, Goto, ghostVars, TypeOK, EnricherTypeOK
    <2>2. Reading(s)' \subseteq Reading(s)
      BY <2>1 DEF Reading
    <2>3. CASE s \in fresh' /\ s \notin fresh
      BY <2>1, <2>2, <2>3, MarkGated, NumbersTyped
    <2>4. CASE s \in fresh
      <3>1. s \in fresh' /\ Reading(s)' = Reading(s)
        BY <2>1, <2>4 DEF Reading
      <3> QED BY <2>1, <2>4, <3>1 DEF Gated
    <2>5. CASE s \notin fresh'
      <3>1. s # seller[k] /\ s \notin fresh
        BY <2>1, <2>5
      <3>2. Past(s)' = Past(s)
        BY <2>1, <3>1 DEF Past
      <3> QED BY <2>1, <2>5, <3>1, <3>2 DEF Gated
    <2> QED BY <2>3, <2>4, <2>5
  <1>4. ASSUME NEW k \in Slot, HandlerFails(k) \/ Crash(k)
        PROVE  Gated(s)'
    <2>1. Free(k) /\ Fault /\ visits' = visits
      BY <1>4 DEF HandlerFails, Crash, Requeue
    <2>2. fresh' = fresh \/ (step[k] = "mark" /\ fresh' = fresh \cup {seller[k]})
      BY <1>4 DEF HandlerFails, Crash
    <2> QED BY <2>1, <2>2, RequeueGated
  <1>5. ASSUME NEW r \in Seller, WindowPasses(r)
        PROVE  Gated(s)'
    BY <1>5, WindowPassesGated
  <1> QED BY <1>1, <1>2, <1>3, <1>4, <1>5 DEF EnricherNext, Handle

LEMMA GateHolds ==
  ASSUME TypeOK, [Next]_vars, NEW s \in Seller, Gated(s)
  PROVE  Gated(s)'
  <1>1. ASSUME UNCHANGED <<visits, fresh, step, seller>>, faults' = faults \/ Fault
        PROVE  Gated(s)'
    <2>1. faults' \in Nat /\ faults' >= faults
      BY <1>1, NumbersTyped DEF Fault
    <2>2. Reading(s)' = Reading(s) /\ Past(s)' = Past(s)
      BY <1>1 DEF Reading, Past
    <2> QED BY <1>1, <2>1, <2>2, GatedKept
  <1>2. CASE UNCHANGED vars
    BY <1>1, <1>2 DEF vars, enricherVars, jobVars, ghostVars
  <1>3. CASE EnricherNext
    BY <1>3, EnricherGated
  <1>4. CASE \/ \E u \in Url : Discover(u) \/ FetchAndParse(u) \/ ParseAgain(u) \/ NotFetched(u)
             \/ \E r \in Seller : PublishByHand(r)
    BY <1>1, <1>4 DEF Discover, FetchAndParse, ParseAgain, NotFetched, PublishByHand, jobVars,
                     ghostVars
  <1> QED BY <1>2, <1>3, <1>4, Zenon DEF Next, Idle

\* Whatever is queued for a seller, the profile is read no more often in a
\* window than there are handlers and faults.
THEOREM VisitsHold == Spec => []VisitsBounded
  <1> DEFINE GInv == IInv /\ \A s \in Seller : Gated(s)
  <1>1. Init => GInv
    <2> SUFFICES ASSUME Init, NEW s \in Seller PROVE Gated(s)
      BY InitHolds
    <2>1. s \notin fresh /\ visits[s] = 0 /\ faults = 0
      BY DEF Init, EnricherInit
    <2>2. Past(s) \in SUBSET Slot
      BY DEF Past
    <2> QED BY <2>1, <2>2, SlotSets DEF Gated
  <1>2. GInv /\ [Next]_vars => GInv'
    BY StepHolds, GateHolds DEF IInv
  <1>3. GInv => VisitsBounded
    <2> SUFFICES ASSUME GInv, NEW s \in Seller PROVE visits[s] <= Slots + faults
      BY DEF VisitsBounded
    <2>1. TypeOK /\ Gated(s)
      BY DEF IInv
    <2>2. Reading(s) \in SUBSET Slot /\ Past(s) \in SUBSET Slot
      BY DEF Reading, Past
    <2>3. /\ Cardinality(Reading(s)) \in Nat /\ Cardinality(Past(s)) \in Nat
          /\ Cardinality(Past(s)) <= Slots
      BY <2>2, SlotSets
    <2> QED BY <2>1, <2>3, NumbersTyped DEF Gated
  <1> QED BY <1>1, <1>2, <1>3, PTL DEF Spec

-----------------------------------------------------------------------------
(* The cycle does not feed itself.                                         *)

Readings == [s \in Seller |-> MaxVisits - visits[s]]
FanOut   == [j \in Slot \X Url |-> IF j[2] \in todo[j[1]] THEN 1 ELSE 0]
Waiting  == [j \in Seller \X (0..Budget) |-> enrichq[j[1]][j[2]]]
Ranks    == [k \in Slot |-> StepRank(step[k])]

LEMMA WorkLeftIs ==
  /\ WorkLeft = <<Readings, FanOut, fetchq, Waiting, Ranks>>
  /\ WorkLeft' = <<Readings', FanOut', fetchq', Waiting', Ranks'>>
  BY DEF WorkLeft, Readings, FanOut, Waiting, Ranks

LEMMA WorkTyped ==
  ASSUME TypeOK, TypeOK'
  PROVE  /\ Readings \in [Seller -> Nat] /\ Readings' \in [Seller -> Nat]
         /\ FanOut \in [Slot \X Url -> Nat] /\ FanOut' \in [Slot \X Url -> Nat]
         /\ fetchq \in [Url -> Nat] /\ fetchq' \in [Url -> Nat]
         /\ Waiting \in [Seller \X (0..Budget) -> Nat]
         /\ Waiting' \in [Seller \X (0..Budget) -> Nat]
         /\ Ranks \in [Slot -> Nat] /\ Ranks' \in [Slot -> Nat]
  <1>1. /\ \A s \in Seller : visits[s] \in 0..MaxVisits /\ visits'[s] \in 0..MaxVisits
        /\ fetchq \in [Url -> Nat] /\ fetchq' \in [Url -> Nat]
        /\ enrichq \in [Seller -> [0..Budget -> Nat]]
        /\ enrichq' \in [Seller -> [0..Budget -> Nat]]
    BY DEF TypeOK, EnricherTypeOK
  <1>2. \A s \in Seller : MaxVisits - visits[s] \in Nat /\ MaxVisits - visits'[s] \in Nat
    BY <1>1, ConstantsTyped
  <1>3. Readings \in [Seller -> Nat] /\ Readings' \in [Seller -> Nat]
    BY <1>2 DEF Readings, MaxVisits
  <1>4. FanOut \in [Slot \X Url -> Nat] /\ FanOut' \in [Slot \X Url -> Nat]
    BY DEF FanOut, Slot
  <1>5. \A j \in Seller \X (0..Budget) :
            enrichq[j[1]][j[2]] \in Nat /\ enrichq'[j[1]][j[2]] \in Nat
    BY <1>1
  <1>6. /\ Waiting \in [Seller \X (0..Budget) -> Nat]
        /\ Waiting' \in [Seller \X (0..Budget) -> Nat]
    BY <1>5 DEF Waiting
  <1>7. Ranks \in [Slot -> Nat] /\ Ranks' \in [Slot -> Nat]
    BY DEF Ranks, StepRank, Slot
  <1> QED BY <1>1, <1>3, <1>4, <1>6, <1>7

\* A handler goes on and changes nothing else that counts.
LEMMA StepFalls ==
  ASSUME TypeOK, TypeOK', NEW k \in Slot, NEW to, step' = [step EXCEPT ![k] = to],
         UNCHANGED <<visits, fetchq, enrichq>>, FanOut' = FanOut,
         StepRank(to) < StepRank(step[k])
  PROVE  Lower(WorkLeft', WorkLeft)
  <1>1. Readings' = Readings /\ Waiting' = Waiting
    BY DEF Readings, Waiting
  <1>2. step'[k] = to /\ \A j \in Slot : j # k => step'[j] = step[j]
    BY DEF TypeOK, EnricherTypeOK
  <1>3. Ranks'[k] < Ranks[k] /\ \A j \in Slot : j # k => Ranks'[j] = Ranks[j]
    BY <1>2 DEF Ranks
  <1>4. Falls(Ranks', Ranks)
    <2>1. Ranks \in [Slot -> Nat] /\ Ranks' \in [Slot -> Nat]
      BY WorkTyped
    <2> QED BY <1>3, <2>1, FallsAt
  <1> QED BY <1>1, <1>4, LowerOfFive, WorkLeftIs

LEMMA TakeLowers ==
  ASSUME TypeOK, TypeOK', NEW k \in Slot, NEW s \in Seller, NEW n \in 0..Budget, Take(k, s, n)
  PROVE  Lower(WorkLeft', WorkLeft)
  <1>1. /\ enrichq' = [enrichq EXCEPT ![s][n] = @ - 1] /\ enrichq[s][n] > 0
        /\ UNCHANGED <<visits, todo, fetchq>>
    BY DEF Take, ghostVars
  <1>2. Readings' = Readings /\ FanOut' = FanOut
    BY <1>1 DEF Readings, FanOut
  <1>3. /\ enrichq'[s][n] = enrichq[s][n] - 1 /\ enrichq[s][n] \in Nat
        /\ \A j \in Seller \X (0..Budget) :
              j # <<s, n>> => enrichq'[j[1]][j[2]] = enrichq[j[1]][j[2]]
    <2>1. enrichq \in [Seller -> [0..Budget -> Nat]]
      BY DEF TypeOK, EnricherTypeOK
    <2>2. /\ enrichq'[s] = [enrichq[s] EXCEPT ![n] = @ - 1]
          /\ \A r \in Seller : r # s => enrichq'[r] = enrichq[r]
      BY <1>1, <2>1
    <2>3. enrichq[s] \in [0..Budget -> Nat]
      BY <2>1
    <2>4. /\ enrichq'[s][n] = enrichq[s][n] - 1 /\ enrichq[s][n] \in Nat
          /\ \A i \in 0..Budget : i # n => enrichq'[s][i] = enrichq[s][i]
      BY <2>2, <2>3
    <2>5. ASSUME NEW j \in Seller \X (0..Budget), j # <<s, n>>
          PROVE  enrichq'[j[1]][j[2]] = enrichq[j[1]][j[2]]
      <3>1. j[1] \in Seller /\ j[2] \in 0..Budget /\ (j[1] # s \/ j[2] # n)
        BY <2>5
      <3> QED BY <2>2, <2>4, <3>1
    <2> QED BY <2>4, <2>5
  <1>4. /\ <<s, n>> \in Seller \X (0..Budget)
        /\ Waiting'[<<s, n>>] < Waiting[<<s, n>>]
        /\ \A j \in Seller \X (0..Budget) : j # <<s, n>> => Waiting'[j] = Waiting[j]
    BY <1>3 DEF Waiting
  <1>5. Falls(Waiting', Waiting)
    BY <1>4, WorkTyped, FallsAt
  <1> QED BY <1>1, <1>2, <1>5, LowerOfFive, WorkLeftIs

\* Each profile that is read is one of the readings the gate still lets through.
LEMMA FetchProfileLowers ==
  ASSUME TypeOK, TypeOK', VisitsBounded, NEW k \in Slot, FetchProfile(k)
  PROVE  Lower(WorkLeft', WorkLeft)
  <1> DEFINE s == seller[k]
  <1>1. s \in Seller /\ visits \in [Seller -> 0..MaxVisits] /\ faults \in 0..MaxFaults
    BY DEF TypeOK, EnricherTypeOK
  <1>2. visits[s] < MaxVisits /\ visits[s] \in Nat
    <2>1. visits[s] <= Slots + faults /\ visits[s] \in Nat
      BY <1>1 DEF VisitsBounded
    <2> QED BY <1>1, <2>1, ConstantsTyped DEF MaxVisits
  <1>3. visits' = [visits EXCEPT ![s] = visits[s] + 1]
    BY <1>2 DEF FetchProfile, Visit
  <1>4. visits'[s] = visits[s] + 1 /\ \A r \in Seller : r # s => visits'[r] = visits[r]
    BY <1>1, <1>3
  <1>5. /\ Readings'[s] = MaxVisits - visits'[s] /\ Readings[s] = MaxVisits - visits[s]
        /\ \A r \in Seller : r # s => Readings'[r] = Readings[r]
    BY <1>1, <1>4 DEF Readings, MaxVisits
  <1>6. Readings'[s] < Readings[s]
    BY <1>2, <1>4, <1>5, ConstantsTyped
  <1>7. Falls(Readings', Readings)
    BY <1>1, <1>5, <1>6, WorkTyped, FallsAt
  <1> QED BY <1>7, LowerOfFive, WorkLeftIs

\* What the task of a handler gave is handed over or forgotten, and none is put
\* in its place.
LEMMA FanOutLowers ==
  ASSUME TypeOK, TypeOK', NEW k \in Slot, NEW u \in todo[k], u \notin todo'[k],
         todo'[k] \subseteq todo[k], \A j \in Slot : j # k => todo'[j] = todo[j],
         UNCHANGED visits
  PROVE  Lower(WorkLeft', WorkLeft)
  <1>1. Readings' = Readings
    BY DEF Readings
  <1>2. u \in Url
    BY DEF TypeOK, EnricherTypeOK
  <1>3. /\ <<k, u>> \in Slot \X Url
        /\ FanOut'[<<k, u>>] = 0 /\ FanOut[<<k, u>>] = 1
    BY <1>2 DEF FanOut
  <1>4. ASSUME NEW j \in Slot \X Url
        PROVE  FanOut'[j] <= FanOut[j]
    <2>1. /\ FanOut'[j] = IF j[2] \in todo'[j[1]] THEN 1 ELSE 0
          /\ FanOut[j] = IF j[2] \in todo[j[1]] THEN 1 ELSE 0
      BY DEF FanOut
    <2>2. j[2] \in todo'[j[1]] => j[2] \in todo[j[1]]
      OBVIOUS
    <2> QED BY <2>1, <2>2
  <1>5. FanOut'[<<k, u>>] < FanOut[<<k, u>>]
    BY <1>3
  <1>6. Falls(FanOut', FanOut)
    BY <1>3, <1>4, <1>5, WorkTyped, FallsIf
  <1> QED BY <1>1, <1>6, LowerOfFive, WorkLeftIs

LEMMA AckLowers ==
  ASSUME TypeOK, TypeOK', NEW k \in Slot, Ack(k)
  PROVE  Lower(WorkLeft', WorkLeft)
  <1>1. /\ step[k] = "ack" /\ step' = [step EXCEPT ![k] = "idle"]
        /\ todo' = [todo EXCEPT ![k] = {}] /\ todo \in [Slot -> SUBSET Url]
        /\ UNCHANGED <<visits, fetchq, enrichq>>
    BY DEF Ack, Free, queues, TypeOK, EnricherTypeOK
  <1>2. todo'[k] = {} /\ \A j \in Slot : j # k => todo'[j] = todo[j]
    BY <1>1
  <1>3. CASE todo[k] = {}
    <2>1. FanOut' = FanOut
      BY <1>1, <1>3 DEF FanOut
    <2>2. StepRank("idle") < StepRank(step[k])
      BY <1>1 DEF StepRank
    <2> QED BY <1>1, <2>1, <2>2, StepFalls
  <1>4. CASE todo[k] # {}
    BY <1>1, <1>2, <1>4, FanOutLowers
  <1> QED BY <1>3, <1>4

LEMMA HandleLowers ==
  ASSUME TypeOK, TypeOK', VisitsBounded, NEW k \in Slot, Handle(k)
  PROVE  Lower(WorkLeft', WorkLeft)
  <1>1. CASE Lookup(k) \/ Mark(k)
    <2>1. PICK to \in {"ack", "mark", "profile"} :
              /\ step' = [step EXCEPT ![k] = to]
              /\ step[k] = "lookup" \/ (step[k] = "mark" /\ to = "ack")
      BY <1>1, Zenon DEF Lookup, Mark, Goto
    <2>2. UNCHANGED <<visits, fetchq, enrichq, todo>>
      BY <1>1 DEF Lookup, Mark, queues, ghostVars
    <2>3. StepRank(to) < StepRank(step[k])
      BY <2>1 DEF StepRank
    <2>4. FanOut' = FanOut
      BY <2>2 DEF FanOut
    <2> QED BY <2>1, <2>2, <2>3, <2>4, StepFalls
  <1>2. CASE FetchProfile(k)
    BY <1>2, FetchProfileLowers
  <1>3. CASE PublishFetch(k)
    <2>1. PICK u \in todo[k] : todo' = [todo EXCEPT ![k] = @ \ {u}] /\ visits' = visits
      BY <1>3 DEF PublishFetch
    <2>2. /\ todo'[k] = todo[k] \ {u}
          /\ \A j \in Slot : j # k => todo'[j] = todo[j]
      BY <2>1 DEF TypeOK, EnricherTypeOK
    <2>3. u \notin todo'[k] /\ todo'[k] \subseteq todo[k]
      BY <2>2
    <2> QED BY <2>1, <2>2, <2>3, FanOutLowers
  <1> QED BY <1>1, <1>2, <1>3 DEF Handle

LEMMA FetchLowers ==
  ASSUME TypeOK, TypeOK', NEW u \in Url, FetchAndParse(u) \/ NotFetched(u)
  PROVE  Lower(WorkLeft', WorkLeft)
  <1>1. /\ fetchq' = [fetchq EXCEPT ![u] = @ - 1] /\ fetchq[u] > 0
        /\ UNCHANGED <<visits, todo>>
    BY DEF FetchAndParse, NotFetched, jobVars, ghostVars
  <1>2. Readings' = Readings /\ FanOut' = FanOut
    BY <1>1 DEF Readings, FanOut
  <1>3. fetchq'[u] < fetchq[u] /\ \A v \in Url : v # u => fetchq'[v] = fetchq[v]
    BY <1>1, WorkTyped
  <1>4. Falls(fetchq', fetchq)
    <2>1. fetchq \in [Url -> Nat] /\ fetchq' \in [Url -> Nat]
      BY WorkTyped
    <2> QED BY <1>3, <2>1, FallsAt
  <1> QED BY <1>2, <1>4, LowerOfFive, WorkLeftIs

LEMMA StepLowers ==
  ASSUME TypeOK, TypeOK', VisitsBounded, Next, vars' # vars
  PROVE  seeds' > seeds \/ faults' > faults \/ windows' > windows \/ Lower(WorkLeft', WorkLeft)
  <1>0. faults \in Nat /\ seeds \in Nat /\ windows \in Nat
    BY ConstantsTyped DEF TypeOK, EnricherTypeOK
  <1>1. ASSUME NEW k \in Slot, HandlerFails(k) \/ Crash(k)
        PROVE  faults' > faults
    BY <1>0, <1>1 DEF HandlerFails, Crash, Requeue, Fault
  <1>2. ASSUME NEW u \in Url, ParseAgain(u)
        PROVE  faults' > faults
    BY <1>0, <1>2 DEF ParseAgain, Fault
  <1>3. ASSUME NEW u \in Url, Discover(u)
        PROVE  seeds' > seeds
    BY <1>0, <1>3 DEF Discover, Seed
  <1>4. ASSUME NEW s \in Seller, PublishByHand(s)
        PROVE  seeds' > seeds
    BY <1>0, <1>4 DEF PublishByHand, Seed
  <1>5. ASSUME NEW s \in Seller, WindowPasses(s)
        PROVE  windows' > windows
    BY <1>0, <1>5 DEF WindowPasses
  <1>6. ~Idle
    BY DEF Idle
  <1> QED BY <1>1, <1>2, <1>3, <1>4, <1>5, <1>6, TakeLowers, HandleLowers, AckLowers,
             FetchLowers, Zenon DEF Next, EnricherNext, TakeAny

\* The indices of the five vectors: finitely many if sellers and listings are.
Indices == <<Seller, Slot \X Url, Url, Seller \X (0..Budget), Slot>>

LEMMA IndicesFinite ==
  ASSUME IsFiniteSet(Seller), IsFiniteSet(Url)
  PROVE  \A i \in 1..5 : IsFiniteSet(Indices[i])
  <1>1. IsFiniteSet(Slot) /\ IsFiniteSet(0..Budget)
    BY ConstantsTyped, FS_Interval DEF Slot
  <1>2. IsFiniteSet(Slot \X Url) /\ IsFiniteSet(Seller \X (0..Budget))
    BY <1>1, FS_Product
  <1>3. /\ Indices[1] = Seller /\ Indices[2] = Slot \X Url /\ Indices[3] = Url
        /\ Indices[4] = Seller \X (0..Budget) /\ Indices[5] = Slot
    BY DEF Indices
  <1>4. \A i \in 1..5 : i = 1 \/ i = 2 \/ i = 3 \/ i = 4 \/ i = 5
    OBVIOUS
  <1> QED BY <1>1, <1>2, <1>3, <1>4, Zenon

\* What is left to do is a measure to which NoEndlessDescent applies.
THEOREM WorkIsMeasure == Spec => []Fits(WorkLeft, 5, Indices)
  <1>1. TypeOK /\ TypeOK' => Fits(WorkLeft, 5, Indices)
    <2> SUFFICES ASSUME TypeOK, TypeOK' PROVE Fits(WorkLeft, 5, Indices)
      OBVIOUS
    <2>1. /\ Readings \in [Seller -> Nat] /\ FanOut \in [Slot \X Url -> Nat]
          /\ fetchq \in [Url -> Nat] /\ Waiting \in [Seller \X (0..Budget) -> Nat]
          /\ Ranks \in [Slot -> Nat]
      BY WorkTyped
    <2>2. WorkLeft = <<Readings, FanOut, fetchq, Waiting, Ranks>>
      BY WorkLeftIs
    <2> HIDE DEF Readings, FanOut, Waiting, Ranks
    <2> QED BY <2>1, <2>2 DEF Fits, Indices
  <1> QED BY <1>1, TypeCorrect, PTL

\* A step of the cycle that is neither a seed, a fault nor the end of a window
\* lowers a measure that cannot fall for ever (NoEndlessDescent): the gate at the
\* profile is enough to end it.
THEOREM CycleRunsOut == Spec => WorkRunsOut
  <1>1. TypeOK /\ TypeOK' /\ VisitsBounded /\ [Next]_vars =>
           [\/ seeds' > seeds
            \/ faults' > faults
            \/ windows' > windows
            \/ Lower(WorkLeft', WorkLeft)]_vars
    BY StepLowers
  <1> QED BY <1>1, TypeCorrect, VisitsHold, PTL DEF Spec, WorkRunsOut

=============================================================================
