---------------------------- MODULE FetcherProofs ---------------------------
(***************************************************************************)
(* Theorems about Fetcher, for any tasks, URLs, handlers, window, budget    *)
(* and crashes.  The window is the hard one: the gate is read long before   *)
(* the row that closes it is written, so the proof counts the handlers that *)
(* are past the gate together with the rows of the window.                  *)
(***************************************************************************)
EXTENDS Fetcher, FiniteSetTheorems, WellFoundedInduction, TLAPS

LEMMA ConstantsTyped ==
    /\ IsFiniteSet(Task)
    /\ Slots \in Nat \ {0} /\ MinRefetch \in Nat /\ RetryTTL \in Nat
    /\ Budget \in Nat \ {0} /\ MaxTime \in Nat /\ MaxCrashes \in Nat
  BY FetcherAssumption

-----------------------------------------------------------------------------
(* The invariant.                                                          *)

\* A handler has its task in hand and a delivery left.
Placed ==
    \A t \in Task :
        /\ step[t] # "idle" <=> where[t] = "busy"
        /\ where[t] = "busy" => failures[t] < Budget

\* What a handler that is to publish has stored, and what is on record for a
\* task that is or will be acked.
Recorded ==
    \A t \in Task :
        /\ step[t] = "publish" => rowOf[t] \in DOMAIN rows /\ rows[rowOf[t]].html
        /\ step[t] \in {"publish", "ack"} \/ where[t] = "done" => RowsOf(url[t]) # {}

Busy == {t \in Task : where[t] = "busy"}

\* Handlers past the gate that may still write a row for u.
InFlight(u) ==
    {t \in Task : url[t] = u /\ step[t] \in {"fetch", "insert", "insert4xx"}}

\* The rows of the window that row i opens.
Window(i) == {j \in RowsOf(rows[i].url) : j >= i /\ rows[j].at - rows[i].at < MinRefetch}

Capped == Cardinality(Busy) <= Slots

\* A window has no more rows than there are slots, and while it is open the
\* handlers that can add to it count too.
Paced ==
    MinRefetch > 0 =>
        \A i \in DOMAIN rows :
            /\ Cardinality(Window(i)) <= Slots
            /\ now - rows[i].at < MinRefetch
                  => Cardinality(Window(i)) + Cardinality(InFlight(rows[i].url)) <= Slots

IInv == TypeOK /\ Placed /\ Recorded /\ ParseHasPage /\ PageIsParsed /\ Capped /\ Paced

-----------------------------------------------------------------------------
(* Lemmas about rows, and about sets of tasks.                             *)

LEMMA RowsTyped ==
  ASSUME TypeOK
  PROVE  /\ Len(rows) \in Nat /\ DOMAIN rows = 1..Len(rows)
         /\ \A i \in DOMAIN rows :
               /\ i \in Nat /\ rows[i].url \in Url /\ rows[i].at \in Nat /\ rows[i].at <= MaxTime
               /\ IsFiniteSet(RowsOf(rows[i].url)) /\ IsFiniteSet(Window(i))
               /\ Cardinality(Window(i)) \in Nat
         /\ now \in Nat /\ now <= MaxTime
  <1>1. Len(rows) \in Nat /\ DOMAIN rows = 1..Len(rows) /\ rows \in Seq(Row)
    BY DEF TypeOK
  <1>2. now \in Nat /\ now <= MaxTime
    BY ConstantsTyped DEF TypeOK
  <1>3. \A i \in DOMAIN rows : rows[i] \in Row
    BY <1>1
  <1>4. \A i \in DOMAIN rows :
            i \in Nat /\ rows[i].url \in Url /\ rows[i].at \in Nat /\ rows[i].at <= MaxTime
    BY <1>1, <1>3, ConstantsTyped DEF Row
  <1>5. IsFiniteSet(DOMAIN rows)
    BY <1>1, FS_Interval
  <1>6. ASSUME NEW i \in DOMAIN rows
        PROVE  /\ IsFiniteSet(RowsOf(rows[i].url)) /\ IsFiniteSet(Window(i))
               /\ Cardinality(Window(i)) \in Nat
    <2>1. RowsOf(rows[i].url) \subseteq DOMAIN rows /\ Window(i) \subseteq DOMAIN rows
      BY DEF RowsOf, Window
    <2> QED BY <1>5, <2>1, FS_Subset, FS_CardinalityType
  <1> QED BY <1>1, <1>2, <1>4, <1>6

LEMMA TaskSets ==
    /\ IsFiniteSet(Busy) /\ Cardinality(Busy) \in Nat
    /\ \A u : IsFiniteSet(InFlight(u)) /\ Cardinality(InFlight(u)) \in Nat
  <1>1. Busy \subseteq Task /\ \A u : InFlight(u) \subseteq Task
    BY DEF Busy, InFlight
  <1> QED BY <1>1, ConstantsTyped, FS_Subset, FS_CardinalityType

\* The latest row of a URL is one, and no other is later.
LEMMA LatestIs ==
  ASSUME TypeOK, NEW u, RowsOf(u) # {}
  PROVE  /\ Latest(u) \in RowsOf(u)
         /\ \A j \in RowsOf(u) : rows[j].at <= rows[Latest(u)].at
  <1> DEFINE T == {MaxTime - rows[j].at : j \in RowsOf(u)}
  <1>1. \A j \in RowsOf(u) : rows[j].at \in Nat /\ MaxTime - rows[j].at \in Nat
    <2> TAKE j \in RowsOf(u)
    <2>1. j \in DOMAIN rows
      BY DEF RowsOf
    <2>2. rows[j].at \in Nat /\ rows[j].at <= MaxTime
      BY <2>1, RowsTyped
    <2> QED BY <2>2, ConstantsTyped
  <1>2. T \subseteq Nat /\ T # {}
    BY <1>1
  <1> HIDE DEF T
  <1>3. PICK x \in T : \A y \in T : ~ (<<y, x>> \in OpToRel(<, Nat))
    BY <1>2, NatLessThanWellFounded, WFMin
  <1>4. \A y \in T : x <= y
    <2>1. OpToRel(<, Nat) = {ss \in Nat \X Nat : ss[1] < ss[2]}
      BY DEF OpToRel
    <2>2. \A y \in T : ~(y < x) /\ y \in Nat /\ x \in Nat
      BY <1>2, <1>3, <2>1
    <2> QED BY <2>2
  <1>5. PICK i \in RowsOf(u) : x = MaxTime - rows[i].at
    BY DEF T
  <1>6. \A j \in RowsOf(u) : rows[j].at <= rows[i].at
    <2> TAKE j \in RowsOf(u)
    <2>1. MaxTime - rows[j].at \in T
      BY DEF T
    <2>2. MaxTime - rows[i].at <= MaxTime - rows[j].at
      BY <1>4, <1>5, <2>1
    <2> QED BY <1>1, <2>2, ConstantsTyped
  <1> QED BY <1>6 DEF Latest

\* When the gate lets a URL through, no window of it is open.
LEMMA GateCloses ==
  ASSUME TypeOK, NEW u, MinRefetch > 0, ~FetchedRecently(u), NEW i \in RowsOf(u)
  PROVE  ~(now - rows[i].at < MinRefetch)
  <1>1. ~(now - rows[Latest(u)].at < MinRefetch)
    BY DEF FetchedRecently, recentlyFetched
  <1>2. rows[i].at <= rows[Latest(u)].at /\ Latest(u) \in RowsOf(u)
    BY LatestIs
  <1>3. now \in Nat /\ rows[i].at \in Nat /\ rows[Latest(u)].at \in Nat
    BY <1>2, RowsTyped DEF RowsOf
  <1> QED BY <1>1, <1>2, <1>3, ConstantsTyped

LEMMA BusyKept ==
  ASSUME Capped, Busy' \subseteq Busy
  PROVE  Capped'
  <1>1. Cardinality(Busy') <= Cardinality(Busy) /\ Cardinality(Busy') \in Nat
    BY TaskSets, FS_Subset, FS_CardinalityType
  <1> QED BY <1>1, TaskSets, ConstantsTyped DEF Capped

\* A step that writes no row and sends no handler past the gate.
LEMMA PacedKept ==
  ASSUME TypeOK, Paced, rows' = rows, now' \in Nat, now' >= now,
         \A u : InFlight(u)' \subseteq InFlight(u)
  PROVE  Paced'
  <1> SUFFICES ASSUME MinRefetch > 0, NEW i \in DOMAIN rows
               PROVE  /\ Cardinality(Window(i)) <= Slots
                      /\ now' - rows[i].at < MinRefetch
                            => Cardinality(Window(i)) + Cardinality(InFlight(rows[i].url)') <= Slots
    BY DEF Paced, Window, RowsOf
  <1> DEFINE u == rows[i].url
  <1>1. Cardinality(InFlight(u)') <= Cardinality(InFlight(u)) /\ Cardinality(InFlight(u)') \in Nat
    BY TaskSets, FS_Subset, FS_CardinalityType
  <1>2. /\ Cardinality(Window(i)) <= Slots
        /\ now - rows[i].at < MinRefetch
              => Cardinality(Window(i)) + Cardinality(InFlight(u)) <= Slots
    BY DEF Paced
  <1>3. /\ Cardinality(Window(i)) \in Nat /\ Cardinality(InFlight(u)) \in Nat
        /\ now \in Nat /\ rows[i].at \in Nat
    BY RowsTyped, TaskSets
  <1> HIDE DEF u
  <1>4. now' - rows[i].at < MinRefetch => now - rows[i].at < MinRefetch
    BY <1>3, ConstantsTyped
  <1>5. now' - rows[i].at < MinRefetch
            => Cardinality(Window(i)) + Cardinality(InFlight(u)') <= Slots
    BY <1>1, <1>2, <1>3, <1>4, ConstantsTyped
  <1> QED BY <1>2, <1>5 DEF u

-----------------------------------------------------------------------------
(* One lemma per kind of step.                                             *)

LEMMA InitHolds == Init => IInv
  <1> SUFFICES ASSUME Init PROVE IInv
    OBVIOUS
  <1> USE ConstantsTyped DEF Init
  <1>1. TypeOK
    BY DEF TypeOK, Place, Step
  <1>2. Placed /\ Recorded
    BY DEF Placed, Recorded
  <1>3. ParseHasPage /\ PageIsParsed
    BY DEF ParseHasPage, PageIsParsed
  <1>4. Capped
    <2>1. Busy = {}
      BY DEF Busy
    <2> QED BY <2>1, FS_EmptySet DEF Capped
  <1>5. Paced
    BY DEF Paced
  <1> QED BY <1>1, <1>2, <1>3, <1>4, <1>5 DEF IInv

\* A step that writes no row and publishes nothing.
LEMMA QuietHolds ==
  ASSUME IInv, TypeOK', Placed', Capped', Paced', rows' = rows, parse' = parse, url' = url,
         \A t \in Task :
            /\ step'[t] = "publish" => step[t] = "publish" /\ rowOf'[t] = rowOf[t]
            /\ step'[t] = "ack" \/ where'[t] = "done"
                  => step[t] = "ack" \/ where[t] = "done" \/ RowsOf(url[t]) # {},
         Untroubled' => /\ Untroubled
                        /\ \A t \in Task : step[t] = "publish" =>
                              step'[t] = "publish" /\ rowOf'[t] = rowOf[t]
  PROVE  IInv'
  <1>1. \A u : RowsOf(u)' = RowsOf(u)
    BY DEF RowsOf
  <1>2. Recorded'
    BY <1>1, Zenon DEF IInv, Recorded
  <1>3. ParseHasPage'
    BY DEF IInv, ParseHasPage
  <1>4. PageIsParsed'
    <2> SUFFICES ASSUME Untroubled', NEW i \in DOMAIN rows, rows[i].html, i \notin parse
                 PROVE  \E t \in Task : rowOf'[t] = i /\ step'[t] = "publish"
      BY DEF PageIsParsed
    <2>1. PICK t \in Task : rowOf[t] = i /\ step[t] = "publish"
      BY DEF IInv, PageIsParsed
    <2> QED BY <2>1
  <1> QED BY <1>2, <1>3, <1>4 DEF IInv

LEMMA SubmitHolds ==
  ASSUME IInv, NEW t \in Task, Submit(t)
  PROVE  IInv'
  <1> USE DEF Submit
  <1>1. TypeOK'
    BY DEF IInv, TypeOK, Place
  <1>2. Placed'
    BY DEF IInv, Placed, TypeOK
  <1>3. Capped'
    <2>1. Busy' \subseteq Busy
      BY DEF Busy, IInv, TypeOK
    <2> QED BY <2>1, BusyKept DEF IInv
  <1>4. Paced'
    <2>1. \A u : InFlight(u)' \subseteq InFlight(u)
      BY DEF InFlight
    <2> QED BY <2>1, PacedKept, RowsTyped DEF IInv
  <1>5. \A s \in Task : where'[s] = "done" => where[s] = "done"
    BY DEF IInv, TypeOK
  <1> QED BY <1>1, <1>2, <1>3, <1>4, <1>5, QuietHolds DEF Untroubled

LEMMA TakeHolds ==
  ASSUME IInv, NEW t \in Task, Take(t)
  PROVE  IInv'
  <1>1. /\ UNCHANGED <<now, rows, parse, url, parkedAt, failures, rowOf, crashes>>
        /\ where[t] = "queued" /\ Cardinality(Busy) < Slots
        /\ \/ /\ failures[t] < Budget
              /\ where' = [where EXCEPT ![t] = "busy"]
              /\ step' = [step EXCEPT ![t] = "gate"]
           \/ where' = [where EXCEPT ![t] = "dead"] /\ step' = step
    BY DEF Take, Busy
  <1>2. /\ where \in [Task -> Place] /\ step \in [Task -> Step]
        /\ step[t] = "idle"
    BY <1>1 DEF IInv, TypeOK, Placed
  <1>3. TypeOK'
    <2>1. where' \in [Task -> Place] /\ step' \in [Task -> Step]
      BY <1>1, <1>2 DEF Place, Step
    <2> QED BY <1>1, <2>1 DEF IInv, TypeOK
  <1>4. Placed'
    BY <1>1, <1>2 DEF IInv, Placed
  <1>5. Capped'
    <2>1. CASE where' = [where EXCEPT ![t] = "busy"]
      <3>1. Busy' = Busy \cup {t} /\ t \notin Busy
        BY <1>1, <1>2, <2>1 DEF Busy
      <3>2. Cardinality(Busy') = Cardinality(Busy) + 1
        BY <3>1, TaskSets, FS_AddElement
      <3> QED BY <1>1, <3>2, TaskSets, ConstantsTyped DEF Capped
    <2>2. CASE where' = [where EXCEPT ![t] = "dead"]
      <3>1. Busy' \subseteq Busy
        BY <1>2, <2>2 DEF Busy
      <3> QED BY <3>1, BusyKept DEF IInv
    <2> QED BY <1>1, <2>1, <2>2
  <1>6. Paced'
    <2>1. \A u : InFlight(u)' \subseteq InFlight(u)
      BY <1>1, <1>2 DEF InFlight
    <2> QED BY <1>1, <2>1, PacedKept, RowsTyped DEF IInv
  <1>7. \A s \in Task :
            /\ step'[s] = "publish" <=> step[s] = "publish"
            /\ step'[s] = "ack" \/ where'[s] = "done" => step[s] = "ack" \/ where[s] = "done"
    BY <1>1, <1>2
  <1> QED BY <1>1, <1>3, <1>4, <1>5, <1>6, <1>7, QuietHolds DEF Untroubled

LEMMA ExpireHolds ==
  ASSUME IInv, NEW t \in Task, Expire(t)
  PROVE  IInv'
  <1> USE DEF Expire
  <1>1. TypeOK'
    BY ConstantsTyped DEF IInv, TypeOK, Place
  <1>2. Placed'
    BY DEF IInv, Placed, TypeOK
  <1>3. Capped'
    <2>1. Busy' \subseteq Busy
      BY DEF Busy, IInv, TypeOK
    <2> QED BY <2>1, BusyKept DEF IInv
  <1>4. Paced'
    <2>1. \A u : InFlight(u)' \subseteq InFlight(u)
      BY DEF InFlight
    <2> QED BY <2>1, PacedKept, RowsTyped DEF IInv
  <1>5. \A s \in Task : where'[s] = "done" => where[s] = "done"
    BY DEF IInv, TypeOK
  <1> QED BY <1>1, <1>2, <1>3, <1>4, <1>5, QuietHolds DEF Untroubled

LEMMA AckHolds ==
  ASSUME IInv, NEW t \in Task, Ack(t)
  PROVE  IInv'
  <1> USE DEF Ack
  <1>1. TypeOK'
    BY RowsTyped DEF IInv, TypeOK, Place, Step
  <1>2. Placed'
    BY DEF IInv, Placed, TypeOK
  <1>3. Capped'
    <2>1. Busy' \subseteq Busy
      BY DEF Busy, IInv, TypeOK
    <2> QED BY <2>1, BusyKept DEF IInv
  <1>4. Paced'
    <2>1. \A u : InFlight(u)' \subseteq InFlight(u)
      BY DEF InFlight, IInv, TypeOK
    <2> QED BY <2>1, PacedKept, RowsTyped DEF IInv
  <1>5. \A s \in Task :
            /\ step'[s] = "publish" <=> step[s] = "publish"
            /\ step[s] = "publish" => rowOf'[s] = rowOf[s]
            /\ step'[s] = "ack" \/ where'[s] = "done" => step[s] = "ack" \/ where[s] = "done"
    BY DEF IInv, TypeOK
  <1> QED BY <1>1, <1>2, <1>3, <1>4, <1>5, QuietHolds DEF Untroubled

LEMMA CrashHolds ==
  ASSUME IInv, NEW S \in SUBSET Task, Crash(S)
  PROVE  IInv'
  <1> USE DEF Crash
  <1>1. TypeOK'
    BY ConstantsTyped, RowsTyped DEF IInv, TypeOK, Place, Step
  <1>2. Placed'
    BY DEF IInv, Placed, TypeOK
  <1>3. Capped'
    <2>1. Busy' \subseteq Busy
      BY DEF Busy, IInv, TypeOK
    <2> QED BY <2>1, BusyKept DEF IInv
  <1>4. Paced'
    <2>1. \A u : InFlight(u)' \subseteq InFlight(u)
      BY DEF InFlight
    <2> QED BY <2>1, PacedKept, RowsTyped DEF IInv
  <1>5. \A s \in Task :
            /\ step'[s] = "publish" => step[s] = "publish" /\ rowOf'[s] = rowOf[s]
            /\ step'[s] = "ack" \/ where'[s] = "done" => step[s] = "ack" \/ where[s] = "done"
    OBVIOUS
  <1>6. ~Untroubled'
    BY ConstantsTyped DEF IInv, TypeOK, Untroubled
  <1> QED BY <1>1, <1>2, <1>3, <1>4, <1>5, <1>6, QuietHolds

LEMMA TickHolds ==
  ASSUME IInv, Tick
  PROVE  IInv'
  <1> USE DEF Tick, queueVars
  <1>1. TypeOK'
    BY ConstantsTyped DEF IInv, TypeOK
  <1>2. Placed'
    BY DEF IInv, Placed
  <1>3. Capped'
    BY DEF IInv, Capped, Busy
  <1>4. Paced'
    <2>1. \A u : InFlight(u)' \subseteq InFlight(u)
      BY DEF InFlight
    <2>2. now' \in Nat /\ now' >= now
      BY RowsTyped DEF IInv
    <2> QED BY <2>1, <2>2, PacedKept DEF IInv
  <1> QED BY <1>1, <1>2, <1>3, <1>4, QuietHolds DEF Untroubled

\* The handler returns an error, perhaps of a publish that was stored.
LEMMA FailHolds ==
  ASSUME IInv, NEW t \in Task, Fail(t), step[t] \notin {"idle", "ack"},
         UNCHANGED <<now, rows, url, crashes>>,
         \/ parse' = parse
         \/ step[t] = "publish" /\ parse' = parse \cup {rowOf[t]}
  PROVE  IInv'
  <1> USE DEF Fail
  <1>1. where[t] = "busy" /\ failures[t] < Budget
    BY DEF IInv, Placed
  <1>2. parse' \subseteq DOMAIN rows /\ \A i \in parse' : rows[i].html
    BY DEF IInv, TypeOK, Recorded, ParseHasPage
  <1>3. failures' \in [Task -> 0..Budget] /\ failures'[t] # 0
    <2>1. failures \in [Task -> 0..Budget]
      BY DEF IInv, TypeOK
    <2>2. failures[t] + 1 \in 0..Budget /\ failures[t] + 1 # 0
      BY <1>1, <2>1, ConstantsTyped
    <2> QED BY <2>1, <2>2
  <1>4. TypeOK'
    <2>1. where' \in [Task -> Place] /\ step' \in [Task -> Step]
      BY DEF IInv, TypeOK, Place, Step
    <2>2. rowOf' \in [Task -> 0..Len(rows)] /\ parkedAt' \in [Task -> 0..MaxTime]
      BY RowsTyped DEF IInv, TypeOK
    <2> QED BY <1>2, <1>3, <2>1, <2>2 DEF IInv, TypeOK
  <1>5. Placed'
    BY DEF IInv, Placed, TypeOK
  <1>6. Recorded'
    <2>1. \A u : RowsOf(u)' = RowsOf(u)
      BY DEF RowsOf
    <2>2. \A s \in Task :
              /\ step'[s] = "publish" => step[s] = "publish" /\ rowOf'[s] = rowOf[s]
              /\ step'[s] = "ack" \/ where'[s] = "done" => step[s] = "ack" \/ where[s] = "done"
      BY DEF IInv, TypeOK
    <2> QED BY <2>1, <2>2, Zenon DEF IInv, Recorded
  <1>7. ParseHasPage'
    BY <1>2 DEF ParseHasPage
  <1>8. PageIsParsed'
    BY <1>3 DEF PageIsParsed, Untroubled
  <1>9. Capped'
    <2>1. Busy' \subseteq Busy
      BY DEF Busy, IInv, TypeOK
    <2> QED BY <2>1, BusyKept DEF IInv
  <1>10. Paced'
    <2>1. \A u : InFlight(u)' \subseteq InFlight(u)
      BY DEF InFlight, IInv, TypeOK
    <2> QED BY <2>1, PacedKept, RowsTyped DEF IInv
  <1> QED BY <1>4, <1>5, <1>6, <1>7, <1>8, <1>9, <1>10 DEF IInv

\* The gate and the answer of the site.
LEMMA GateHolds ==
  ASSUME IInv, NEW t \in Task, Gate(t) \/ Fetch(t)
  PROVE  IInv'
  <1>1. CASE Fail(t) /\ UNCHANGED <<now, rows, url, crashes, parse>> /\ step[t] \in {"gate", "fetch"}
    BY <1>1, FailHolds
  <1>2. CASE /\ UNCHANGED <<now, rows, parse, queueVars, rowOf, crashes>>
             /\ \/ /\ step[t] = "gate" /\ FetchedRecently(url[t])
                   /\ step' = [step EXCEPT ![t] = "ack"]
                \/ /\ step[t] = "gate" /\ ~FetchedRecently(url[t])
                   /\ step' = [step EXCEPT ![t] = "fetch"]
                \/ /\ step[t] = "fetch"
                   /\ \E s \in {"insert", "insert4xx"} : step' = [step EXCEPT ![t] = s]
    <2> USE <1>2 DEF queueVars
    <2>1. step \in [Task -> Step] /\ step[t] \in {"gate", "fetch"}
      BY DEF IInv, TypeOK
    <2>2. step' \in [Task -> Step]
      BY <2>1 DEF Step
    <2>3. TypeOK'
      BY <2>2 DEF IInv, TypeOK
    <2>4. Placed'
      BY <2>1 DEF IInv, Placed
    <2>5. Capped'
      BY DEF IInv, Capped, Busy
    <2>6. \A s \in Task :
              /\ step'[s] = "publish" <=> step[s] = "publish"
              /\ step'[s] = "ack" => step[s] = "ack" \/ RowsOf(url[s]) # {}
      BY <2>1 DEF FetchedRecently
    <2>7. Paced'
      <3>1. CASE ~(step[t] = "gate" /\ ~FetchedRecently(url[t]))
        <4>1. \A u : InFlight(u)' \subseteq InFlight(u)
          BY <2>1, <3>1 DEF InFlight
        <4> QED BY <4>1, PacedKept, RowsTyped DEF IInv
      <3>2. CASE ~FetchedRecently(url[t])
        <4> SUFFICES ASSUME MinRefetch > 0, NEW i \in DOMAIN rows
                     PROVE  /\ Cardinality(Window(i)) <= Slots
                            /\ now - rows[i].at < MinRefetch =>
                                  Cardinality(Window(i)) + Cardinality(InFlight(rows[i].url)')
                                      <= Slots
          BY DEF Paced, Window, RowsOf
        <4>1. CASE rows[i].url = url[t]
          <5>1. ~(now - rows[i].at < MinRefetch)
            BY <3>2, <4>1, GateCloses DEF IInv, RowsOf
          <5> QED BY <5>1 DEF IInv, Paced
        <4>2. CASE rows[i].url # url[t]
          <5>1. InFlight(rows[i].url)' = InFlight(rows[i].url)
            BY <2>1, <4>2 DEF InFlight
          <5> QED BY <5>1 DEF IInv, Paced
        <4> QED BY <4>1, <4>2
      <3> QED BY <3>1, <3>2
    <2> QED BY <2>3, <2>4, <2>5, <2>6, <2>7, QuietHolds DEF Untroubled
  <1> QED BY <1>1, <1>2 DEF Gate, Fetch

-----------------------------------------------------------------------------
(* A row is written.                                                       *)

LEMMA InsertPaced ==
  ASSUME IInv, NEW t \in Task, step[t] \in {"insert", "insert4xx"},
         NEW html \in BOOLEAN, rows' = Append(rows, NewRow(t, html)),
         NEW to \in {"ack", "publish"}, step' = [step EXCEPT ![t] = to],
         UNCHANGED <<now, url>>
  PROVE  Paced'
  <1> SUFFICES ASSUME MinRefetch > 0, NEW i \in DOMAIN rows'
               PROVE  /\ Cardinality(Window(i)') <= Slots
                      /\ now - rows'[i].at < MinRefetch
                            => Cardinality(Window(i)') + Cardinality(InFlight(rows[i].url)')
                                   <= Slots
    BY DEF Paced
  <1>0. PICK n \in Nat : n = Len(rows) + 1
    BY RowsTyped DEF IInv
  <1>1. /\ DOMAIN rows' = DOMAIN rows \cup {n} /\ n \notin DOMAIN rows
        /\ DOMAIN rows = 1..Len(rows) /\ Len(rows) \in Nat
        /\ \A j \in DOMAIN rows : rows'[j] = rows[j]
        /\ rows'[n] = NewRow(t, html)
    BY <1>0, RowsTyped DEF IInv, TypeOK
  <1>2. /\ rows'[n].url = url[t] /\ rows'[n].at = now
        /\ step \in [Task -> Step] /\ now \in Nat
    BY <1>1, RowsTyped DEF NewRow, IInv, TypeOK
  <1>3. \A u : InFlight(u)' = IF u = url[t] THEN InFlight(u) \ {t} ELSE InFlight(u)
    BY <1>2 DEF InFlight
  <1>4. t \in InFlight(url[t])
    BY DEF InFlight
  <1>5. CASE i = n
    <2>1. Window(i)' = {n}
      <3>1. Window(n)' = {j \in DOMAIN rows' : /\ rows'[j].url = url[t]
                                               /\ j >= n /\ rows'[j].at - now < MinRefetch}
        BY <1>2 DEF Window, RowsOf
      <3>2. \A j \in DOMAIN rows : ~(j >= n)
        BY <1>0, <1>1
      <3>3. n >= n /\ now - now < MinRefetch
        BY <1>1, <1>2, ConstantsTyped
      <3> QED BY <1>1, <1>2, <1>5, <3>1, <3>2, <3>3
    <2>2. Cardinality(Window(i)') = 1
      BY <2>1, FS_Singleton
    <2>3. Cardinality(InFlight(url[t])) <= Slots
      <3>1. InFlight(url[t]) \subseteq Busy
        BY DEF InFlight, Busy, IInv, Placed
      <3>2. Cardinality(InFlight(url[t])) <= Cardinality(Busy)
        BY <3>1, TaskSets, FS_Subset
      <3> QED BY <3>2, TaskSets, ConstantsTyped DEF IInv, Capped
    <2>4. Cardinality(InFlight(url[t])') = Cardinality(InFlight(url[t])) - 1
      BY <1>3, <1>4, TaskSets, FS_RemoveElement
    <2>5. 1 <= Slots /\ 1 + Cardinality(InFlight(url[t])') <= Slots
      BY <2>3, <2>4, TaskSets, ConstantsTyped
    <2>6. InFlight(rows[i].url)' = InFlight(url[t])'
      BY <1>2, <1>5 DEF InFlight
    <2> QED BY <2>2, <2>5, <2>6
  <1>6. CASE i \in DOMAIN rows
    <2>0. PICK u : u = rows[i].url
      OBVIOUS
    <2>1. /\ Cardinality(Window(i)) <= Slots
          /\ now - rows[i].at < MinRefetch
                => Cardinality(Window(i)) + Cardinality(InFlight(u)) <= Slots
      BY <1>6, <2>0 DEF IInv, Paced
    <2>2. IsFiniteSet(Window(i)) /\ Cardinality(Window(i)) \in Nat
      BY <1>6, RowsTyped DEF IInv
    <2>3. rows'[i] = rows[i]
      BY <1>1, <1>6
    <2>4. n \notin Window(i) /\ n >= i
      <3>1. Window(i) \subseteq DOMAIN rows
        BY DEF Window, RowsOf
      <3>2. Len(rows) + 1 >= i
        BY <1>1, <1>6
      <3> QED BY <1>0, <1>1, <3>1, <3>2
    <2>5. Window(i)' = IF u = url[t] /\ now - rows[i].at < MinRefetch
                       THEN Window(i) \cup {n} ELSE Window(i)
      <3>1. Window(i)' = {j \in DOMAIN rows' : /\ rows'[j].url = u
                                               /\ j >= i /\ rows'[j].at - rows[i].at < MinRefetch}
        BY <2>0, <2>3 DEF Window, RowsOf
      <3>2. Window(i) = {j \in DOMAIN rows : /\ rows[j].url = u
                                             /\ j >= i /\ rows[j].at - rows[i].at < MinRefetch}
        BY <2>0 DEF Window, RowsOf
      <3> QED BY <1>1, <1>2, <2>4, <3>1, <3>2
    <2>6. InFlight(rows[i].url)' = InFlight(u)'
      BY <2>0, <2>3 DEF InFlight
    <2>7. CASE u = url[t] /\ now - rows[i].at < MinRefetch
      <3>1. Cardinality(Window(i)') = Cardinality(Window(i)) + 1
        BY <2>2, <2>4, <2>5, <2>7, FS_AddElement
      <3>2. Cardinality(InFlight(u)') = Cardinality(InFlight(u)) - 1
        BY <1>3, <1>4, <2>7, TaskSets, FS_RemoveElement
      <3>3. Cardinality(InFlight(u)') \in Nat
        BY <1>3, TaskSets, FS_RemoveElement, FS_CardinalityType
      <3>4. Cardinality(InFlight(u)) \in Nat
        BY TaskSets
      <3>5. /\ Cardinality(Window(i)') <= Slots
            /\ Cardinality(Window(i)') + Cardinality(InFlight(u)') <= Slots
        BY <2>1, <2>2, <2>7, <3>1, <3>2, <3>3, <3>4, ConstantsTyped
      <3> QED BY <2>3, <2>6, <3>5
    <2>8. CASE u # url[t]
      BY <1>3, <2>0, <2>1, <2>3, <2>5, <2>8, <2>6
    <2>9. CASE ~(now - rows[i].at < MinRefetch)
      BY <2>1, <2>3, <2>5, <2>9
    <2> QED BY <2>0, <2>7, <2>8, <2>9
  <1> QED BY <1>1, <1>5, <1>6

LEMMA InsertHolds ==
  ASSUME IInv, NEW t \in Task, Insert(t) \/ Insert4xx(t)
  PROVE  IInv'
  <1>1. CASE Fail(t) /\ UNCHANGED <<now, rows, url, crashes, parse>>
             /\ step[t] \in {"insert", "insert4xx"}
    BY <1>1, FailHolds
  <1>2. ASSUME NEW html \in BOOLEAN, NEW to \in {"ack", "publish"},
               step[t] \in {"insert", "insert4xx"},
               html <=> to = "publish",
               rows' = Append(rows, NewRow(t, html)),
               step' = [step EXCEPT ![t] = to],
               rowOf' = IF to = "publish" THEN [rowOf EXCEPT ![t] = Len(rows) + 1] ELSE rowOf,
               UNCHANGED <<now, parse, queueVars, crashes>>
        PROVE  IInv'
    <2> USE DEF queueVars
    <2>1. /\ Len(rows) \in Nat /\ rows \in Seq(Row) /\ DOMAIN rows = 1..Len(rows)
          /\ step \in [Task -> Step] /\ rowOf \in [Task -> 0..Len(rows)]
          /\ parse \subseteq DOMAIN rows
      BY RowsTyped DEF IInv, TypeOK
    <2>2. NewRow(t, html) \in Row
      BY DEF NewRow, Row, IInv, TypeOK
    <2>3. /\ rows' \in Seq(Row) /\ Len(rows') = Len(rows) + 1
          /\ DOMAIN rows' = 1..(Len(rows) + 1)
          /\ \A j \in DOMAIN rows : rows'[j] = rows[j]
          /\ rows'[Len(rows) + 1] = NewRow(t, html)
      BY <1>2, <2>1, <2>2
    <2>4. TypeOK'
      <3>1. step' \in [Task -> Step]
        BY <1>2, <2>1 DEF Step
      <3>2. rowOf' \in [Task -> 0..Len(rows')]
        BY <1>2, <2>1, <2>3
      <3>3. parse' \subseteq DOMAIN rows'
        BY <1>2, <2>1, <2>3
      <3> QED BY <1>2, <2>3, <3>1, <3>2, <3>3 DEF IInv, TypeOK
    <2>5. Placed'
      BY <1>2, <2>1 DEF IInv, Placed
    <2>6. \A u : RowsOf(u) \subseteq RowsOf(u)'
      BY <2>1, <2>3 DEF RowsOf
    <2>7. Recorded'
      <3>1. ASSUME NEW s \in Task, s # t
            PROVE  /\ step'[s] = "publish"
                         => rowOf'[s] \in DOMAIN rows' /\ rows'[rowOf'[s]].html
                   /\ step'[s] \in {"publish", "ack"} \/ where'[s] = "done" => RowsOf(url[s])' # {}
        <4>1. step'[s] = step[s] /\ rowOf'[s] = rowOf[s] /\ where'[s] = where[s]
          BY <1>2, <2>1, <3>1
        <4>2. step[s] \in {"publish", "ack"} \/ where[s] = "done" => RowsOf(url[s]) # {}
          BY DEF IInv, Recorded
        <4>3. step[s] = "publish" => rowOf[s] \in DOMAIN rows /\ rows[rowOf[s]].html
          BY DEF IInv, Recorded
        <4>4. RowsOf(url[s]) # {} => RowsOf(url[s])' # {}
          BY <1>2, <2>6
        <4>5. rowOf[s] \in DOMAIN rows => rowOf[s] \in DOMAIN rows' /\ rows'[rowOf[s]] = rows[rowOf[s]]
          BY <2>1, <2>3
        <4> QED BY <4>1, <4>2, <4>3, <4>4, <4>5
      <3>2. Len(rows) + 1 \in RowsOf(url[t])'
        BY <1>2, <2>1, <2>3 DEF RowsOf, NewRow
      <3>3. /\ step'[t] = to
            /\ to = "publish" => rowOf'[t] = Len(rows) + 1 /\ rows'[Len(rows) + 1].html
        BY <1>2, <2>1, <2>3 DEF NewRow
      <3>4. Len(rows) + 1 \in DOMAIN rows'
        BY <2>1, <2>3
      <3> QED BY <1>2, <3>1, <3>2, <3>3, <3>4 DEF Recorded
    <2>8. ParseHasPage'
      BY <1>2, <2>1, <2>3 DEF IInv, ParseHasPage
    <2>9. PageIsParsed'
      <3> SUFFICES ASSUME Untroubled, NEW i \in DOMAIN rows', rows'[i].html, i \notin parse
                   PROVE  \E s \in Task : rowOf'[s] = i /\ step'[s] = "publish"
        BY <1>2 DEF PageIsParsed, Untroubled
      <3>1. CASE i \in DOMAIN rows
        <4>1. PICK s \in Task : rowOf[s] = i /\ step[s] = "publish"
          BY <2>3, <3>1 DEF IInv, PageIsParsed
        <4>2. s # t
          BY <1>2, <4>1
        <4> QED BY <1>2, <2>1, <4>1, <4>2
      <3>2. CASE i = Len(rows) + 1
        <4>1. html
          BY <2>3, <3>2 DEF NewRow
        <4> QED BY <1>2, <2>1, <3>2, <4>1
      <3> QED BY <2>1, <2>3, <3>1, <3>2
    <2>10. Capped'
      BY <1>2 DEF IInv, Capped, Busy
    <2>11. Paced'
      BY <1>2, InsertPaced
    <2> QED BY <2>4, <2>5, <2>7, <2>8, <2>9, <2>10, <2>11 DEF IInv
  <1>3. CASE /\ UNCHANGED <<now, parse, queueVars, crashes>>
             /\ step[t] = "insert" /\ rows' = Append(rows, NewRow(t, TRUE))
             /\ step' = [step EXCEPT ![t] = "publish"]
             /\ rowOf' = [rowOf EXCEPT ![t] = Len(rows) + 1]
    BY <1>2, <1>3
  <1>4. CASE /\ UNCHANGED <<now, parse, queueVars, crashes, rowOf>>
             /\ step[t] = "insert4xx" /\ rows' = Append(rows, NewRow(t, FALSE))
             /\ step' = [step EXCEPT ![t] = "ack"]
    BY <1>2, <1>4
  <1> QED BY <1>1, <1>3, <1>4 DEF Insert, Insert4xx

LEMMA PublishHolds ==
  ASSUME IInv, NEW t \in Task, PublishParse(t)
  PROVE  IInv'
  <1>1. CASE Fail(t) /\ UNCHANGED <<now, rows, url, crashes>>
             /\ step[t] = "publish" /\ parse' \in {parse, parse \cup {rowOf[t]}}
    BY <1>1, FailHolds
  <1>2. CASE /\ UNCHANGED <<now, rows, queueVars, rowOf, crashes>>
             /\ step[t] = "publish" /\ parse' = parse \cup {rowOf[t]}
             /\ step' = [step EXCEPT ![t] = "ack"]
    <2> USE <1>2 DEF queueVars
    <2>1. /\ step \in [Task -> Step] /\ parse \subseteq DOMAIN rows
          /\ rowOf[t] \in DOMAIN rows /\ rows[rowOf[t]].html
      BY DEF IInv, TypeOK, Recorded
    <2>2. TypeOK'
      <3>1. step' \in [Task -> Step]
        BY <2>1 DEF Step
      <3> QED BY <2>1, <3>1 DEF IInv, TypeOK
    <2>3. Placed'
      BY <2>1 DEF IInv, Placed
    <2>4. Recorded'
      <3>1. \A u : RowsOf(u)' = RowsOf(u)
        BY DEF RowsOf
      <3> QED BY <2>1, <3>1 DEF IInv, Recorded
    <2>5. ParseHasPage'
      BY <2>1 DEF IInv, ParseHasPage
    <2>6. PageIsParsed'
      <3> SUFFICES ASSUME Untroubled, NEW i \in DOMAIN rows, rows[i].html, i \notin parse'
                   PROVE  \E s \in Task : rowOf[s] = i /\ step'[s] = "publish"
        BY DEF PageIsParsed, Untroubled
      <3>1. PICK s \in Task : rowOf[s] = i /\ step[s] = "publish"
        BY DEF IInv, PageIsParsed
      <3> QED BY <2>1, <3>1
    <2>7. Capped'
      BY DEF IInv, Capped, Busy
    <2>8. Paced'
      <3>1. \A u : InFlight(u)' \subseteq InFlight(u)
        BY <2>1 DEF InFlight
      <3> QED BY <3>1, PacedKept, RowsTyped DEF IInv
    <2> QED BY <2>2, <2>3, <2>4, <2>5, <2>6, <2>7, <2>8 DEF IInv
  <1> QED BY <1>1, <1>2 DEF PublishParse

LEMMA StepHolds ==
  ASSUME IInv, [Next]_vars
  PROVE  IInv'
  <1>1. CASE UNCHANGED vars
    <2> USE <1>1 DEF vars, queueVars
    <2>1. TypeOK' /\ Placed'
      BY DEF IInv, TypeOK, Placed
    <2>2. Capped'
      BY DEF IInv, Capped, Busy
    <2>3. Paced'
      <3>1. \A u : InFlight(u)' \subseteq InFlight(u)
        BY DEF InFlight
      <3> QED BY <3>1, PacedKept, RowsTyped DEF IInv
    <2> QED BY <2>1, <2>2, <2>3, QuietHolds DEF Untroubled
  <1>2. ASSUME NEW t \in Task, Submit(t) \/ Take(t) \/ Ack(t) \/ Expire(t)
        PROVE  IInv'
    BY <1>2, SubmitHolds, TakeHolds, AckHolds, ExpireHolds
  <1>3. ASSUME NEW t \in Task, Handle(t)
        PROVE  IInv'
    BY <1>3, GateHolds, InsertHolds, PublishHolds DEF Handle
  <1>4. CASE Tick \/ \E S \in SUBSET Task : Crash(S)
    BY <1>4, TickHolds, CrashHolds
  <1> QED BY <1>1, <1>2, <1>3, <1>4 DEF Next

THEOREM InvariantHolds == Spec => []IInv
  <1>1. IInv /\ [Next]_vars => IInv'
    BY StepHolds
  <1> QED BY InitHolds, <1>1, PTL DEF Spec

\* Type correctness of the fetch stage.
THEOREM TypeCorrect == Spec => []TypeOK
  <1>1. IInv => TypeOK
    BY DEF IInv
  <1> QED BY <1>1, InvariantHolds, PTL

\* A parse task names a row that is there and has a page.
THEOREM PageThere == Spec => []ParseHasPage
  <1>1. IInv => ParseHasPage
    BY DEF IInv
  <1> QED BY <1>1, InvariantHolds, PTL

\* No fetch task is acked without an answer on record.
THEOREM RecordHolds == Spec => []AckedIsRecorded
  <1>1. IInv => AckedIsRecorded
    BY DEF IInv, Recorded, AckedIsRecorded
  <1> QED BY <1>1, InvariantHolds, PTL

\* While nothing has failed, every page goes to the parser.
THEOREM PagesParsed == Spec => []PageIsParsed
  <1>1. IInv => PageIsParsed
    BY DEF IInv
  <1> QED BY <1>1, InvariantHolds, PTL

\* No window of MinRefetch has more rows of a URL than there are handlers,
\* through every retry and crash.
THEOREM WindowHolds == Spec => []OnePerWindow
  <1>1. IInv => OnePerWindow
    BY DEF IInv, Paced, Window, OnePerWindow
  <1> QED BY <1>1, InvariantHolds, PTL

=============================================================================
