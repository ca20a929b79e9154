----------------------------- MODULE ParserProofs ---------------------------
(***************************************************************************)
(* Theorems about Parser, for any pages, sellers, dates, handlers, budget   *)
(* and crashes.                                                             *)
(***************************************************************************)
EXTENDS Parser, TLAPS

LEMMA ConstantsTyped ==
    /\ MaxPages \in Nat /\ Budget \in Nat \ {0} /\ MaxCrashes \in Nat
    /\ NoDate \notin Date /\ NoRow \notin Date /\ NoRow # NoDate
    /\ NoRow \notin [content : Content, seller : Seller]
  BY ParserAssumption, NoRowIsNoPage

-----------------------------------------------------------------------------
(* The extraction.                                                         *)

\* Every page that parses says whose listing it is.
LEMMA ParseTyped ==
  ASSUME NEW p \in Page, Parses(p)
  PROVE  /\ Parse(p).listing \in Listing
         /\ Parse(p).seller \in Seller
         /\ Parse(p).content \in Content
         /\ Parse(p).registered \in Date \cup {NoDate}
  BY DEF Page, Parses, Parse, fallbackParse, Listing, Seller

\* What the upsert does to registered_at: the row is there, and a date that is
\* known stays.
LEMMA RegisteredIs ==
  ASSUME NEW old \in Date \cup {NoDate, NoRow}, NEW new \in Date \cup {NoDate}
  PROVE  /\ Registered(old, new) \in Date \cup {NoDate}
         /\ Registered(old, new) # NoRow
         /\ old \in Date => Registered(old, new) = old
  BY ConstantsTyped DEF Registered

-----------------------------------------------------------------------------
(* The invariant.                                                          *)

\* A task has a page, and a handler its task in hand and a delivery left.
Placed ==
    \A i \in Id :
        /\ where[i] # "unpublished" => i <= Len(pages)
        /\ step[i] # "idle" <=> where[i] = "busy"
        /\ where[i] = "busy" => failures[i] < Budget

\* A handler inside the transaction has a page that parses; one past the commit
\* has stored what the page says, and before its task is acked the seller is to
\* be enriched.  A row without html goes straight to the ack.
InTable(i) ==
    /\ sellers[Result(i).seller] # NoRow
    /\ listings[Result(i).listing] # NoRow
    /\ <<Result(i).listing, Result(i).content>> \in snapshots

Finished(i) == Parses(pages[i]) /\ InTable(i) /\ Result(i).seller \in enrich

StoredAt(i) ==
    /\ step[i] \in {"listing", "snapshot", "commit", "publish"} => Parses(pages[i])
    /\ step[i] = "publish" => InTable(i)
    /\ (step[i] = "ack" \/ where[i] = "done") /\ HasHtml(pages[i]) => Finished(i)

Stored == \A i \in Id : StoredAt(i)

IInv == TypeOK /\ Placed /\ Stored /\ Whole /\ EnrichHasSeller

LEMMA PagesTyped ==
  ASSUME TypeOK, Placed, NEW i \in Id, where[i] # "unpublished"
  PROVE  pages[i] \in Page /\ i \in DOMAIN pages /\ i \in 1..Len(pages)
  BY ConstantsTyped DEF TypeOK, Placed, Id

-----------------------------------------------------------------------------
(* One lemma per kind of step.                                             *)

LEMMA InitHolds == Init => IInv
  <1> SUFFICES ASSUME Init PROVE IInv
    OBVIOUS
  <1> USE ConstantsTyped DEF Init
  <1>1. TypeOK
    BY DEF TypeOK, Place, Step
  <1>2. Placed /\ Stored
    BY DEF Placed, Stored, StoredAt
  <1>3. Whole /\ EnrichHasSeller
    BY DEF Whole, EnrichHasSeller
  <1> QED BY <1>1, <1>2, <1>3 DEF IInv

LEMMA FetchedHolds ==
  ASSUME IInv, NEW p \in Page, Fetched(p)
  PROVE  IInv'
  <1> USE ConstantsTyped DEF IInv, Fetched, tables
  <1>1. /\ pages \in Seq(Page) /\ Len(pages) \in Nat
        /\ Len(pages) + 1 \in Id
        /\ pages' \in Seq(Page) /\ Len(pages') = Len(pages) + 1
        /\ \A i \in 1..Len(pages) : pages'[i] = pages[i]
    BY DEF TypeOK, Id
  <1>2. \A i \in 1..Len(pages) : Result(i)' = Result(i)
    BY <1>1 DEF Result
  <1>3. TypeOK'
    <2>1. where' \in [Id -> Place]
      BY <1>1 DEF TypeOK, Place
    <2> QED BY <1>1, <2>1 DEF TypeOK
  <1>4. Placed'
    <2>1. where[Len(pages) + 1] = "unpublished" /\ step[Len(pages) + 1] = "idle"
      BY <1>1 DEF Placed, TypeOK
    <2> QED BY <1>1, <2>1 DEF Placed, TypeOK, Id
  <1>5. Stored'
    <2> SUFFICES ASSUME NEW i \in Id, step[i] # "idle" \/ where'[i] = "done"
                 PROVE  StoredAt(i)'
      BY Zenon DEF Stored, StoredAt
    <2>1. where[i] # "unpublished" /\ (where'[i] = "done" => where[i] = "done")
      BY <1>1 DEF Placed, TypeOK
    <2>2. i \in 1..Len(pages) /\ pages'[i] = pages[i] /\ Result(i)' = Result(i)
      BY <1>1, <1>2, <2>1, PagesTyped
    <2> QED BY <2>1, <2>2 DEF Stored, StoredAt, Finished, InTable
  <1>6. Whole' /\ EnrichHasSeller'
    BY DEF Whole, EnrichHasSeller
  <1> QED BY <1>3, <1>4, <1>5, <1>6

\* Steps of the queue, and of a handler before its commit.
LEMMA QueueHolds ==
  ASSUME IInv, NEW i \in Id,
         \/ Take(i) \/ Fail(i) \/ Expire(i) \/ Ack(i)
         \/ SkipWithoutHtml(i) \/ UpsertSeller(i) \/ UpsertListing(i) \/ InsertListingSnapshot(i)
  PROVE  IInv'
  <1> USE ConstantsTyped DEF IInv
  <1>1. UNCHANGED <<pages, tables, enrich, crashes>>
    BY DEF Take, Fail, Expire, Ack, SkipWithoutHtml, UpsertSeller, UpsertListing,
           InsertListingSnapshot, At
  <1>2. \E p \in Place, n \in 0..Budget, st \in Step :
            /\ where' = [where EXCEPT ![i] = p]
            /\ failures' = [failures EXCEPT ![i] = n]
            /\ step' = [step EXCEPT ![i] = st]
            /\ where[i] # "unpublished" /\ p # "unpublished"
            /\ st # "idle" <=> p = "busy"
            /\ p = "busy" => n < Budget
            /\ st = "publish" => st = step[i]
            /\ st = "ack" /\ HasHtml(pages[i]) => st = step[i]
            /\ p = "done" => step[i] = "ack"
            /\ st \in {"listing", "snapshot", "commit"} => Parses(pages[i])
    <2> USE DEF Place, Step
    <2>1. /\ where \in [Id -> Place] /\ step \in [Id -> Step]
          /\ failures \in [Id -> 0..Budget]
          /\ step[i] # "idle" <=> where[i] = "busy"
          /\ where[i] = "busy" => failures[i] < Budget
          /\ step[i] \in {"listing", "snapshot", "commit"} => Parses(pages[i])
      BY DEF TypeOK, Placed, Stored, StoredAt
    <2> HIDE DEF IInv
    <2>2. CASE Take(i) \/ Expire(i)
      <3>1. /\ step = [step EXCEPT ![i] = step[i]]
            /\ failures = [failures EXCEPT ![i] = failures[i]]
            /\ failures[i] \in 0..Budget /\ (failures[i] < Budget \/ failures[i] = Budget)
        BY <2>1
      <3>2. CASE Take(i) /\ failures[i] < Budget
        <4>1. /\ where' = [where EXCEPT ![i] = "busy"]
              /\ step' = [step EXCEPT ![i] = "seller"]
              /\ failures' = [failures EXCEPT ![i] = failures[i]]
              /\ where[i] = "queued"
          BY <3>1, <3>2 DEF Take
        <4> QED BY <3>1, <3>2, <4>1
      <3>3. CASE Take(i) /\ failures[i] = Budget
        <4>1. /\ where' = [where EXCEPT ![i] = "dead"]
              /\ step' = [step EXCEPT ![i] = step[i]]
              /\ failures' = [failures EXCEPT ![i] = failures[i]]
              /\ where[i] = "queued"
          BY <3>1, <3>3 DEF Take
        <4>2. step[i] = "idle"
          BY <2>1, <4>1
        <4> QED BY <3>1, <4>1, <4>2
      <3>4. CASE Expire(i)
        BY <2>1, <3>1, <3>4 DEF Expire
      <3> QED BY <2>2, <3>1, <3>2, <3>3, <3>4
    <2>3. CASE Fail(i)
      <3>1. failures[i] + 1 \in 0..Budget
        <4>1. failures[i] \in 0..Budget /\ failures[i] < Budget
          BY <2>1, <2>3 DEF Fail
        <4> QED BY <4>1
      <3>2. /\ where' = [where EXCEPT ![i] = "retry"]
            /\ step' = [step EXCEPT ![i] = "idle"]
            /\ failures' = [failures EXCEPT ![i] = failures[i] + 1]
            /\ where[i] = "busy"
        BY <2>1, <2>3 DEF Fail
      <3> QED BY <3>1, <3>2
    <2>4. CASE Ack(i)
      BY <2>1, <2>4 DEF Ack
    <2>5. CASE SkipWithoutHtml(i) \/ UpsertSeller(i) \/ UpsertListing(i)
                   \/ InsertListingSnapshot(i)
      BY <2>1, <2>5 DEF SkipWithoutHtml, UpsertSeller, UpsertListing, InsertListingSnapshot,
                        At, queueVars
    <2> QED BY <2>2, <2>3, <2>4, <2>5
  <1>3. PICK p \in Place, n \in 0..Budget, st \in Step :
            /\ where' = [where EXCEPT ![i] = p]
            /\ failures' = [failures EXCEPT ![i] = n]
            /\ step' = [step EXCEPT ![i] = st]
            /\ where[i] # "unpublished" /\ p # "unpublished"
            /\ st # "idle" <=> p = "busy"
            /\ p = "busy" => n < Budget
            /\ st = "publish" => st = step[i]
            /\ st = "ack" /\ HasHtml(pages[i]) => st = step[i]
            /\ p = "done" => step[i] = "ack"
            /\ st \in {"listing", "snapshot", "commit"} => Parses(pages[i])
    BY <1>2, Zenon
  <1>4. TypeOK'
    BY <1>1, <1>3 DEF TypeOK, tables
  <1>5. Placed'
    BY <1>1, <1>3 DEF Placed, TypeOK
  <1>6. Stored'
    <2> SUFFICES ASSUME NEW j \in Id
                 PROVE  StoredAt(j)'
      BY Zenon DEF Stored
    <2>1. /\ pages' = pages /\ Result(j)' = Result(j)
          /\ InTable(j)' = InTable(j) /\ Finished(j)' = Finished(j)
      BY <1>1 DEF Finished, InTable, Result, tables
    <2>2. CASE j = i
      <3>1. where'[j] = p /\ step'[j] = st
        BY <1>3, <2>2 DEF TypeOK
      <3> QED BY <1>3, <2>1, <2>2, <3>1 DEF Stored, StoredAt
    <2>3. CASE j # i
      <3>1. where'[j] = where[j] /\ step'[j] = step[j]
        BY <1>3, <2>3 DEF TypeOK
      <3> QED BY <2>1, <3>1 DEF Stored, StoredAt
    <2> QED BY <2>2, <2>3
  <1>7. Whole' /\ EnrichHasSeller'
    BY <1>1 DEF Whole, EnrichHasSeller, Result, tables
  <1> QED BY <1>4, <1>5, <1>6, <1>7

LEMMA CrashHolds ==
  ASSUME IInv, NEW S \in SUBSET Id, Crash(S)
  PROVE  IInv'
  <1> USE ConstantsTyped DEF IInv, Crash, tables
  <1>1. TypeOK'
    BY DEF TypeOK, Place, Step
  <1>2. Placed'
    BY DEF Placed, TypeOK
  <1>3. \A j \in Id : /\ where'[j] = "done" => where[j] = "done"
                      /\ step'[j] # "idle" => step'[j] = step[j]
    BY DEF TypeOK
  <1>4. Stored'
    <2>1. \A j \in Id : InTable(j)' = InTable(j) /\ Finished(j)' = Finished(j)
      BY Zenon DEF Finished, InTable, Result
    <2> QED BY <1>3, <2>1 DEF Stored, StoredAt
  <1>5. Whole' /\ EnrichHasSeller'
    BY DEF Whole, EnrichHasSeller, Result
  <1> QED BY <1>1, <1>2, <1>4, <1>5

\* The commit: what it says of the tables, and that it keeps the invariant.
LEMMA CommitWrites ==
  ASSUME IInv, NEW i \in Id, Commit(i)
  PROVE  /\ Parses(pages[i]) /\ pages[i] \in Page /\ i \in DOMAIN pages
         /\ Result(i).listing \in Listing /\ Result(i).seller \in Seller
         /\ Result(i).content \in Content /\ Result(i).registered \in Date \cup {NoDate}
         /\ sellers' = [sellers EXCEPT ![Result(i).seller] = Registered(@, Result(i).registered)]
         /\ listings' = [listings EXCEPT ![Result(i).listing] =
                            [content |-> Result(i).content, seller |-> Result(i).seller]]
         /\ snapshots' = snapshots \cup {<<Result(i).listing, Result(i).content>>}
  <1>1. step[i] = "commit"
    BY DEF Commit, At
  <1>2. Parses(pages[i]) /\ where[i] # "unpublished"
    BY <1>1 DEF IInv, Stored, StoredAt, Placed
  <1>3. pages[i] \in Page /\ i \in DOMAIN pages
    BY <1>2, PagesTyped DEF IInv
  <1>4. /\ Result(i).listing \in Listing /\ Result(i).seller \in Seller
        /\ Result(i).content \in Content /\ Result(i).registered \in Date \cup {NoDate}
    BY <1>2, <1>3, ParseTyped DEF Result
  <1> QED BY <1>2, <1>3, <1>4, Zenon DEF Commit, UpsertedRow, snapshotHash

LEMMA CommitHolds ==
  ASSUME IInv, NEW i \in Id, Commit(i)
  PROVE  IInv'
  <1> DEFINE l == Result(i).listing
             s == Result(i).seller
             c == Result(i).content
  <1>1. /\ Parses(pages[i]) /\ i \in DOMAIN pages
        /\ l \in Listing /\ s \in Seller /\ c \in Content
        /\ listings' = [listings EXCEPT ![l] = [content |-> c, seller |-> s]]
        /\ snapshots' = snapshots \cup {<<l, c>>}
    BY CommitWrites
  <1>2. /\ sellers \in [Seller -> Date \cup {NoDate, NoRow}]
        /\ listings \in [Listing -> [content : Content, seller : Seller] \cup {NoRow}]
        /\ where \in [Id -> Place] /\ step \in [Id -> Step]
    BY DEF IInv, TypeOK
  <1>3. /\ UNCHANGED <<pages, where, failures, enrich, crashes>>
        /\ step[i] = "commit" /\ step' = [step EXCEPT ![i] = "publish"]
    BY DEF Commit, At, queueVars
  <1>4. /\ sellers' \in [Seller -> Date \cup {NoDate, NoRow}]
        /\ sellers'[s] # NoRow
        /\ \A q \in Seller : sellers[q] # NoRow => sellers'[q] # NoRow
    <2>1. /\ sellers' = [sellers EXCEPT ![s] = Registered(@, Result(i).registered)]
          /\ Result(i).registered \in Date \cup {NoDate}
      BY CommitWrites
    <2>2. /\ Registered(sellers[s], Result(i).registered) \in Date \cup {NoDate}
          /\ Registered(sellers[s], Result(i).registered) # NoRow
      BY <1>1, <1>2, <2>1, RegisteredIs
    <2> HIDE DEF s
    <2> QED BY <1>1, <1>2, <2>1, <2>2
  <1>5. \A j \in Id : Result(j)' = Result(j)
    BY <1>3 DEF Result
  <1> HIDE DEF l, s, c
  <1>6. /\ listings' \in [Listing -> [content : Content, seller : Seller] \cup {NoRow}]
        /\ listings'[l] # NoRow
        /\ \A k \in Listing : listings[k] # NoRow => listings'[k] # NoRow
    BY <1>1, <1>2, ConstantsTyped
  <1>7. TypeOK'
    <2>1. snapshots' \subseteq Listing \X Content
      BY <1>1 DEF IInv, TypeOK
    <2>2. step' \in [Id -> Step]
      BY <1>2, <1>3 DEF Step
    <2> QED BY <1>3, <1>4, <1>6, <2>1, <2>2 DEF IInv, TypeOK
  <1>8. Placed'
    BY <1>2, <1>3 DEF IInv, Placed
  <1>9. Stored'
    <2> SUFFICES ASSUME NEW j \in Id
                 PROVE  StoredAt(j)'
      BY Zenon DEF Stored
    <2>1. CASE j = i
      <3>1. InTable(i)'
        BY <1>1, <1>4, <1>5, <1>6 DEF InTable, l, s, c
      <3>2. where[i] = "busy"
        BY <1>3 DEF IInv, Placed
      <3> QED BY <1>1, <1>2, <1>3, <2>1, <3>1, <3>2 DEF StoredAt
    <2>2. CASE j # i
      <3>1. step'[j] = step[j]
        BY <1>2, <1>3, <2>2
      <3>2. ASSUME InTable(j), Parses(pages[j]), where[j] # "unpublished"
            PROVE  InTable(j)'
        <4>1. Result(j).listing \in Listing /\ Result(j).seller \in Seller
          BY <3>2, PagesTyped, ParseTyped DEF IInv, Result
        <4> QED BY <1>1, <1>4, <1>5, <1>6, <3>2, <4>1 DEF InTable
      <3>3. step[j] \in {"publish", "ack"} => where[j] = "busy"
        BY DEF IInv, Placed
      <3>4. Stored /\ Result(j)' = Result(j)
        BY <1>5 DEF IInv
      <3> QED BY <1>3, <3>1, <3>2, <3>3, <3>4 DEF Stored, StoredAt, Finished
    <2> QED BY <2>1, <2>2
  <1>10. Whole'
    <2>1. \A k \in Listing : k # l => listings'[k] = listings[k]
      BY <1>2, <1>1
    <2>2. listings'[l] = [content |-> c, seller |-> s]
      BY <1>1, <1>2
    <2>3. ASSUME NEW k \in Listing, listings'[k] # NoRow
          PROVE  sellers'[listings'[k].seller] # NoRow /\ <<k, listings'[k].content>> \in snapshots'
      <3>1. CASE k = l
        BY <1>1, <1>4, <2>2, <3>1
      <3>2. CASE k # l
        <4>1. listings'[k] = listings[k] /\ listings[k].seller \in Seller
          BY <1>2, <2>1, <2>3, <3>2
        <4>2. sellers[listings[k].seller] # NoRow /\ <<k, listings[k].content>> \in snapshots
          BY <2>3, <4>1 DEF IInv, Whole
        <4> QED BY <1>1, <1>4, <4>1, <4>2
      <3> QED BY <3>1, <3>2
    <2>4. ASSUME NEW r \in snapshots'
          PROVE  listings'[r[1]] # NoRow
      <3>1. CASE r \in snapshots
        <4>1. r[1] \in Listing /\ listings[r[1]] # NoRow
          BY <3>1 DEF IInv, TypeOK, Whole
        <4> QED BY <1>6, <4>1
      <3>2. CASE r \notin snapshots
        <4>1. r[1] = l
          BY <1>1, <3>2
        <4> QED BY <1>6, <4>1
      <3> QED BY <3>1, <3>2
    <2> QED BY <2>3, <2>4 DEF Whole
  <1>11. EnrichHasSeller'
    BY <1>3, <1>4 DEF IInv, TypeOK, EnrichHasSeller
  <1> QED BY <1>7, <1>8, <1>9, <1>10, <1>11 DEF IInv

LEMMA PublishHolds ==
  ASSUME IInv, NEW i \in Id, PublishEnrich(i) \/ PublishUnconfirmed(i)
  PROVE  IInv'
  <1>1. /\ UNCHANGED <<pages, tables, crashes>>
        /\ step[i] = "publish"
        /\ enrich' = enrich \cup {Result(i).seller}
    BY DEF PublishEnrich, PublishUnconfirmed, At, tables
  <1>2. /\ where \in [Id -> Place] /\ step \in [Id -> Step] /\ failures \in [Id -> 0..Budget]
        /\ where[i] = "busy" /\ failures[i] < Budget
        /\ Parses(pages[i]) /\ InTable(i)
    BY <1>1 DEF IInv, TypeOK, Placed, Stored, StoredAt
  <1>3. Result(i).seller \in Seller
    BY <1>2, PagesTyped, ParseTyped DEF IInv, Result
  <1>4. \/ /\ where' = where /\ failures' = failures
           /\ step' = [step EXCEPT ![i] = "ack"]
        \/ /\ where' = [where EXCEPT ![i] = "retry"]
           /\ failures' = [failures EXCEPT ![i] = @ + 1]
           /\ step' = [step EXCEPT ![i] = "idle"]
    BY DEF PublishEnrich, PublishUnconfirmed, At, queueVars
  <1>5. TypeOK'
    <2>1. where' \in [Id -> Place] /\ step' \in [Id -> Step]
      BY <1>2, <1>4 DEF Place, Step
    <2>2. failures' \in [Id -> 0..Budget]
      <3>1. failures[i] + 1 \in 0..Budget
        BY <1>2, ConstantsTyped
      <3> QED BY <1>2, <1>4, <3>1
    <2> QED BY <1>1, <1>3, <2>1, <2>2 DEF IInv, TypeOK, tables
  <1>6. Placed'
    BY <1>1, <1>2, <1>4 DEF IInv, Placed
  <1>7. Stored'
    <2> SUFFICES ASSUME NEW j \in Id
                 PROVE  StoredAt(j)'
      BY Zenon DEF Stored
    <2>1. /\ pages' = pages /\ InTable(j)' = InTable(j)
          /\ Result(i).seller \in enrich'
          /\ Finished(j) => Finished(j)'
      BY <1>1 DEF Finished, InTable, Result, tables
    <2>2. CASE j = i
      BY <1>1, <1>2, <1>4, <2>1, <2>2 DEF StoredAt, Finished, Result
    <2>3. CASE j # i
      <3>1. step'[j] = step[j] /\ where'[j] = where[j]
        BY <1>2, <1>4, <2>3
      <3> QED BY <2>1, <3>1 DEF IInv, Stored, StoredAt
    <2> QED BY <2>2, <2>3
  <1>8. Whole'
    BY <1>1 DEF IInv, Whole, Result, tables
  <1>9. EnrichHasSeller'
    BY <1>1, <1>2 DEF IInv, EnrichHasSeller, InTable, tables
  <1> QED BY <1>5, <1>6, <1>7, <1>8, <1>9 DEF IInv

LEMMA StutterHolds ==
  ASSUME IInv, UNCHANGED vars
  PROVE  IInv'
  BY DEF IInv, TypeOK, Placed, Stored, StoredAt, Finished, InTable, Whole, EnrichHasSeller, Result,
         vars, queueVars, tables

\* Only a commit changes the tables.
LEMMA StepHolds ==
  ASSUME IInv, [Next]_vars
  PROVE  IInv' /\ (UNCHANGED tables \/ \E i \in Id : Commit(i))
  <1>1. CASE UNCHANGED vars
    BY <1>1, StutterHolds DEF vars
  <1>2. ASSUME NEW p \in Page, Fetched(p)
        PROVE  IInv' /\ UNCHANGED tables
    BY <1>2, FetchedHolds DEF Fetched
  <1>3. ASSUME NEW i \in Id,
               \/ Take(i) \/ Fail(i) \/ Expire(i) \/ Ack(i)
               \/ SkipWithoutHtml(i) \/ ParseFails(i)
               \/ UpsertSeller(i) \/ UpsertListing(i) \/ InsertListingSnapshot(i)
        PROVE  IInv' /\ UNCHANGED tables
    BY <1>3, QueueHolds
       DEF Take, Fail, Expire, Ack, SkipWithoutHtml, ParseFails, UpsertSeller,
           UpsertListing, InsertListingSnapshot
  <1>4. ASSUME NEW i \in Id, Commit(i)
        PROVE  IInv'
    BY <1>4, CommitHolds
  <1>5. ASSUME NEW i \in Id, PublishEnrich(i) \/ PublishUnconfirmed(i)
        PROVE  IInv' /\ UNCHANGED tables
    BY <1>5, PublishHolds DEF PublishEnrich, PublishUnconfirmed
  <1>6. ASSUME NEW S \in SUBSET Id, Crash(S)
        PROVE  IInv' /\ UNCHANGED tables
    BY <1>6, CrashHolds DEF Crash
  <1> QED BY <1>1, <1>2, <1>3, <1>4, <1>5, <1>6, Zenon DEF Next, Handle, Idle

THEOREM InvariantHolds == Spec => []IInv
  <1>1. IInv /\ [Next]_vars => IInv'
    BY StepHolds
  <1> QED BY InitHolds, <1>1, PTL DEF Spec

\* Type correctness of the parse stage.
THEOREM TypeCorrect == Spec => []TypeOK
  <1>1. IInv => TypeOK
    BY DEF IInv
  <1> QED BY <1>1, InvariantHolds, PTL

\* Partial state never escapes the transaction.
THEOREM WholeHolds == Spec => []Whole
  <1>1. IInv => Whole
    BY DEF IInv
  <1> QED BY <1>1, InvariantHolds, PTL

\* An enrich task names a seller that is stored.
THEOREM EnrichHolds == Spec => []EnrichHasSeller
  <1>1. IInv => EnrichHasSeller
    BY DEF IInv
  <1> QED BY <1>1, InvariantHolds, PTL

\* No parse task is acked before its page is stored and its seller queued.
THEOREM AckHolds == Spec => []AckedIsStored
  <1>1. IInv => AckedIsStored
    BY DEF IInv, Stored, StoredAt, Finished, InTable, AckedIsStored
  <1> QED BY <1>1, InvariantHolds, PTL

\* A date of registration that was seen once stays.
THEOREM RegisteredHolds == Spec => RegisteredKept
  <1>1. IInv /\ [Next]_vars =>
            [\A s \in Seller : sellers[s] \in Date => sellers'[s] = sellers[s]]_vars
    <2> SUFFICES ASSUME IInv, [Next]_vars, NEW s \in Seller, sellers[s] \in Date
                 PROVE  sellers'[s] = sellers[s]
      OBVIOUS
    <2>1. CASE UNCHANGED tables
      BY <2>1 DEF tables
    <2>2. ASSUME NEW i \in Id, Commit(i)
          PROVE  sellers'[s] = sellers[s]
      <3>1. /\ sellers' = [sellers EXCEPT ![Result(i).seller] =
                              Registered(@, Result(i).registered)]
            /\ Result(i).registered \in Date \cup {NoDate}
        BY <2>2, CommitWrites
      <3>2. Registered(sellers[s], Result(i).registered) = sellers[s]
        BY <3>1, RegisteredIs
      <3>3. sellers \in [Seller -> Date \cup {NoDate, NoRow}]
        BY DEF IInv, TypeOK
      <3> QED BY <3>1, <3>2, <3>3
    <2> QED BY <2>1, <2>2, StepHolds
  <1> QED BY <1>1, InvariantHolds, PTL DEF Spec, RegisteredKept

\* A page that says what the listing already says adds nothing to its history,
\* for the present content is in it.
THEOREM SnapshotHolds == Spec => UnchangedIsNoSnapshot
  <1>1. IInv /\ [Next]_vars =>
            [\A l \in Listing :
                /\ listings[l] # NoRow
                /\ listings'[l].content = listings[l].content
                => {r \in snapshots' : r[1] = l} \subseteq snapshots]_vars
    <2> SUFFICES ASSUME IInv, [Next]_vars, NEW l \in Listing, listings[l] # NoRow,
                        listings'[l].content = listings[l].content,
                        NEW r \in snapshots', r[1] = l
                 PROVE  r \in snapshots
      OBVIOUS
    <2>1. CASE UNCHANGED tables
      BY <2>1 DEF tables
    <2>2. ASSUME NEW i \in Id, Commit(i), r \notin snapshots
          PROVE  FALSE
      <3>1. /\ listings' = [listings EXCEPT ![Result(i).listing] =
                               [content |-> Result(i).content, seller |-> Result(i).seller]]
            /\ snapshots' = snapshots \cup {<<Result(i).listing, Result(i).content>>}
        BY <2>2, CommitWrites
      <3>2. r = <<Result(i).listing, Result(i).content>> /\ Result(i).listing = l
        BY <2>2, <3>1
      <3>3. DOMAIN listings = Listing /\ <<l, listings[l].content>> \in snapshots
        BY DEF IInv, TypeOK, Whole
      <3>4. listings'[l].content = Result(i).content
        BY <3>1, <3>2, <3>3
      <3> QED BY <2>2, <3>2, <3>3, <3>4
    <2> QED BY <2>1, <2>2, StepHolds
  <1> QED BY <1>1, InvariantHolds, PTL DEF Spec, UnchangedIsNoSnapshot

=============================================================================
