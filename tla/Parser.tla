------------------------------- MODULE Parser -------------------------------
(***************************************************************************)
(* The parse stage: internal/parser/worker.go over the tables sellers,     *)
(* listings and listing_snapshots.  Each parse task names one stored page;  *)
(* the handler writes what the page says in one transaction and then asks   *)
(* for the seller to be enriched.  Several handlers run at once, and their  *)
(* transactions wait for each other's row locks.                            *)
(*                                                                         *)
(* A page with OLX's state says which listing it is and whose, whatever URL  *)
(* it was fetched from, and a content that stands for (title, status, price, *)
(* currency), and the seller's date of registration, which may be missing.  *)
(* Of any other page the title is taken, and its listing and seller are     *)
(* stubs named after the URL it was fetched from.  As in Fetcher a task that *)
(* fails comes back later, and one whose worker died at once.               *)
(***************************************************************************)
EXTENDS Integers, FiniteSets, Sequences

CONSTANTS
    OlxListing,     \* ids of OLX's listings,
    OlxSeller,      \* and of its sellers
    Url,            \* those of pages that are not OLX's
    Content,        \* what snapshotHash tells apart
    Date,           \* registration dates
    NoDate,         \* a page without one; NULL in the table
    NoRow,          \* no such row
    MaxPages,       \* bound on the pages fetched
    Slots,          \* handlers at a time: prefetch x workers
    Budget,         \* failures before a task is promoted
    MaxCrashes      \* bound on the crashes of one behaviour

ASSUME ParserAssumption ==
    /\ MaxPages \in Nat
    /\ Slots \in Nat \ {0}
    /\ Budget \in Nat \ {0}
    /\ MaxCrashes \in Nat
    /\ NoDate \notin Date

\* A page with OLX's state; one without it or with a literal that is cut off;
\* one whose state does not decode or lacks an id; and the row of an answer
\* without a page.
Page == [kind : {"olx"}, listing : OlxListing, seller : OlxSeller, content : Content,
         registered : Date \cup {NoDate}]
    \cup [kind : {"other"}, url : Url, content : Content]
    \cup [kind : {"broken", "none"}]

Stub(u) == <<"stub", u>>

Listing == {<<"olx", l>> : l \in OlxListing} \cup {Stub(u) : u \in Url}
Seller  == OlxSeller \cup {Stub(u) : u \in Url}

\* Is there anything to parse, and does Parse return a result?
HasHtml(p) == p.kind # "none"
Parses(p)  == p.kind \in {"olx", "other"}

fallbackParse(p) ==
    [listing |-> Stub(p.url), seller |-> Stub(p.url), content |-> p.content,
     registered |-> NoDate]

Parse(p) ==
    IF p.kind = "olx"
    THEN [listing |-> <<"olx", p.listing>>, seller |-> p.seller, content |-> p.content,
          registered |-> p.registered]
    ELSE fallbackParse(p)

ASSUME NoRowIsNoPage ==
    NoRow \notin Date \cup {NoDate} \cup [content : Content, seller : Seller]

VARIABLES
    pages,      \* fetch rows that a parse task names, in the order of their ids
    where,      \* fetch id |-> where its parse task is
    failures,   \* fetch id |-> the task's x-death count
    step,       \* fetch id |-> how far its handler is
    sellers,    \* seller |-> registered_at of its row, or NoRow
    listings,   \* listing |-> content and seller of its row, or NoRow
    snapshots,  \* rows (listing, raw_hash) of listing_snapshots
    enrich,     \* sellers named by the enrich tasks published so far
    crashes     \* crashes so far, at most MaxCrashes

tables    == <<sellers, listings, snapshots>>
queueVars == <<where, failures>>
vars      == <<pages, queueVars, step, tables, enrich, crashes>>

Id    == 1..MaxPages
Result(i) == Parse(pages[i])
Place == {"unpublished", "queued", "busy", "retry", "done", "dead"}

\* Between UpsertSeller and the commit the handler is at one of the three
\* middle steps.
Step  == {"idle", "seller", "listing", "snapshot", "commit", "publish", "ack"}

TypeOK ==
    /\ pages \in Seq(Page) /\ Len(pages) <= MaxPages
    /\ where \in [Id -> Place]
    /\ failures \in [Id -> 0..Budget]
    /\ step \in [Id -> Step]
    /\ sellers \in [Seller -> Date \cup {NoDate, NoRow}]
    /\ listings \in [Listing -> [content : Content, seller : Seller] \cup {NoRow}]
    /\ snapshots \subseteq Listing \X Content
    /\ enrich \subseteq Seller
    /\ crashes \in 0..MaxCrashes

Init ==
    /\ pages = <<>>
    /\ where = [i \in Id |-> "unpublished"]
    /\ failures = [i \in Id |-> 0]
    /\ step = [i \in Id |-> "idle"]
    /\ sellers = [s \in Seller |-> NoRow]
    /\ listings = [l \in Listing |-> NoRow]
    /\ snapshots = {}
    /\ enrich = {}
    /\ crashes = 0

-----------------------------------------------------------------------------
(* The queue.                                                              *)

\* The fetcher stores a page and publishes its parse task; the task of a row
\* without a page is published by hand.
Fetched(p) ==
    /\ Len(pages) < MaxPages
    /\ pages' = Append(pages, p)
    /\ where' = [where EXCEPT ![Len(pages) + 1] = "queued"]
    /\ UNCHANGED <<failures, step, tables, enrich, crashes>>

\* Mutant: a task is retried however often it failed.
TakeUnbounded(i) ==
    /\ where[i] = "queued"
    /\ Cardinality({j \in Id : where[j] = "busy"}) < Slots
    /\ where' = [where EXCEPT ![i] = "busy"]
    /\ step' = [step EXCEPT ![i] = "seller"]
    /\ UNCHANGED <<pages, failures, tables, enrich, crashes>>

\* The consumer takes a task; one whose budget is used up is promoted.  The
\* handler loads the fetch row, which never changes.
Take(i) ==
    /\ where[i] = "queued"
    /\ Cardinality({j \in Id : where[j] = "busy"}) < Slots
    /\ \/ /\ failures[i] < Budget
          /\ where' = [where EXCEPT ![i] = "busy"]
          /\ step' = [step EXCEPT ![i] = "seller"]
       \/ /\ failures[i] = Budget
          /\ where' = [where EXCEPT ![i] = "dead"]
          /\ UNCHANGED step
    /\ UNCHANGED <<pages, failures, tables, enrich, crashes>>

\* The handler returns an error at any call: a transaction that is open is
\* rolled back, and the task is parked.
Fail(i) ==
    /\ step[i] \in Step \ {"idle", "ack"}
    /\ where' = [where EXCEPT ![i] = "retry"]
    /\ failures' = [failures EXCEPT ![i] = @ + 1]
    /\ step' = [step EXCEPT ![i] = "idle"]
    /\ UNCHANGED <<pages, tables, enrich, crashes>>

Expire(i) ==
    /\ where[i] = "retry"
    /\ where' = [where EXCEPT ![i] = "queued"]
    /\ UNCHANGED <<pages, failures, step, tables, enrich, crashes>>

Ack(i) ==
    /\ step[i] = "ack"
    /\ where' = [where EXCEPT ![i] = "done"]
    /\ step' = [step EXCEPT ![i] = "idle"]
    /\ UNCHANGED <<pages, failures, tables, enrich, crashes>>

\* The worker dies with the tasks of S in hand.
Crash(S) ==
    /\ S # {} /\ \A i \in S : where[i] = "busy"
    /\ crashes < MaxCrashes
    /\ crashes' = crashes + 1
    /\ where' = [i \in Id |-> IF i \in S THEN "queued" ELSE where[i]]
    /\ step' = [i \in Id |-> IF i \in S THEN "idle" ELSE step[i]]
    /\ UNCHANGED <<pages, failures, tables, enrich>>

-----------------------------------------------------------------------------
(* Worker.Handle.                                                          *)

\* A transaction that has upserted a row keeps others out until it ends.
SellerLocked(i) ==
    \E j \in Id \ {i} : /\ step[j] \in {"listing", "snapshot", "commit"}
                        /\ Result(j).seller = Result(i).seller

ListingLocked(i) ==
    \E j \in Id \ {i} : /\ step[j] \in {"snapshot", "commit"}
                        /\ Result(j).listing = Result(i).listing

At(i, from, to) ==
    /\ step[i] = from
    /\ step' = [step EXCEPT ![i] = to]
    /\ UNCHANGED <<pages, queueVars, crashes>>

\* A row without html is acked, and nothing is done about it.
SkipWithoutHtml(i) ==
    /\ At(i, "seller", "ack")
    /\ ~HasHtml(pages[i])
    /\ UNCHANGED <<tables, enrich>>

\* Parse returns an error.
ParseFails(i) ==
    /\ step[i] = "seller"
    /\ HasHtml(pages[i]) /\ ~Parses(pages[i])
    /\ Fail(i)

\* Mutant: the enrich task is published inside the transaction.
UpsertSellerAndPublish(i) ==
    /\ At(i, "seller", "listing")
    /\ Parses(pages[i])
    /\ ~SellerLocked(i)
    /\ enrich' = enrich \cup {Result(i).seller}
    /\ UNCHANGED tables

\* The page parses; the three statements of the transaction take their locks one by one.
UpsertSeller(i) ==
    /\ At(i, "seller", "listing")
    /\ Parses(pages[i])
    /\ ~SellerLocked(i)
    /\ UNCHANGED <<tables, enrich>>

\* What the upsert leaves of a listing's row: all of it comes from this page.
UpsertedRow(page) == [content |-> page.content, seller |-> page.seller]

\* Mutant: the listing is written outside the transaction.
UpsertListingAutocommit(i) ==
    /\ At(i, "listing", "snapshot")
    /\ ~ListingLocked(i)
    /\ listings' = [listings EXCEPT ![Result(i).listing] = UpsertedRow(Result(i))]
    /\ UNCHANGED <<sellers, snapshots, enrich>>

\* Mutant: the statement locks the whole table, which every open transaction
\* has read.
UpsertListingLocksTable(i) ==
    /\ At(i, "listing", "snapshot")
    /\ \A j \in Id \ {i} : step[j] \notin {"listing", "snapshot", "commit"}
    /\ UNCHANGED <<tables, enrich>>

UpsertListing(i) ==
    /\ At(i, "listing", "snapshot")
    /\ ~ListingLocked(i)
    /\ UNCHANGED <<tables, enrich>>

InsertListingSnapshot(i) ==
    /\ At(i, "snapshot", "commit")
    /\ UNCHANGED <<tables, enrich>>

\* Mutant: the hash is over the seller's fields too.
snapshotHashWithSeller(page) == <<page.content, page.registered>>

\* raw_hash is over the fields the content stands for.
snapshotHash(page) == page.content

\* Mutant: COALESCE with its arguments swapped.
RegisteredSwapped(old, new) == IF new = NoDate /\ old # NoRow THEN old ELSE new

\* registered_at = COALESCE(sellers.registered_at, EXCLUDED.registered_at)
Registered(old, new) == IF old \in {NoRow, NoDate} THEN new ELSE old

\* The commit makes the three writes visible at once.
Commit(i) ==
    LET page == Result(i) IN
    /\ At(i, "commit", "publish")
    /\ sellers' = [sellers EXCEPT ![page.seller] = Registered(@, page.registered)]
    /\ listings' = [listings EXCEPT ![page.listing] = UpsertedRow(page)]
    /\ snapshots' = snapshots \cup {<<page.listing, snapshotHash(page)>>}
    /\ UNCHANGED enrich

\* Mutant: a failed publish is logged and the task acked.
PublishErrorIgnored(i) ==
    /\ At(i, "publish", "ack")
    /\ enrich' \in {enrich, enrich \cup {Result(i).seller}}
    /\ UNCHANGED tables

\* Publish the enrich task, confirmed.
PublishEnrich(i) ==
    /\ At(i, "publish", "ack")
    /\ enrich' = enrich \cup {Result(i).seller}
    /\ UNCHANGED tables

\* The broker has stored the enrich task but the publish returns an error.
PublishUnconfirmed(i) ==
    /\ step[i] = "publish"
    /\ enrich' = enrich \cup {Result(i).seller}
    /\ where' = [where EXCEPT ![i] = "retry"]
    /\ failures' = [failures EXCEPT ![i] = @ + 1]
    /\ step' = [step EXCEPT ![i] = "idle"]
    /\ UNCHANGED <<pages, tables, crashes>>

Handle(i) ==
    \/ SkipWithoutHtml(i)
    \/ ParseFails(i)
    \/ UpsertSeller(i)
    \/ UpsertListing(i)
    \/ InsertListingSnapshot(i)
    \/ Commit(i)
    \/ PublishEnrich(i)
    \/ PublishUnconfirmed(i)

\* Every page is parsed and no page is left to fetch.
Idle ==
    /\ Len(pages) = MaxPages
    /\ \A i \in Id : where[i] \in {"done", "dead"}
    /\ UNCHANGED vars

Next ==
    \/ \E p \in Page : Fetched(p)
    \/ \E i \in Id : Take(i) \/ Handle(i) \/ Fail(i) \/ Ack(i) \/ Expire(i)
    \/ \E S \in SUBSET Id : Crash(S)
    \/ Idle

\* The broker hands every task to a worker, expired ones again; a handler goes
\* on, and its answer arrives.  That any other call fails is never needed: the
\* handler that waits for a row lock must get it.
Fairness ==
    \A i \in Id : /\ WF_vars(Take(i))
                  /\ WF_vars(Handle(i))
                  /\ WF_vars(Ack(i))
                  /\ WF_vars(Expire(i))

Spec == Init /\ [][Next]_vars /\ Fairness

-----------------------------------------------------------------------------
\* Partial state never escapes (README 97-99): a listing has its seller and
\* the snapshot of its present content, and no snapshot is without a listing.
Whole ==
    /\ \A l \in Listing : listings[l] # NoRow =>
          /\ sellers[listings[l].seller] # NoRow
          /\ <<l, listings[l].content>> \in snapshots
    /\ \A r \in snapshots : listings[r[1]] # NoRow

\* An enrich task names a seller that is stored, so the enricher never drops
\* one as unknown (enrich.go 94-98): the publish follows the commit.
EnrichHasSeller == \A s \in enrich : sellers[s] # NoRow

\* The parse task of a page leaves the queue only when the page is stored and
\* the seller is to be enriched, whatever failed or died on the way.
AckedIsStored ==
    \A i \in Id : where[i] = "done" /\ HasHtml(pages[i]) =>
        /\ Parses(pages[i])
        /\ listings[Result(i).listing] # NoRow
        /\ <<Result(i).listing, Result(i).content>> \in snapshots
        /\ Result(i).seller \in enrich

\* Every parse task is acked or promoted in the end, so that again and again
\* none is left: transactions that wait for each other's rows never wait in a
\* circle, for each takes its seller before its listing (worker.go 84, 97), and
\* a page that never parses uses up its budget.
ParseSettles == []<>(\A i \in Id : where[i] \in {"unpublished", "done", "dead"})

\* A date of registration that was seen once is never lost or changed by a
\* later page (sellers.sql 8-10).
RegisteredKept ==
    [][\A s \in Seller : sellers[s] \in Date => sellers'[s] = sellers[s]]_vars

\* Parsing a page that says what the listing already says writes no snapshot
\* (listings.sql 60-61), also when the page is parsed again by a retry.
UnchangedIsNoSnapshot ==
    [][\A l \in Listing :
          /\ listings[l] # NoRow
          /\ listings'[l].content = listings[l].content
          => {r \in snapshots' : r[1] = l} \subseteq snapshots]_vars

(* What the documentation says of the code, and the code does not do.       *)

PagesOf(l) == {i \in DOMAIN pages : Parses(pages[i]) /\ Result(i).listing = l}

\* 0002_listing_html_fetches.sql 4-8: the parser uses the latest fetch.  So
\* when every page of a listing is parsed, the row says what the last one said.
NewestWins ==
    \A l \in Listing :
        /\ PagesOf(l) # {}
        /\ \A i \in PagesOf(l) : where[i] = "done"
        => \E i \in PagesOf(l) :
              /\ \A j \in PagesOf(l) : j <= i
              /\ listings[l].content = Result(i).content

\* worker.go 160-162: if any of the hashed fields changes, a new snapshot row
\* is created.
ChangeIsSnapshot ==
    [][\A l \in Listing :
          /\ listings[l] # NoRow
          /\ listings'[l].content # listings[l].content
          => \E c \in Content : <<l, c>> \in snapshots' \ snapshots]_vars
=============================================================================
