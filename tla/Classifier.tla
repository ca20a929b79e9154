----------------------------- MODULE Classifier -----------------------------
(***************************************************************************)
(* The classifier: the score of a seller (seller_classifications), the      *)
(* materialized view seller_stats it is computed from, its two refreshers,  *)
(* the API's ticker and cmd/classify -refresh, and the parser that writes   *)
(* the tables below all the time.                                           *)
(*                                                                         *)
(* A score is a whole number of hundredths.  An area stands for each of the *)
(* nullable text columns city, district and property_type.  What OLX says   *)
(* of a seller does not change during a behaviour.                          *)
(***************************************************************************)
EXTENDS Integers, FiniteSets, Sequences

CONSTANTS
    Seller, Listing, Area,
    PostedAge,      \* days since posted_at
    Accounts,       \* what OLX may say of the sellers
    Null,           \* the SQL value
    NoRow,          \* no such row
    MaxCommits,     \* bound on the parser's commits
    MaxFaults       \* bound on failed refreshes and crashes of the API

AccountAge == {"unknown", "new", "half a year", "two years"}
Account == [business : BOOLEAN, age : AccountAge]

ASSUME ClassifierAssumption ==
    /\ PostedAge \subseteq Nat
    /\ Accounts \subseteq [Seller -> Account]
    /\ MaxCommits \in Nat
    /\ MaxFaults \in Nat
    /\ IsFiniteSet(Listing)
    /\ Null \notin Area \cup PostedAge

VARIABLES
    account,    \* seller |-> what OLX says of it
    label,      \* seller |-> manual_label of its row, or NoRow
    listings,   \* listing |-> its row, or NoRow
    commits,    \* commits of the parser so far, at most MaxCommits
    view,       \* seller |-> its row of seller_stats, or NoRow
    viewAt,     \* the commits the view has seen
    refreshes,  \* REFRESH statements in the order of the view's lock: the first
                \* holds it, the others wait
    api,        \* is the API process up?
    ticking,    \* is its refresh goroutine running?
    classify,   \* how far a run of cmd/classify is
    since,      \* the commits there were when it was started with -refresh
    faults      \* faults so far, at most MaxFaults

tables      == <<account, label, listings, commits>>
viewVars    == <<view, viewAt>>
classifierVars ==
    <<tables, viewVars, refreshes, api, ticking, classify, since, faults>>

Label == {"owner", "agency"}
ListingRow == [seller : Seller, active : BOOLEAN, area : Area \cup {Null},
               posted : PostedAge \cup {Null}]
StatsRow == [active : Nat, districts : Nat]

\* What a statement has read when it began, and the commits it has seen; by is
\* who waits for its answer.
Refresh == [by : {"api", "classify", "nobody"}, stats : [Seller -> StatsRow \cup {NoRow}],
            at : 0..MaxCommits]

ASSUME ValuesAreDistinct ==
    /\ Null \notin Label
    /\ NoRow \notin Label \cup {Null} \cup StatsRow

ClassifierTypeOK ==
    /\ account \in [Seller -> Account]
    /\ label \in [Seller -> Label \cup {Null, NoRow}]
    /\ listings \in [Listing -> ListingRow \cup {NoRow}]
    /\ commits \in 0..MaxCommits
    /\ view \in [Seller -> StatsRow \cup {NoRow}]
    /\ viewAt \in 0..commits
    /\ refreshes \in Seq(Refresh)
    /\ \A i \in DOMAIN refreshes : refreshes[i].at <= commits
    /\ api \in BOOLEAN /\ ticking \in BOOLEAN
    /\ classify \in {"idle", "refresh", "query", "ranked", "failed"}
    /\ since \in 0..commits
    /\ faults \in 0..MaxFaults

Empty == [s \in Seller |-> NoRow]

ClassifierInit ==
    /\ account \in Accounts
    /\ label = Empty
    /\ listings = [l \in Listing |-> NoRow]
    /\ commits = 0
    /\ view = Empty /\ viewAt = 0
    /\ refreshes = <<>>
    /\ api = TRUE /\ ticking = TRUE
    /\ classify = "idle" /\ since = 0
    /\ faults = 0

-----------------------------------------------------------------------------
(* The score.                                                              *)

Personhood(business) == IF business THEN -50 ELSE 30

ListingsCount(n) ==
    IF n = 0 THEN 0
    ELSE IF n <= 2 THEN 30 ELSE IF n <= 5 THEN 15 ELSE IF n <= 10 THEN 5 ELSE 0

Geography(n) == IF n <= 1 THEN 20 ELSE IF n = 2 THEN 10 ELSE 0

AgeScore(age) ==
    IF age = "two years" THEN 20 ELSE IF age = "half a year" THEN 10 ELSE 0

ComponentSum(acc, stats) ==
    Personhood(acc.business) + ListingsCount(stats.active)
        + Geography(stats.districts) + AgeScore(acc.age)

\* The label decides; without one it is the sum, kept in its range.
RealSellerScore(lab, acc, stats) ==
    LET sum == ComponentSum(acc, stats) IN
    CASE lab = "owner" -> 100
      [] lab = "agency" -> 0
      [] OTHER -> IF sum < 0 THEN 0 ELSE IF sum > 100 THEN 100 ELSE sum

\* The sellers of seller_classifications: all, by the LEFT JOIN.
Classified == {s \in Seller : label[s] # NoRow}

Stats(s) == IF view[s] = NoRow THEN [active |-> 0, districts |-> 0] ELSE view[s]

ScoreOf(s) == RealSellerScore(label[s], account[s], Stats(s))

-----------------------------------------------------------------------------
(* The tables and the view.                                                *)

\* UpsertSeller leaves the label of a row alone; a new row has none.
LabelAfterUpsert(s) == IF label[s] = NoRow THEN Null ELSE label[s]

\* The parser's transaction on a page: every column is what the page says, a
\* posted_at that it does not say included.
Parse(l, r) ==
    /\ commits < MaxCommits
    /\ commits' = commits + 1
    /\ label' = [label EXCEPT ![r.seller] = LabelAfterUpsert(r.seller)]
    /\ listings' = [listings EXCEPT ![l] = r]
    /\ UNCHANGED <<account, viewVars, refreshes, api, ticking, classify, since, faults>>

ListingsOf(s) == {l \in Listing : listings[l] # NoRow /\ listings[l].seller = s}

\* What seller_stats selects.  A listing that is gone still counts for the
\* districts.
SellerStats ==
    [s \in Seller |->
        IF label[s] = NoRow THEN NoRow
        ELSE [active    |-> Cardinality({l \in ListingsOf(s) : listings[l].active}),
              districts |-> Cardinality({listings[l].area : l \in ListingsOf(s)} \ {Null})]]

\* REFRESH ... CONCURRENTLY takes its snapshot and asks for the lock of the
\* view, which is granted in the order of the requests.
RefreshBegin(r) ==
    /\ \A i \in DOMAIN refreshes : refreshes[i].by # r
    /\ r = "api" => api /\ ticking
    /\ r = "classify" => classify = "refresh"
    /\ refreshes' = Append(refreshes, [by |-> r, stats |-> SellerStats, at |-> commits])
    /\ UNCHANGED <<tables, viewVars, api, ticking, classify, since, faults>>

\* Mutant: a refresh that waits for no lock.
RefreshEndUnlocked ==
    \E i \in DOMAIN refreshes :
        /\ view' = refreshes[i].stats
        /\ viewAt' = refreshes[i].at
        /\ refreshes' = SubSeq(refreshes, 1, i - 1) \o SubSeq(refreshes, i + 1, Len(refreshes))
        /\ classify' = IF refreshes[i].by = "classify" THEN "query" ELSE classify
        /\ UNCHANGED <<tables, api, ticking, since, faults>>

\* The statement that holds the lock makes the view say what it has read.
RefreshEnd ==
    /\ refreshes # <<>>
    /\ view' = Head(refreshes).stats
    /\ viewAt' = Head(refreshes).at
    /\ refreshes' = Tail(refreshes)
    /\ classify' = IF Head(refreshes).by = "classify" THEN "query" ELSE classify
    /\ UNCHANGED <<tables, api, ticking, since, faults>>

\* A statement that nobody waits for any more is cancelled, if it has not ended.
RefreshCancelled ==
    /\ refreshes # <<>> /\ Head(refreshes).by = "nobody"
    /\ refreshes' = Tail(refreshes)
    /\ UNCHANGED <<tables, viewVars, api, ticking, classify, since, faults>>

Fault ==
    /\ faults < MaxFaults
    /\ faults' = faults + 1

Abandon(i) == refreshes' = [refreshes EXCEPT ![i].by = "nobody"]

\* Mutant: the goroutine returns on the first error.
RefreshFailsForGood(i) ==
    /\ refreshes[i].by # "nobody"
    /\ Fault
    /\ Abandon(i)
    /\ ticking' = (ticking /\ refreshes[i].by # "api")
    /\ classify' = IF refreshes[i].by = "classify" THEN "failed" ELSE classify
    /\ UNCHANGED <<tables, viewVars, api, since>>

\* Mutant: cmd/classify logs the error and goes on.
RefreshErrorIgnored(i) ==
    /\ refreshes[i].by # "nobody"
    /\ Fault
    /\ Abandon(i)
    /\ classify' = IF refreshes[i].by = "classify" THEN "query" ELSE classify
    /\ UNCHANGED <<tables, viewVars, api, ticking, since>>

\* A refresh fails, or runs into a deadline while it waits or computes: the
\* ticker goes on, cmd/classify exits.
RefreshFails(i) ==
    /\ refreshes[i].by # "nobody"
    /\ Fault
    /\ Abandon(i)
    /\ classify' = IF refreshes[i].by = "classify" THEN "failed" ELSE classify
    /\ UNCHANGED <<tables, viewVars, api, ticking, since>>

\* cmd/classify is started, with -refresh or without.
ClassifyStart(refresh) ==
    /\ classify = "idle"
    /\ classify' = IF refresh THEN "refresh" ELSE "query"
    /\ since' = IF refresh THEN commits ELSE 0
    /\ UNCHANGED <<tables, viewVars, refreshes, api, ticking, faults>>

\* TopRealSellers reads the scores, and so the view; since stays for as long
\* as this ranking is the one shown.
TopRealSellers ==
    /\ classify = "query"
    /\ classify' = "ranked"
    /\ UNCHANGED <<tables, viewVars, refreshes, api, ticking, since, faults>>

ClassifyExit ==
    /\ classify \in {"ranked", "failed"}
    /\ classify' = "idle"
    /\ since' = 0
    /\ UNCHANGED <<tables, viewVars, refreshes, api, ticking, faults>>

\* The API dies; the server may still end the refresh it has sent.
ApiCrash ==
    /\ api
    /\ Fault
    /\ api' = FALSE /\ ticking' = FALSE
    /\ \/ \E i \in DOMAIN refreshes : refreshes[i].by = "api" /\ Abandon(i)
       \/ /\ \A i \in DOMAIN refreshes : refreshes[i].by # "api"
          /\ UNCHANGED refreshes
    /\ UNCHANGED <<tables, viewVars, classify, since>>

\* docker-compose restarts it, and main starts the ticker.
ApiStart ==
    /\ ~api
    /\ api' = TRUE /\ ticking' = TRUE
    /\ UNCHANGED <<tables, viewVars, refreshes, classify, since, faults>>

ClassifierNext ==
    \/ \E l \in Listing, r \in ListingRow : Parse(l, r)
    \/ \E r \in {"api", "classify"} : RefreshBegin(r)
    \/ RefreshEnd
    \/ RefreshCancelled
    \/ \E i \in DOMAIN refreshes : RefreshFails(i)
    \/ \E refresh \in BOOLEAN : ClassifyStart(refresh)
    \/ TopRealSellers
    \/ ClassifyExit
    \/ ApiCrash

-----------------------------------------------------------------------------
\* A ranking made with -refresh has seen everything that was committed when
\* it was asked for (0004 9-11), whoever else refreshes the view meanwhile.
RankingIsCurrent == classify \in {"query", "ranked"} => viewAt >= since

\* The view never goes back behind a state it has shown, though two processes
\* refresh it, fail and are restarted, and no seller leaves the dashboard.
ViewNeverGoesBack ==
    [][/\ viewAt' >= viewAt
       /\ \A s \in Seller : view[s] # NoRow => view'[s] # NoRow]_classifierVars
=============================================================================
