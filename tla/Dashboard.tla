----------------------------- MODULE Dashboard ------------------------------
(***************************************************************************)
(* The HTTP API (internal/api/server.go) over the classifier: the listings   *)
(* it shows, and the labels an operator sets.  A request that reads is an   *)
(* operator on the tables, since it is one query; the crawls a user asks    *)
(* for are in Discovery.                                                    *)
(***************************************************************************)
EXTENDS Classifier

CONSTANT
    MaxLimit    \* the cap on the rows of a page

ASSUME DashboardAssumption == MaxLimit \in Nat

vars == classifierVars

TypeOK == ClassifierTypeOK

Init == ClassifierInit

-----------------------------------------------------------------------------
(* Reading.                                                                *)

\* listings_with_classification.
ClassifiedListings ==
    {l \in Listing : /\ listings[l] # NoRow
                     /\ listings[l].active
                     /\ listings[l].seller \in Classified}

\* The rows that ListListingsForAPI selects; Null is a filter left empty.  A
\* row without posted_at is never recent.
Rows(maxAgeDays, minScore, area) ==
    {l \in ClassifiedListings :
        /\ listings[l].posted # Null /\ listings[l].posted <= maxAgeDays
        /\ ScoreOf(listings[l].seller) >= minScore
        /\ area = Null \/ listings[l].area = area}

\* Mutant: the newest rows first.
BeforeByAge(l, m) == listings[l].posted < listings[m].posted

\* ORDER BY real_seller_score DESC, posted_at DESC
Before(l, m) ==
    LET scoreL == ScoreOf(listings[l].seller)
        scoreM == ScoreOf(listings[m].seller)
    IN  \/ scoreL > scoreM
        \/ scoreL = scoreM /\ listings[l].posted < listings[m].posted

\* What ListListingsForAPI may return: with a LIMIT, rows than which no other
\* row comes before.
ListListings(maxAgeDays, minScore, area, limit) ==
    LET rows == Rows(maxAgeDays, minScore, area) IN
    {page \in SUBSET rows :
        /\ Cardinality(page) = IF Cardinality(rows) < limit THEN Cardinality(rows) ELSE limit
        /\ \A l \in rows \ page, m \in page : ~Before(l, m)}

\* What listings asks for when the query string gives but a limit and an area.
DefaultMaxAgeDays == 30
DefaultMinScore   == 0
Capped(limit)     == IF limit > MaxLimit THEN MaxLimit ELSE limit

Pages(area, limit) ==
    ListListings(DefaultMaxAgeDays, DefaultMinScore, area, Capped(limit))

-----------------------------------------------------------------------------
(* Writing.                                                                *)

\* Everything but the labels.
Unaffected == UNCHANGED <<account, listings, commits, viewVars, refreshes,
                          api, ticking, classify, since, faults>>

\* Mutant: no CHECK on the column.
LabelSellerUnchecked(s, lab) ==
    /\ api
    /\ label[s] # NoRow
    /\ label' = [label EXCEPT ![s] = lab]
    /\ Unaffected

\* PATCH label, whose UPDATE is committed: a row matches, and the CHECK of the
\* column allows the text (an empty one clears the label).  Any other request
\* changes nothing.  The answer is no state: it may be 500 though the UPDATE is
\* committed, when the reply of the database is lost, and it is 200 though
\* nothing is changed, when the seller is not stored.
LabelSeller(s, lab) ==
    /\ api
    /\ label[s] # NoRow
    /\ lab \in Label \cup {Null}
    /\ label' = [label EXCEPT ![s] = lab]
    /\ Unaffected

Next ==
    \/ ClassifierNext
    \/ \E s \in Seller, lab \in Label \cup {Null, "other"} : LabelSeller(s, lab)
    \/ ApiStart

\* The process is restarted, its ticker ticks, and the refresh that holds the
\* lock ends; the others wait in line, so the API's has its turn though
\* cmd/classify may be run again and again.
Fairness ==
    /\ WF_vars(ApiStart)
    /\ WF_vars(RefreshBegin("api"))
    /\ WF_vars(RefreshEnd)

Spec == Init /\ [][Next]_vars /\ Fairness

-----------------------------------------------------------------------------
\* Does the dashboard take the seller for a private one?
ByOwner(s) ==
    \/ label[s] = "owner"
    \/ label[s] = Null /\ ~account[s].business

Recent(l) ==
    /\ listings[l] # NoRow /\ listings[l].active
    /\ listings[l].posted \in {d \in PostedAge : d <= DefaultMaxAgeDays}

\* As soon as its parse has committed, a recent listing is left out only of a
\* page that is full, and one of a private seller only of a page without any of
\* a business seller: the order of the query cuts agencies off first, though the
\* view its scores are computed from may be stale or say nothing of the seller,
\* and labels come and go (README 81-84; classifier.sql.go 191-192).
OwnersComeFirst ==
    \A area \in Area \cup {Null}, limit \in 0..MaxLimit + 1 :
        \A page \in Pages(area, limit), l \in Listing :
            /\ Recent(l) /\ l \notin page
            /\ area \in {Null, listings[l].area}
            => /\ Cardinality(page) = Capped(limit)
               /\ ByOwner(listings[l].seller) =>
                     \A m \in page : ByOwner(listings[m].seller)

\* The dashboard catches up (server.go 33-34): when the parser stops, the view
\* comes to say what the tables say, whatever refresh failed before.
StatsCatchUp == <>[](view = SellerStats)
=============================================================================
