--------------------------- MODULE DashboardProofs --------------------------
(***************************************************************************)
(* Theorems about Dashboard and the score of Classifier, for any sellers,   *)
(* listings, areas, ages and bounds.                                        *)
(***************************************************************************)
EXTENDS Dashboard, FiniteSetTheorems, TLAPS

LEMMA ConstantsTyped ==
    /\ PostedAge \subseteq Nat
    /\ MaxCommits \in Nat
    /\ MaxFaults \in Nat
    /\ IsFiniteSet(Listing)
    /\ Accounts \subseteq [Seller -> Account]
    /\ MaxLimit \in Nat
    /\ Null \notin Label /\ NoRow \notin Label /\ NoRow # Null /\ NoRow \notin StatsRow
  BY ClassifierAssumption, ValuesAreDistinct, DashboardAssumption

-----------------------------------------------------------------------------
(* The score.                                                              *)

\* More listings never add to the component, from the first one on.
LEMMA ListingsCountIs ==
  ASSUME NEW m \in Nat, NEW n \in Nat
  PROVE  /\ ListingsCount(n) \in 0..30
         /\ m \in 1..n => ListingsCount(n) <= ListingsCount(m)
  BY DEF ListingsCount

\* Nor do more districts.
LEMMA GeographyIs ==
  ASSUME NEW m \in Nat, NEW n \in Nat
  PROVE  /\ Geography(n) \in 0..20
         /\ m <= n => Geography(n) <= Geography(m)
  BY DEF Geography

LEMMA AgeScoreIs ==
  ASSUME NEW age
  PROVE  AgeScore(age) \in 0..20
  BY DEF AgeScore

\* The sum of a private account is a score as it is, and more than the sum of
\* any business account.
LEMMA SumIs ==
  ASSUME NEW acc \in Account, NEW st \in StatsRow
  PROVE  /\ ComponentSum(acc, st) \in Int
         /\ ~acc.business => ComponentSum(acc, st) \in 30..100
         /\ acc.business => ComponentSum(acc, st) <= 20
  <1>1. /\ acc.business => Personhood(acc.business) = -50
        /\ ~acc.business => Personhood(acc.business) = 30
    BY Zenon DEF Personhood
  <1>2. /\ ListingsCount(st.active) \in 0..30
        /\ Geography(st.districts) \in 0..20
        /\ AgeScore(acc.age) \in 0..20
    BY ListingsCountIs, GeographyIs, AgeScoreIs DEF StatsRow
  <1>3. ASSUME acc.business
        PROVE  ComponentSum(acc, st) \in Int /\ ComponentSum(acc, st) <= 20
    <2>1. Personhood(acc.business) = -50
      BY <1>1, <1>3
    <2> QED BY <1>2, <2>1 DEF ComponentSum
  <1>4. ASSUME ~acc.business
        PROVE  ComponentSum(acc, st) \in 30..100
    <2>1. Personhood(acc.business) = 30
      BY <1>1, <1>4
    <2> QED BY <1>2, <2>1 DEF ComponentSum
  <1> QED BY <1>3, <1>4

\* Of two sellers of the same kind the one with the older account, the fewer
\* districts and the fewer listings, but any, has no smaller sum.
LEMMA SumIsMonotone ==
  ASSUME NEW acc \in Account, NEW st \in StatsRow,
         NEW acc2 \in Account, NEW st2 \in StatsRow,
         acc.business = acc2.business, AgeScore(acc2.age) <= AgeScore(acc.age),
         st.active \in 1..st2.active, st.districts <= st2.districts
  PROVE  ComponentSum(acc2, st2) <= ComponentSum(acc, st)
  <1>1. /\ ListingsCount(st2.active) <= ListingsCount(st.active)
        /\ Geography(st2.districts) <= Geography(st.districts)
    BY ListingsCountIs, GeographyIs DEF StatsRow
  <1>2. /\ ListingsCount(st2.active) \in Int /\ ListingsCount(st.active) \in Int
        /\ Geography(st2.districts) \in Int /\ Geography(st.districts) \in Int
        /\ AgeScore(acc2.age) \in Int /\ AgeScore(acc.age) \in Int
    BY ListingsCountIs, GeographyIs, AgeScoreIs DEF StatsRow
  <1>3. Personhood(acc2.business) = Personhood(acc.business)
    BY Zenon
  <1>4. Personhood(acc.business) \in Int
    BY DEF Personhood
  <1> QED BY <1>1, <1>2, <1>3, <1>4 DEF ComponentSum

\* Without a label, the score is the sum kept in its range.
LEMMA ScoreWithoutLabel ==
  ASSUME NEW acc \in Account, NEW st \in StatsRow
  PROVE  RealSellerScore(Null, acc, st) =
             IF ComponentSum(acc, st) < 0 THEN 0
             ELSE IF ComponentSum(acc, st) > 100 THEN 100 ELSE ComponentSum(acc, st)
  <1>1. Null # "owner" /\ Null # "agency"
    BY ConstantsTyped DEF Label
  <1> QED BY <1>1, Zenon DEF RealSellerScore

\* For every input of the score (README 81-84, 0004 4-6, 0007 57-64): a label
\* puts a seller at the end of the range; without one the score is in it, and
\* that of a private account is the plain sum and above that of every business
\* account; an older account, fewer districts and, from the first listing on,
\* fewer listings never lower it.
THEOREM ScoreIsSound ==
  ASSUME NEW acc \in Account, NEW st \in StatsRow,
         NEW acc2 \in Account, NEW st2 \in StatsRow
  PROVE  /\ RealSellerScore("owner", acc, st) = 100
         /\ RealSellerScore("agency", acc, st) = 0
         /\ RealSellerScore(Null, acc, st) \in 0..100
         /\ ~acc.business => RealSellerScore(Null, acc, st) = ComponentSum(acc, st)
         /\ ~acc.business /\ acc2.business
            => RealSellerScore(Null, acc2, st2) < RealSellerScore(Null, acc, st)
         /\ /\ acc.business = acc2.business /\ AgeScore(acc2.age) <= AgeScore(acc.age)
            /\ st.active \in 1..st2.active /\ st.districts <= st2.districts
            => RealSellerScore(Null, acc2, st2) <= RealSellerScore(Null, acc, st)
  <1>1. RealSellerScore("owner", acc, st) = 100 /\ RealSellerScore("agency", acc, st) = 0
    BY Zenon DEF RealSellerScore
  <1>2. /\ ComponentSum(acc, st) \in Int /\ ComponentSum(acc2, st2) \in Int
        /\ ~acc.business => ComponentSum(acc, st) \in 30..100
        /\ acc2.business => ComponentSum(acc2, st2) <= 20
    BY SumIs
  <1>3. /\ RealSellerScore(Null, acc, st) =
              IF ComponentSum(acc, st) < 0 THEN 0
              ELSE IF ComponentSum(acc, st) > 100 THEN 100 ELSE ComponentSum(acc, st)
        /\ RealSellerScore(Null, acc2, st2) =
              IF ComponentSum(acc2, st2) < 0 THEN 0
              ELSE IF ComponentSum(acc2, st2) > 100 THEN 100 ELSE ComponentSum(acc2, st2)
    BY ScoreWithoutLabel
  <1>4. RealSellerScore(Null, acc, st) \in 0..100
    BY <1>2, <1>3
  <1>5. ASSUME ~acc.business
        PROVE  RealSellerScore(Null, acc, st) = ComponentSum(acc, st)
    <2>1. ComponentSum(acc, st) \in 30..100
      BY <1>2, <1>5
    <2> QED BY <1>3, <2>1
  <1>6. ASSUME ~acc.business, acc2.business
        PROVE  RealSellerScore(Null, acc2, st2) < RealSellerScore(Null, acc, st)
    <2>1. ComponentSum(acc, st) \in 30..100 /\ ComponentSum(acc2, st2) <= 20
      BY <1>2, <1>6
    <2> QED BY <1>2, <1>3, <2>1
  <1>7. ASSUME acc.business = acc2.business, AgeScore(acc2.age) <= AgeScore(acc.age),
               st.active \in 1..st2.active, st.districts <= st2.districts
        PROVE  RealSellerScore(Null, acc2, st2) <= RealSellerScore(Null, acc, st)
    <2>1. ComponentSum(acc2, st2) <= ComponentSum(acc, st)
      BY <1>7, SumIsMonotone
    <2> QED BY <1>2, <1>3, <2>1
  <1> QED BY <1>1, <1>4, <1>5, <1>6, <1>7

-----------------------------------------------------------------------------
(* The invariant.                                                          *)

\* Every seller of v is one of w.
Covers(v, w) == \A s \in Seller : v[s] # NoRow => w[s] # NoRow

\* The statements in line know all that the view shows, each all that those
\* before it know, and only sellers that are stored; that of a running
\* cmd/classify has seen what was there at its start.
Refreshed ==
    /\ Covers(view, label)
    /\ \A i \in DOMAIN refreshes :
          /\ viewAt <= refreshes[i].at /\ Covers(view, refreshes[i].stats)
          /\ Covers(refreshes[i].stats, label)
          /\ refreshes[i].by = "classify" => classify = "refresh" /\ since <= refreshes[i].at
    /\ \A i, j \in DOMAIN refreshes : i < j =>
          /\ refreshes[i].at <= refreshes[j].at
          /\ Covers(refreshes[i].stats, refreshes[j].stats)
          /\ refreshes[i].by = refreshes[j].by => refreshes[i].by = "nobody"

IInv == TypeOK /\ Refreshed /\ RankingIsCurrent

LEMMA SellerStatsTyped ==
  ASSUME TypeOK
  PROVE  /\ SellerStats \in [Seller -> StatsRow \cup {NoRow}]
         /\ \A s \in Seller : SellerStats[s] = NoRow <=> label[s] = NoRow
  <1>1. ASSUME NEW s \in Seller
        PROVE  [active    |-> Cardinality({l \in ListingsOf(s) : listings[l].active}),
                districts |-> Cardinality({listings[l].area : l \in ListingsOf(s)} \ {Null})]
                   \in StatsRow
    <2>1. IsFiniteSet(ListingsOf(s))
      BY ConstantsTyped, FS_Subset DEF ListingsOf
    <2>2. IsFiniteSet({l \in ListingsOf(s) : listings[l].active})
      BY <2>1, FS_Subset
    <2>3. IsFiniteSet({listings[l].area : l \in ListingsOf(s)})
      <3> DEFINE area(l) == listings[l].area
      <3>1. IsFiniteSet({area(l) : l \in ListingsOf(s)})
        <4> HIDE DEF area
        <4>1. [l \in ListingsOf(s) |-> area(l)] \in [ListingsOf(s) -> {area(l) : l \in ListingsOf(s)}]
          OBVIOUS
        <4>2. \A a \in {area(l) : l \in ListingsOf(s)} :
                  \E l \in ListingsOf(s) : [k \in ListingsOf(s) |-> area(k)][l] = a
          OBVIOUS
        <4>3. [l \in ListingsOf(s) |-> area(l)]
                  \in Surjection(ListingsOf(s), {area(l) : l \in ListingsOf(s)})
          BY <4>1, <4>2 DEF Surjection
        <4> QED BY <2>1, <4>3, FS_Surjection
      <3> QED BY <3>1
    <2>4. IsFiniteSet({listings[l].area : l \in ListingsOf(s)} \ {Null})
      BY <2>3, FS_Subset
    <2> QED BY <2>2, <2>4, FS_CardinalityType DEF StatsRow
  <1> QED BY <1>1, ConstantsTyped DEF SellerStats

\* What the three changes of the line of statements do to it.
LEMMA LineIs ==
  ASSUME NEW q \in Seq(Refresh)
  PROVE  /\ DOMAIN q = 1..Len(q) /\ Len(q) \in Nat
         /\ \A e \in Refresh :
               /\ Append(q, e) \in Seq(Refresh)
               /\ DOMAIN Append(q, e) = 1..Len(q) + 1
               /\ \A i \in DOMAIN q : Append(q, e)[i] = q[i]
               /\ Append(q, e)[Len(q) + 1] = e
         /\ q # <<>> =>
               /\ Tail(q) \in Seq(Refresh) /\ DOMAIN Tail(q) = 1..Len(q) - 1
               /\ 1 \in DOMAIN q /\ Head(q) = q[1]
               /\ \A i \in DOMAIN Tail(q) : i + 1 \in DOMAIN q /\ Tail(q)[i] = q[i + 1]
  OBVIOUS

LEMMA AbandonIs ==
  ASSUME TypeOK, NEW i \in DOMAIN refreshes, Abandon(i)
  PROVE  /\ refreshes' \in Seq(Refresh) /\ DOMAIN refreshes' = DOMAIN refreshes
         /\ \A j \in DOMAIN refreshes :
               /\ refreshes'[j].at = refreshes[j].at /\ refreshes'[j].stats = refreshes[j].stats
               /\ refreshes'[j].by = IF j = i THEN "nobody" ELSE refreshes[j].by
  <1>1. refreshes \in Seq(Refresh) /\ refreshes' = [refreshes EXCEPT ![i].by = "nobody"]
    BY DEF TypeOK, ClassifierTypeOK, Abandon
  <1>2. \A j \in DOMAIN refreshes : refreshes[j] \in Refresh
    BY <1>1
  <1>3. /\ DOMAIN refreshes' = DOMAIN refreshes
        /\ refreshes'[i] = [refreshes[i] EXCEPT !.by = "nobody"]
        /\ \A j \in DOMAIN refreshes : j # i => refreshes'[j] = refreshes[j]
    BY <1>1
  <1>4. refreshes'[i] \in Refresh
    BY <1>2, <1>3 DEF Refresh
  <1>5. refreshes' \in Seq(Refresh)
    BY <1>1, <1>2, <1>3, <1>4
  <1> QED BY <1>2, <1>3, <1>5 DEF Refresh

-----------------------------------------------------------------------------
(* One lemma per kind of step.                                             *)

LEMMA InitHolds == Init => IInv
  <1> SUFFICES ASSUME Init PROVE IInv
    OBVIOUS
  <1> USE ConstantsTyped DEF Init, ClassifierInit, Empty
  <1>1. account \in [Seller -> Account]
    OBVIOUS
  <1>2. TypeOK
    <2>1. /\ label \in [Seller -> Label \cup {Null, NoRow}]
          /\ listings \in [Listing -> ListingRow \cup {NoRow}]
          /\ view \in [Seller -> StatsRow \cup {NoRow}]
          /\ refreshes \in Seq(Refresh) /\ DOMAIN refreshes = {}
      OBVIOUS
    <2>2. /\ commits \in 0..MaxCommits /\ faults \in 0..MaxFaults
          /\ viewAt \in 0..commits /\ since \in 0..commits
      <3>1. commits = 0 /\ faults = 0 /\ viewAt = 0 /\ since = 0
        OBVIOUS
      <3> HIDE DEF Init, ClassifierInit
      <3> QED BY <3>1
    <2>3. /\ api \in BOOLEAN /\ ticking \in BOOLEAN
          /\ classify \in {"idle", "refresh", "query", "ranked", "failed"}
      OBVIOUS
    <2> HIDE DEF Init, ClassifierInit, Empty
    <2> QED BY <1>1, <2>1, <2>2, <2>3 DEF TypeOK, ClassifierTypeOK
  <1>3. Refreshed /\ RankingIsCurrent
    BY DEF Refreshed, Covers, RankingIsCurrent
  <1> QED BY <1>2, <1>3 DEF IInv

LEMMA ParseHolds ==
  ASSUME IInv, NEW l \in Listing, NEW r \in ListingRow, Parse(l, r)
  PROVE  IInv'
  <1> USE ConstantsTyped DEF Parse, IInv, LabelAfterUpsert, viewVars
  <1>1. r.seller \in Seller
    BY DEF ListingRow
  <1>2. TypeOK'
    <2>1. label' \in [Seller -> Label \cup {Null, NoRow}]
      BY <1>1 DEF TypeOK, ClassifierTypeOK
    <2>2. listings' \in [Listing -> ListingRow \cup {NoRow}]
      BY DEF TypeOK, ClassifierTypeOK
    <2>3. commits' \in 0..MaxCommits /\ commits' = commits + 1 /\ commits \in Nat
      BY DEF TypeOK, ClassifierTypeOK
    <2>4. \A i \in DOMAIN refreshes : refreshes[i].at \in Nat /\ refreshes[i].at <= commits
      <3>1. refreshes \in Seq(Refresh) /\ \A i \in DOMAIN refreshes : refreshes[i].at <= commits
        BY DEF TypeOK, ClassifierTypeOK
      <3>2. \A i \in DOMAIN refreshes : refreshes[i] \in Refresh
        BY <3>1
      <3> QED BY <3>1, <3>2 DEF Refresh
    <2> QED BY <2>1, <2>2, <2>3, <2>4 DEF TypeOK, ClassifierTypeOK
  <1>3. Refreshed'
    <2>1. \A s \in Seller : label[s] # NoRow => label'[s] # NoRow
      BY <1>1 DEF TypeOK, ClassifierTypeOK
    <2> QED BY <2>1 DEF Refreshed, Covers
  <1>4. RankingIsCurrent'
    BY DEF RankingIsCurrent
  <1> QED BY <1>2, <1>3, <1>4

LEMMA RefreshBeginHolds ==
  ASSUME IInv, NEW r \in {"api", "classify"}, RefreshBegin(r)
  PROVE  IInv'
  <1> DEFINE e == [by |-> r, stats |-> SellerStats, at |-> commits]
             n == Len(refreshes) + 1
  <1>1. /\ UNCHANGED <<tables, viewVars, api, ticking, classify, since, faults>>
        /\ refreshes' = Append(refreshes, e)
        /\ \A i \in DOMAIN refreshes : refreshes[i].by # r
        /\ r = "classify" => classify = "refresh"
    BY DEF RefreshBegin
  <1>2. /\ refreshes \in Seq(Refresh) /\ commits \in 0..MaxCommits
        /\ since <= commits /\ viewAt <= commits
    BY DEF IInv, TypeOK, ClassifierTypeOK
  <1>3. /\ SellerStats \in [Seller -> StatsRow \cup {NoRow}]
        /\ \A s \in Seller : SellerStats[s] = NoRow <=> label[s] = NoRow
    BY SellerStatsTyped DEF IInv
  <1>4. e \in Refresh
    BY <1>2, <1>3 DEF Refresh
  <1>5. /\ refreshes' \in Seq(Refresh)
        /\ DOMAIN refreshes' = 1..n /\ DOMAIN refreshes = 1..n - 1 /\ n \in Nat
        /\ \A i \in DOMAIN refreshes : refreshes'[i] = refreshes[i]
        /\ refreshes'[n] = e
    BY <1>1, <1>2, <1>4, LineIs
  <1>6. e.at = commits /\ e.stats = SellerStats /\ e.by = r
    OBVIOUS
  <1>7. \A i \in DOMAIN refreshes' : i \in DOMAIN refreshes \/ i = n
    BY <1>5
  <1>8. \A i \in DOMAIN refreshes : refreshes[i].at <= commits /\ i < n
    BY <1>5 DEF IInv, TypeOK, ClassifierTypeOK
  <1> HIDE DEF e, n
  <1>9. TypeOK'
    <2>1. \A i \in DOMAIN refreshes' : refreshes'[i].at <= commits
      BY <1>2, <1>5, <1>6, <1>7, <1>8
    <2> QED BY <1>1, <1>5, <2>1 DEF IInv, TypeOK, ClassifierTypeOK, tables, viewVars
  <1>10. Refreshed'
    <2>1. UNCHANGED <<view, viewAt, label, classify, since>>
      BY <1>1 DEF tables, viewVars
    <2>2. /\ Covers(view, SellerStats) /\ Covers(SellerStats, label)
          /\ \A i \in DOMAIN refreshes : Covers(refreshes[i].stats, SellerStats)
      BY <1>3 DEF IInv, Refreshed, Covers
    <2>3. \A i \in DOMAIN refreshes' :
            /\ viewAt <= refreshes'[i].at /\ Covers(view, refreshes'[i].stats)
            /\ Covers(refreshes'[i].stats, label)
            /\ refreshes'[i].by = "classify" => classify = "refresh" /\ since <= refreshes'[i].at
      BY <1>1, <1>2, <1>5, <1>6, <1>7, <2>2 DEF IInv, Refreshed
    <2>4. \A i, j \in DOMAIN refreshes' : i < j =>
            /\ refreshes'[i].at <= refreshes'[j].at
            /\ Covers(refreshes'[i].stats, refreshes'[j].stats)
            /\ refreshes'[i].by = refreshes'[j].by => refreshes'[i].by = "nobody"
      <3> SUFFICES ASSUME NEW i \in DOMAIN refreshes', NEW j \in DOMAIN refreshes', i < j
                   PROVE  /\ refreshes'[i].at <= refreshes'[j].at
                          /\ Covers(refreshes'[i].stats, refreshes'[j].stats)
                          /\ refreshes'[i].by = refreshes'[j].by => refreshes'[i].by = "nobody"
        OBVIOUS
      <3>1. i \in DOMAIN refreshes
        BY <1>5, <1>7
      <3>2. CASE j \in DOMAIN refreshes
        BY <1>5, <3>1, <3>2 DEF IInv, Refreshed
      <3>3. CASE j = n
        BY <1>1, <1>5, <1>6, <1>8, <2>2, <3>1, <3>3
      <3> QED BY <1>7, <3>2, <3>3
    <2>5. Covers(view, label)
      BY DEF IInv, Refreshed
    <2> QED BY <2>1, <2>3, <2>4, <2>5 DEF Refreshed, Covers
  <1>11. RankingIsCurrent'
    BY <1>1 DEF IInv, RankingIsCurrent, viewVars
  <1> QED BY <1>9, <1>10, <1>11 DEF IInv

\* The line moves up when its first statement ends or is cancelled.
LEMMA MovesUp ==
  ASSUME IInv, refreshes # <<>>, refreshes' = Tail(refreshes),
         UNCHANGED <<label, listings, commits, since>>,
         \/ view' = view /\ viewAt' = viewAt
         \/ view' = refreshes[1].stats /\ viewAt' = refreshes[1].at,
         \/ classify' = classify /\ refreshes[1].by # "classify"
         \/ classify' = "query" /\ refreshes[1].by = "classify"
  PROVE  /\ refreshes' \in Seq(Refresh)
         /\ \A i \in DOMAIN refreshes' : refreshes'[i].at <= commits
         /\ Refreshed'
  <1>1. refreshes \in Seq(Refresh)
    BY DEF IInv, TypeOK, ClassifierTypeOK
  <1>2. /\ refreshes' \in Seq(Refresh)
        /\ DOMAIN refreshes = 1..Len(refreshes) /\ Len(refreshes) \in Nat
        /\ DOMAIN refreshes' = 1..Len(refreshes) - 1 /\ 1 \in DOMAIN refreshes
        /\ \A i \in DOMAIN refreshes' :
              i + 1 \in DOMAIN refreshes /\ refreshes'[i] = refreshes[i + 1]
    BY <1>1, LineIs
  <1>3. \A i \in DOMAIN refreshes' : refreshes'[i].at <= commits
    BY <1>2 DEF IInv, TypeOK, ClassifierTypeOK
  <1>4. Covers(view, label)'
    <2>1. Covers(view, label) /\ Covers(refreshes[1].stats, label)
      BY <1>2 DEF IInv, Refreshed
    <2> QED BY <2>1 DEF Covers
  <1>5. ASSUME NEW i \in DOMAIN refreshes'
        PROVE  /\ viewAt' <= refreshes'[i].at /\ Covers(view, refreshes[i].stats)'
               /\ Covers(refreshes[i].stats, label)'
               /\ refreshes'[i].by = "classify" =>
                     classify' = "refresh" /\ since' <= refreshes'[i].at
    <2>1. i \in Nat /\ 1 < i + 1 /\ i + 1 \in DOMAIN refreshes /\ refreshes'[i] = refreshes[i + 1]
      BY <1>2
    <2>2. /\ viewAt <= refreshes[i + 1].at /\ refreshes[1].at <= refreshes[i + 1].at
          /\ Covers(view, refreshes[i + 1].stats)
          /\ Covers(refreshes[1].stats, refreshes[i + 1].stats)
          /\ Covers(refreshes[i + 1].stats, label)
          /\ refreshes[i + 1].by = "classify" =>
                /\ classify = "refresh" /\ since <= refreshes[i + 1].at
                /\ refreshes[1].by # "classify"
      BY <1>2, <2>1 DEF IInv, Refreshed
    <2>3. /\ Covers(refreshes[i].stats, label)' /\ Covers(view, refreshes[i].stats)'
      BY <2>1, <2>2 DEF Covers
    <2> QED BY <2>1, <2>2, <2>3
  <1>6. ASSUME NEW i \in DOMAIN refreshes', NEW j \in DOMAIN refreshes', i < j
        PROVE  /\ refreshes'[i].at <= refreshes'[j].at
               /\ Covers(refreshes[i].stats, refreshes[j].stats)'
               /\ refreshes'[i].by = refreshes'[j].by => refreshes'[i].by = "nobody"
    <2>1. /\ i + 1 \in DOMAIN refreshes /\ refreshes'[i] = refreshes[i + 1]
          /\ j + 1 \in DOMAIN refreshes /\ refreshes'[j] = refreshes[j + 1]
          /\ i + 1 < j + 1
      BY <1>2, <1>6
    <2>2. /\ refreshes[i + 1].at <= refreshes[j + 1].at
          /\ Covers(refreshes[i + 1].stats, refreshes[j + 1].stats)
          /\ refreshes[i + 1].by = refreshes[j + 1].by => refreshes[i + 1].by = "nobody"
      BY <2>1 DEF IInv, Refreshed
    <2> QED BY <2>1, <2>2 DEF Covers
  <1>7. Refreshed'
    BY <1>4, <1>5, <1>6 DEF Refreshed
  <1> QED BY <1>2, <1>3, <1>7

LEMMA RefreshEndHolds ==
  ASSUME IInv, RefreshEnd
  PROVE  IInv' /\ viewAt' >= viewAt /\ Covers(view, view')
  <1>1. /\ refreshes # <<>> /\ refreshes' = Tail(refreshes)
        /\ UNCHANGED <<tables, api, ticking, since, faults>>
        /\ view' = refreshes[1].stats /\ viewAt' = refreshes[1].at
        /\ classify' = IF refreshes[1].by = "classify" THEN "query" ELSE classify
        /\ 1 \in DOMAIN refreshes /\ refreshes[1] \in Refresh
    <2>1. refreshes # <<>> /\ refreshes \in Seq(Refresh)
      BY DEF RefreshEnd, IInv, TypeOK, ClassifierTypeOK
    <2>2. Head(refreshes) = refreshes[1] /\ 1 \in DOMAIN refreshes /\ refreshes[1] \in Refresh
      BY <2>1
    <2> QED BY <2>1, <2>2, Zenon DEF RefreshEnd
  <1>2. /\ refreshes' \in Seq(Refresh)
        /\ \A i \in DOMAIN refreshes' : refreshes'[i].at <= commits
        /\ Refreshed'
    BY <1>1, MovesUp DEF tables
  <1>3. /\ viewAt' >= viewAt /\ Covers(view, view') /\ viewAt' <= commits
        /\ refreshes[1].by = "classify" => since <= viewAt'
    BY <1>1 DEF IInv, Refreshed, TypeOK, ClassifierTypeOK
  <1>4. TypeOK'
    <2>1. view' \in [Seller -> StatsRow \cup {NoRow}] /\ viewAt' \in 0..commits
      BY <1>1, <1>3 DEF Refresh
    <2>2. classify' \in {"idle", "refresh", "query", "ranked", "failed"}
      BY <1>1 DEF IInv, TypeOK, ClassifierTypeOK
    <2> QED BY <1>1, <1>2, <2>1, <2>2, Zenon DEF IInv, TypeOK, ClassifierTypeOK, tables
  <1>5. RankingIsCurrent'
    <2>1. /\ viewAt \in Int /\ viewAt' \in Int /\ since \in Int /\ since' = since
          /\ classify \in {"query", "ranked"} => viewAt >= since
      BY <1>1 DEF IInv, RankingIsCurrent, TypeOK, ClassifierTypeOK, Refresh
    <2> QED BY <1>1, <1>3, <2>1 DEF RankingIsCurrent
  <1> QED BY <1>2, <1>3, <1>4, <1>5 DEF IInv

LEMMA RefreshCancelledHolds ==
  ASSUME IInv, RefreshCancelled
  PROVE  IInv'
  <1>1. /\ refreshes # <<>> /\ refreshes' = Tail(refreshes) /\ Head(refreshes).by = "nobody"
        /\ UNCHANGED <<tables, viewVars, api, ticking, classify, since, faults>>
    BY DEF RefreshCancelled
  <1>2. refreshes[1].by = "nobody"
    BY <1>1 DEF IInv, TypeOK, ClassifierTypeOK
  <1>3. /\ refreshes' \in Seq(Refresh)
        /\ \A i \in DOMAIN refreshes' : refreshes'[i].at <= commits
        /\ Refreshed'
    BY <1>1, <1>2, MovesUp DEF tables, viewVars
  <1>4. TypeOK'
    BY <1>1, <1>3 DEF IInv, TypeOK, ClassifierTypeOK, tables, viewVars
  <1>5. RankingIsCurrent'
    BY <1>1 DEF IInv, RankingIsCurrent, viewVars
  <1> QED BY <1>3, <1>4, <1>5 DEF IInv

\* Whoever asked for the i-th statement gives it up.
LEMMA AbandonHolds ==
  ASSUME IInv, NEW i \in DOMAIN refreshes, Abandon(i),
         UNCHANGED <<tables, viewVars, since>>,
         \/ classify' = classify
         \/ classify' = "failed" /\ refreshes[i].by = "classify"
  PROVE  /\ refreshes' \in Seq(Refresh)
         /\ \A j \in DOMAIN refreshes' : refreshes'[j].at <= commits
         /\ Refreshed' /\ RankingIsCurrent'
  <1>1. /\ refreshes' \in Seq(Refresh) /\ DOMAIN refreshes' = DOMAIN refreshes
        /\ \A j \in DOMAIN refreshes :
              /\ refreshes'[j].at = refreshes[j].at /\ refreshes'[j].stats = refreshes[j].stats
              /\ refreshes'[j].by = IF j = i THEN "nobody" ELSE refreshes[j].by
    BY AbandonIs DEF IInv
  <1>2. \A j \in DOMAIN refreshes' : refreshes'[j].at <= commits
    BY <1>1 DEF IInv, TypeOK, ClassifierTypeOK
  <1>3. UNCHANGED <<view, viewAt, label, since>>
    BY DEF tables, viewVars
  <1>4. Covers(view, label)'
    BY <1>3 DEF IInv, Refreshed, Covers
  <1>5. ASSUME NEW j \in DOMAIN refreshes'
        PROVE  /\ viewAt' <= refreshes'[j].at /\ Covers(view, refreshes[j].stats)'
               /\ Covers(refreshes[j].stats, label)'
               /\ refreshes'[j].by = "classify" =>
                     classify' = "refresh" /\ since' <= refreshes'[j].at
    <2>1. /\ viewAt <= refreshes[j].at /\ Covers(view, refreshes[j].stats)
          /\ Covers(refreshes[j].stats, label)
          /\ refreshes[j].by = "classify" => classify = "refresh" /\ since <= refreshes[j].at
      BY <1>1 DEF IInv, Refreshed
    <2>2. refreshes'[j].by = "classify" =>
              refreshes[j].by = "classify" /\ refreshes[i].by # "classify"
      <3>1. i # j /\ refreshes[i].by = refreshes[j].by => refreshes[j].by = "nobody"
        <4>1. i \in Int /\ j \in Int
          BY <1>1 DEF IInv, TypeOK, ClassifierTypeOK
        <4> QED BY <1>1, <4>1 DEF IInv, Refreshed
      <3> QED BY <1>1, <3>1
    <2> QED BY <1>1, <1>3, <2>1, <2>2 DEF Covers
  <1>6. ASSUME NEW j \in DOMAIN refreshes', NEW k \in DOMAIN refreshes', j < k
        PROVE  /\ refreshes'[j].at <= refreshes'[k].at
               /\ Covers(refreshes[j].stats, refreshes[k].stats)'
               /\ refreshes'[j].by = refreshes'[k].by => refreshes'[j].by = "nobody"
    <2>1. /\ refreshes[j].at <= refreshes[k].at
          /\ Covers(refreshes[j].stats, refreshes[k].stats)
          /\ refreshes[j].by = refreshes[k].by => refreshes[j].by = "nobody"
      BY <1>1, <1>6 DEF IInv, Refreshed
    <2> QED BY <1>1, <2>1 DEF Covers
  <1>7. Refreshed'
    BY <1>4, <1>5, <1>6 DEF Refreshed
  <1>8. RankingIsCurrent'
    BY <1>3 DEF IInv, RankingIsCurrent
  <1> QED BY <1>1, <1>2, <1>7, <1>8

LEMMA RefreshFailsHolds ==
  ASSUME IInv, NEW i \in DOMAIN refreshes, RefreshFails(i)
  PROVE  IInv'
  <1>1. /\ Abandon(i) /\ faults < MaxFaults /\ faults' = faults + 1
        /\ UNCHANGED <<tables, viewVars, api, ticking, since>>
        /\ classify' = IF refreshes[i].by = "classify" THEN "failed" ELSE classify
    BY DEF RefreshFails, Fault
  <1>2. /\ refreshes' \in Seq(Refresh)
        /\ \A j \in DOMAIN refreshes' : refreshes'[j].at <= commits
        /\ Refreshed' /\ RankingIsCurrent'
    BY <1>1, AbandonHolds
  <1>3. TypeOK'
    BY <1>1, <1>2, ConstantsTyped DEF IInv, TypeOK, ClassifierTypeOK, tables, viewVars
  <1> QED BY <1>2, <1>3 DEF IInv

LEMMA ClassifyHolds ==
  ASSUME IInv, (\E refresh \in BOOLEAN : ClassifyStart(refresh)) \/ TopRealSellers \/ ClassifyExit
  PROVE  IInv'
  <1>1. UNCHANGED <<account, label, listings, commits, view, viewAt, refreshes,
                    api, ticking, faults>>
    BY Zenon DEF ClassifyStart, TopRealSellers, ClassifyExit, tables, viewVars
  <1>2. \/ classify = "idle" /\ classify' = "refresh" /\ since' = commits
        \/ classify = "idle" /\ classify' = "query" /\ since' = 0
        \/ classify = "query" /\ classify' = "ranked" /\ since' = since
        \/ classify \in {"ranked", "failed"} /\ classify' = "idle" /\ since' = 0
    BY DEF ClassifyStart, TopRealSellers, ClassifyExit
  <1>3. TypeOK'
    BY <1>1, <1>2, ConstantsTyped DEF IInv, TypeOK, ClassifierTypeOK
  <1>4. Refreshed'
    BY <1>1, <1>2 DEF IInv, Refreshed, Covers
  <1>5. RankingIsCurrent'
    BY <1>1, <1>2 DEF IInv, RankingIsCurrent, TypeOK, ClassifierTypeOK
  <1> QED BY <1>3, <1>4, <1>5 DEF IInv

LEMMA ApiHolds ==
  ASSUME IInv, ApiCrash \/ ApiStart
  PROVE  IInv'
  <1>1. /\ UNCHANGED <<tables, viewVars, classify, since>>
        /\ api' \in BOOLEAN /\ ticking' \in BOOLEAN
        /\ faults' = faults \/ (faults < MaxFaults /\ faults' = faults + 1)
        /\ refreshes' = refreshes \/ \E i \in DOMAIN refreshes : Abandon(i)
    <2>1. CASE ApiCrash
      BY <2>1 DEF ApiCrash, Fault
    <2>2. CASE ApiStart
      BY <2>2 DEF ApiStart
    <2> QED BY <2>1, <2>2
  <1>2. /\ refreshes' \in Seq(Refresh)
        /\ \A j \in DOMAIN refreshes' : refreshes'[j].at <= commits
        /\ Refreshed' /\ RankingIsCurrent'
    <2>1. CASE refreshes' = refreshes
      BY <1>1, <2>1 DEF IInv, TypeOK, ClassifierTypeOK, Refreshed, Covers, RankingIsCurrent,
                        tables, viewVars
    <2>2. ASSUME NEW i \in DOMAIN refreshes, Abandon(i)
          PROVE  /\ refreshes' \in Seq(Refresh)
                 /\ \A j \in DOMAIN refreshes' : refreshes'[j].at <= commits
                 /\ Refreshed' /\ RankingIsCurrent'
      BY <1>1, <2>2, AbandonHolds
    <2> QED BY <1>1, <2>1, <2>2
  <1>3. TypeOK'
    BY <1>1, <1>2, ConstantsTyped DEF IInv, TypeOK, ClassifierTypeOK, tables, viewVars
  <1> QED BY <1>2, <1>3 DEF IInv

LEMMA LabelSellerHolds ==
  ASSUME IInv, NEW s \in Seller, NEW lab \in Label \cup {Null, "other"}, LabelSeller(s, lab)
  PROVE  IInv'
  <1>1. UNCHANGED <<account, listings, commits, view, viewAt, refreshes, api, ticking,
                    classify, since, faults>>
    BY DEF LabelSeller, Unaffected, viewVars
  <1>2. /\ label \in [Seller -> Label \cup {Null, NoRow}]
        /\ label' \in [Seller -> Label \cup {Null, NoRow}]
        /\ \A t \in Seller : label'[t] = NoRow <=> label[t] = NoRow
    BY ConstantsTyped DEF LabelSeller, IInv, TypeOK, ClassifierTypeOK
  <1>3. TypeOK'
    BY <1>1, <1>2 DEF IInv, TypeOK, ClassifierTypeOK
  <1>4. Refreshed'
    BY <1>1, <1>2 DEF IInv, Refreshed, Covers
  <1>5. RankingIsCurrent'
    BY <1>1 DEF IInv, RankingIsCurrent
  <1> QED BY <1>3, <1>4, <1>5 DEF IInv

\* Only the end of a refresh changes the view.
LEMMA StepHolds ==
  ASSUME IInv, [Next]_vars
  PROVE  IInv' /\ (UNCHANGED viewVars \/ RefreshEnd)
  <1>1. CASE UNCHANGED vars
    <2>1. UNCHANGED <<tables, viewVars, refreshes, api, ticking, classify, since, faults>>
      BY <1>1 DEF vars, classifierVars
    <2> QED BY <2>1 DEF IInv, TypeOK, ClassifierTypeOK, Refreshed, Covers, RankingIsCurrent,
                        tables, viewVars
  <1>2. ASSUME NEW l \in Listing, NEW r \in ListingRow, Parse(l, r)
        PROVE  IInv' /\ UNCHANGED viewVars
    BY <1>2, ParseHolds DEF Parse
  <1>3. ASSUME NEW r \in {"api", "classify"}, RefreshBegin(r)
        PROVE  IInv' /\ UNCHANGED viewVars
    BY <1>3, RefreshBeginHolds DEF RefreshBegin
  <1>4. CASE RefreshEnd
    BY <1>4, RefreshEndHolds
  <1>5. CASE RefreshCancelled
    BY <1>5, RefreshCancelledHolds DEF RefreshCancelled
  <1>6. ASSUME NEW i \in DOMAIN refreshes, RefreshFails(i)
        PROVE  IInv' /\ UNCHANGED viewVars
    BY <1>6, RefreshFailsHolds DEF RefreshFails
  <1>7. CASE (\E refresh \in BOOLEAN : ClassifyStart(refresh)) \/ TopRealSellers \/ ClassifyExit
    BY <1>7, ClassifyHolds DEF ClassifyStart, TopRealSellers, ClassifyExit
  <1>8. CASE ApiCrash \/ ApiStart
    BY <1>8, ApiHolds DEF ApiCrash, ApiStart
  <1>9. ASSUME NEW s \in Seller, NEW lab \in Label \cup {Null, "other"}, LabelSeller(s, lab)
        PROVE  IInv' /\ UNCHANGED viewVars
    BY <1>9, LabelSellerHolds DEF LabelSeller, Unaffected
  <1> QED BY <1>1, <1>2, <1>3, <1>4, <1>5, <1>6, <1>7, <1>8, <1>9 DEF Next, ClassifierNext

\* The inductive invariant holds.
THEOREM InvariantHolds == Spec => []IInv
  <1>1. IInv /\ [Next]_vars => IInv'
    BY StepHolds
  <1> QED BY InitHolds, <1>1, PTL DEF Spec

\* Type correctness of the dashboard.
THEOREM TypeCorrect == Spec => []TypeOK
  <1>1. IInv => TypeOK
    BY DEF IInv
  <1> QED BY <1>1, InvariantHolds, PTL

\* A ranking made with -refresh is not older than its start.
THEOREM RankingHolds == Spec => []RankingIsCurrent
  <1>1. IInv => RankingIsCurrent
    BY DEF IInv
  <1> QED BY <1>1, InvariantHolds, PTL

\* No refresh takes the view back, and no seller leaves it.
THEOREM ViewHolds == Spec => ViewNeverGoesBack
  <1>1. IInv /\ [Next]_vars =>
            [/\ viewAt' >= viewAt
             /\ \A s \in Seller : view[s] # NoRow => view'[s] # NoRow]_classifierVars
    <2> SUFFICES ASSUME IInv, [Next]_vars
                 PROVE  /\ viewAt' >= viewAt
                        /\ \A s \in Seller : view[s] # NoRow => view'[s] # NoRow
      OBVIOUS
    <2>1. CASE UNCHANGED viewVars
      BY <2>1 DEF viewVars, IInv, TypeOK, ClassifierTypeOK
    <2>2. CASE RefreshEnd
      BY <2>2, RefreshEndHolds DEF Covers
    <2> QED BY <2>1, <2>2, StepHolds
  <1> QED BY <1>1, InvariantHolds, PTL DEF Spec, ViewNeverGoesBack

-----------------------------------------------------------------------------
(* What the view says: viewAt, and at of a statement, are not only counts. *)

\* A view, or the snapshot of a statement, that has seen every commit says what
\* the tables say.
Exact ==
    /\ viewAt = commits => view = SellerStats
    /\ \A i \in DOMAIN refreshes :
          refreshes[i].at = commits => refreshes[i].stats = SellerStats

\* What a seller's row in the view is computed from does not change when neither
\* the listings do nor which sellers are stored.
LEMMA SameStats ==
  ASSUME UNCHANGED listings,
         \A s \in Seller : label'[s] = NoRow <=> label[s] = NoRow
  PROVE  SellerStats' = SellerStats
  BY DEF SellerStats, ListingsOf

LEMMA ExactKept ==
  ASSUME IInv, Exact, [Next]_vars
  PROVE  Exact'
  <1>1. /\ commits \in Nat /\ viewAt \in 0..commits
        /\ label \in [Seller -> Label \cup {Null, NoRow}]
        /\ refreshes \in Seq(Refresh) /\ \A i \in DOMAIN refreshes : refreshes[i].at <= commits
    BY ConstantsTyped DEF IInv, TypeOK, ClassifierTypeOK
  <1>2. ASSUME NEW l \in Listing, NEW r \in ListingRow, Parse(l, r)
        PROVE  Exact'
    <2>1. commits' = commits + 1 /\ viewAt' = viewAt /\ refreshes' = refreshes
      BY <1>2 DEF Parse, viewVars
    <2>2. \A i \in DOMAIN refreshes : refreshes[i].at # commits'
      BY <1>1, <2>1
    <2>3. viewAt' # commits'
      BY <1>1, <2>1
    <2> QED BY <2>1, <2>2, <2>3 DEF Exact
  <1>3. ASSUME UNCHANGED <<listings, commits>>,
               \A s \in Seller : label'[s] = NoRow <=> label[s] = NoRow,
               \/ view' = view /\ viewAt' = viewAt
               \/ \E i \in DOMAIN refreshes :
                     view' = refreshes[i].stats /\ viewAt' = refreshes[i].at,
               \A j \in DOMAIN refreshes' :
                  \/ refreshes'[j].stats = SellerStats
                  \/ \E i \in DOMAIN refreshes : /\ refreshes'[j].at = refreshes[i].at
                                                /\ refreshes'[j].stats = refreshes[i].stats
        PROVE  Exact'
    <2>1. SellerStats' = SellerStats
      BY <1>3, SameStats
    <2>2. viewAt' = commits => view' = SellerStats
      BY <1>3 DEF Exact
    <2>3. \A j \in DOMAIN refreshes' :
             refreshes'[j].at = commits => refreshes'[j].stats = SellerStats
      BY <1>3 DEF Exact
    <2> QED BY <1>3, <2>1, <2>2, <2>3 DEF Exact
  <1>4. ASSUME NEW r \in {"api", "classify"}, RefreshBegin(r)
        PROVE  Exact'
    <2> DEFINE e == [by |-> r, stats |-> SellerStats, at |-> commits]
    <2>1. UNCHANGED <<listings, label, commits, view, viewAt>> /\ refreshes' = Append(refreshes, e)
      BY <1>4 DEF RefreshBegin, tables, viewVars
    <2>2. e.stats = SellerStats
      OBVIOUS
    <2>3. \A j \in DOMAIN refreshes' :
             refreshes'[j] = e \/ (j \in DOMAIN refreshes /\ refreshes'[j] = refreshes[j])
      <3> HIDE DEF e
      <3> QED BY <1>1, <2>1
    <2> HIDE DEF e
    <2> QED BY <1>3, <2>1, <2>2, <2>3
  <1>5. CASE RefreshEnd \/ RefreshCancelled
    <2>1. /\ refreshes # <<>> /\ refreshes' = Tail(refreshes)
          /\ UNCHANGED <<listings, label, commits>>
          /\ \/ view' = view /\ viewAt' = viewAt
             \/ view' = Head(refreshes).stats /\ viewAt' = Head(refreshes).at
      BY <1>5 DEF RefreshEnd, RefreshCancelled, tables, viewVars
    <2>2. 1 \in DOMAIN refreshes /\ Head(refreshes) = refreshes[1]
      BY <1>1, <2>1, LineIs
    <2>3. \A j \in DOMAIN refreshes' : j + 1 \in DOMAIN refreshes /\ refreshes'[j] = refreshes[j + 1]
      BY <1>1, <2>1, LineIs
    <2> QED BY <1>3, <2>1, <2>2, <2>3
  <1>6. ASSUME NEW i \in DOMAIN refreshes, Abandon(i), UNCHANGED <<tables, viewVars>>
        PROVE  Exact'
    <2>1. /\ DOMAIN refreshes' = DOMAIN refreshes
          /\ \A j \in DOMAIN refreshes :
                refreshes'[j].at = refreshes[j].at /\ refreshes'[j].stats = refreshes[j].stats
      BY <1>6, AbandonIs DEF IInv
    <2> QED BY <1>3, <1>6, <2>1 DEF tables, viewVars
  <1>7. ASSUME NEW s \in Seller, NEW lab \in Label \cup {Null, "other"}, LabelSeller(s, lab)
        PROVE  Exact'
    <2>1. UNCHANGED <<listings, commits, view, viewAt, refreshes>>
      BY <1>7 DEF LabelSeller, Unaffected, viewVars
    <2>2. \A t \in Seller : label'[t] = NoRow <=> label[t] = NoRow
      BY <1>1, <1>7, ConstantsTyped DEF LabelSeller
    <2> QED BY <1>3, <2>1, <2>2
  <1>8. ASSUME UNCHANGED <<tables, viewVars, refreshes>>
        PROVE  Exact'
    BY <1>3, <1>8 DEF tables, viewVars
  <1>9. CASE \/ TopRealSellers \/ ClassifyExit \/ ApiStart
             \/ \E refresh \in BOOLEAN : ClassifyStart(refresh)
             \/ UNCHANGED vars
    BY <1>8, <1>9, Zenon DEF TopRealSellers, ClassifyExit, ApiStart, ClassifyStart, vars, classifierVars
  <1>10. CASE ApiCrash \/ \E i \in DOMAIN refreshes : RefreshFails(i)
    <2>1. /\ UNCHANGED <<tables, viewVars>>
          /\ refreshes' = refreshes \/ \E i \in DOMAIN refreshes : Abandon(i)
      BY <1>10, Zenon DEF ApiCrash, RefreshFails
    <2> QED BY <1>6, <1>8, <2>1
  <1> QED BY <1>2, <1>4, <1>5, <1>7, <1>9, <1>10, Zenon DEF Next, ClassifierNext

\* Of a view that has seen every commit the dashboard shows what the tables say,
\* whoever refreshed it, whatever failed, and whichever labels were given since;
\* so once the parser stops, the next refresh that ends makes it exact for good.
THEOREM ViewIsExact == Spec => [](viewAt = commits => view = SellerStats)
  <1>1. Init => Exact
    <2> SUFFICES ASSUME Init PROVE Exact
      OBVIOUS
    <2>1. refreshes = <<>> /\ view = Empty /\ label = Empty
      BY DEF Init, ClassifierInit
    <2>2. SellerStats = Empty
      BY <2>1 DEF SellerStats, Empty
    <2> QED BY <2>1, <2>2 DEF Exact
  <1>2. IInv /\ Exact /\ [Next]_vars => Exact'
    BY ExactKept
  <1>3. Exact => (viewAt = commits => view = SellerStats)
    BY DEF Exact
  <1> QED BY <1>1, <1>2, <1>3, InvariantHolds, PTL DEF Spec

-----------------------------------------------------------------------------
(* What the API reads.                                                     *)

\* The seller of a stored listing is stored.
Stored == \A l \in Listing : listings[l] # NoRow => label[listings[l].seller] # NoRow

LEMMA StoredKept ==
  ASSUME TypeOK, Stored, [Next]_vars
  PROVE  Stored'
  <1>1. ASSUME label' = label, listings' = listings
        PROVE  Stored'
    BY <1>1 DEF Stored
  <1>2. CASE UNCHANGED vars
    BY <1>1, <1>2 DEF vars, classifierVars, tables
  <1>3. ASSUME NEW l \in Listing, NEW r \in ListingRow, Parse(l, r)
        PROVE  Stored'
    <2>1. /\ label' = [label EXCEPT ![r.seller] = LabelAfterUpsert(r.seller)]
          /\ listings' = [listings EXCEPT ![l] = r]
          /\ r.seller \in Seller /\ LabelAfterUpsert(r.seller) # NoRow
      BY <1>3, ConstantsTyped DEF Parse, LabelAfterUpsert, ListingRow
    <2>2. /\ label \in [Seller -> Label \cup {Null, NoRow}]
          /\ listings \in [Listing -> ListingRow \cup {NoRow}]
      BY DEF TypeOK, ClassifierTypeOK
    <2>3. \A s \in Seller : label[s] # NoRow => label'[s] # NoRow
      BY <2>1, <2>2
    <2>4. ASSUME NEW m \in Listing, listings'[m] # NoRow
          PROVE  label'[listings'[m].seller] # NoRow
      <3>1. CASE m = l
        BY <2>1, <2>2, <3>1
      <3>2. CASE m # l
        <4>1. listings'[m] = listings[m] /\ listings[m].seller \in Seller
          BY <2>1, <2>2, <2>4, <3>2 DEF ListingRow
        <4> QED BY <2>3, <2>4, <4>1 DEF Stored
      <3> QED BY <3>1, <3>2
    <2> QED BY <2>4 DEF Stored
  <1>4. ASSUME NEW s \in Seller, NEW lab \in Label \cup {Null, "other"}, LabelSeller(s, lab)
        PROVE  Stored'
    <2>1. \A t \in Seller : label'[t] = NoRow <=> label[t] = NoRow
      BY <1>4, ConstantsTyped DEF LabelSeller, TypeOK, ClassifierTypeOK
    <2>2. listings' = listings
      BY <1>4 DEF LabelSeller, Unaffected
    <2>3. \A l \in Listing : listings[l] # NoRow => listings[l].seller \in Seller
      BY DEF TypeOK, ClassifierTypeOK, ListingRow
    <2> QED BY <2>1, <2>2, <2>3 DEF Stored
  <1>5. CASE \/ \E r \in {"api", "classify"} : RefreshBegin(r)
             \/ RefreshEnd \/ RefreshCancelled \/ \E i \in DOMAIN refreshes : RefreshFails(i)
             \/ \E refresh \in BOOLEAN : ClassifyStart(refresh)
             \/ TopRealSellers \/ ClassifyExit \/ ApiCrash \/ ApiStart
    <2>1. UNCHANGED tables
      BY <1>5, Zenon DEF RefreshBegin, RefreshEnd, RefreshCancelled, RefreshFails, ClassifyStart,
                         TopRealSellers, ClassifyExit, ApiCrash, ApiStart
    <2> QED BY <1>1, <2>1 DEF tables
  <1> QED BY <1>2, <1>3, <1>4, <1>5, Zenon DEF Next, ClassifierNext

THEOREM StoredHolds == Spec => [](TypeOK /\ Stored)
  <1>1. Init => Stored
    BY DEF Init, ClassifierInit, Stored
  <1>2. TypeOK /\ Stored /\ [Next]_vars => Stored'
    BY StoredKept
  <1> QED BY <1>1, <1>2, TypeCorrect, PTL DEF Spec

\* The score of a stored seller, whatever the view says: that of one taken for
\* private is above that of every other.
LEMMA ScoreOfKind ==
  ASSUME TypeOK, NEW s \in Classified
  PROVE  /\ ByOwner(s) => ScoreOf(s) \in 30..100
         /\ ~ByOwner(s) => ScoreOf(s) \in 0..20
  <1>1. s \in Seller /\ account[s] \in Account /\ label[s] \in {"owner", "agency", Null}
    BY DEF Classified, TypeOK, ClassifierTypeOK, Label
  <1>2. Stats(s) \in StatsRow
    BY <1>1 DEF Stats, StatsRow, TypeOK, ClassifierTypeOK
  <1>3. "owner" # Null /\ "agency" # Null
    BY ConstantsTyped DEF Label
  <1>4. /\ RealSellerScore("owner", account[s], Stats(s)) = 100
        /\ RealSellerScore("agency", account[s], Stats(s)) = 0
    BY <1>1, <1>2, ScoreIsSound
  <1>5. CASE label[s] = "owner"
    <2>1. ByOwner(s) /\ ScoreOf(s) = 100
      BY <1>4, <1>5 DEF ByOwner, ScoreOf
    <2> QED BY <2>1
  <1>6. CASE label[s] = "agency"
    <2>1. ~ByOwner(s) /\ ScoreOf(s) = 0
      BY <1>3, <1>4, <1>6 DEF ByOwner, ScoreOf
    <2> QED BY <2>1
  <1>7. CASE label[s] = Null
    <2> DEFINE sum == ComponentSum(account[s], Stats(s))
    <2>1. /\ sum \in Int
          /\ ~account[s].business => sum \in 30..100
          /\ account[s].business => sum <= 20
      BY <1>1, <1>2, SumIs
    <2>2. ScoreOf(s) = IF sum < 0 THEN 0 ELSE IF sum > 100 THEN 100 ELSE sum
      BY <1>1, <1>2, <1>7, ScoreWithoutLabel DEF ScoreOf
    <2>3. ByOwner(s) <=> ~account[s].business
      BY <1>3, <1>7, Zenon DEF ByOwner
    <2> HIDE DEF sum
    <2>4. CASE account[s].business
      BY <2>1, <2>2, <2>3, <2>4
    <2>5. CASE ~account[s].business
      <3>1. sum \in 30..100
        BY <2>1, <2>5
      <3>2. ScoreOf(s) = sum
        BY <2>2, <3>1
      <3> QED BY <2>3, <2>5, <3>1, <3>2
    <2> QED BY <2>4, <2>5
  <1> QED BY <1>1, <1>5, <1>6, <1>7

\* Every recent listing is on the default page, or the page is full; and no
\* listing of a business seller is on a page that leaves out one of a private
\* seller, however old the view is, for any cap and any labels.
THEOREM OwnersHold == Spec => []OwnersComeFirst
  <1>1. TypeOK /\ Stored => OwnersComeFirst
    <2> SUFFICES ASSUME TypeOK, Stored,
                        NEW area \in Area \cup {Null}, NEW limit \in 0..MaxLimit + 1,
                        NEW page \in Pages(area, limit), NEW l \in Listing,
                        Recent(l), l \notin page, area \in {Null, listings[l].area}
                 PROVE  /\ Cardinality(page) = Capped(limit)
                        /\ ByOwner(listings[l].seller) =>
                              \A m \in page : ByOwner(listings[m].seller)
      BY DEF OwnersComeFirst
    <2> DEFINE rows == Rows(DefaultMaxAgeDays, DefaultMinScore, area)
               cap  == Capped(limit)
    <2>1. /\ page \subseteq rows
          /\ Cardinality(page) = IF Cardinality(rows) < cap THEN Cardinality(rows) ELSE cap
          /\ \A k \in rows \ page, m \in page : ~Before(k, m)
      BY DEF Pages, ListListings
    <2>2. /\ l \in rows /\ rows \subseteq ClassifiedListings
      <3>1. listings[l].seller \in Seller
        BY DEF Recent, TypeOK, ClassifierTypeOK, ListingRow
      <3>2. listings[l].seller \in Classified
        BY <3>1 DEF Recent, Stored, Classified
      <3>3. ScoreOf(listings[l].seller) >= DefaultMinScore
        BY <3>2, ScoreOfKind DEF DefaultMinScore
      <3>4. /\ listings[l].posted # Null /\ listings[l].posted <= DefaultMaxAgeDays
            /\ listings[l] # NoRow /\ listings[l].active
        BY ClassifierAssumption DEF Recent
      <3>5. l \in ClassifiedListings
        BY <3>2, <3>4 DEF ClassifiedListings
      <3> QED BY <3>3, <3>4, <3>5 DEF Rows
    <2>3. Cardinality(page) = cap
      <3>1. IsFiniteSet(rows)
        BY <2>2, ConstantsTyped, FS_Subset DEF ClassifiedListings
      <3> HIDE DEF rows, cap
      <3>2. page # rows
        BY <2>2
      <3>3. Cardinality(page) # Cardinality(rows)
        BY <2>1, <3>1, <3>2, FS_Subset
      <3> QED BY <2>1, <3>3
    <2>4. ASSUME ByOwner(listings[l].seller), NEW m \in page
          PROVE  ByOwner(listings[m].seller)
      <3>1. listings[l].seller \in Classified /\ listings[m].seller \in Classified
        BY <2>1, <2>2 DEF ClassifiedListings
      <3>2. ~Before(l, m)
        BY <2>1, <2>2
      <3>3. ScoreOf(listings[l].seller) \in 30..100
        BY <2>4, <3>1, ScoreOfKind
      <3>4. ~ByOwner(listings[m].seller) => ScoreOf(listings[m].seller) \in 0..20
        BY <3>1, ScoreOfKind
      <3> QED BY <3>2, <3>3, <3>4 DEF Before
    <2> QED BY <2>3, <2>4
  <1> QED BY <1>1, StoredHolds, PTL

=============================================================================
