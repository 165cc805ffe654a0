------------------------------- MODULE Reviews -------------------------------
(***************************************************************************)
(* Reviews of one product and the aggregate kept on its row               *)
(* (app/api/v1/products.py: create_product_review,                         *)
(* get_product_ratings_summary, delete_product).                           *)
(*                                                                         *)
(* A review is one transaction at READ COMMITTED: the product is read, the *)
(* review is inserted, average and count are selected over what is         *)
(* committed by then and the review itself, and both are written to the    *)
(* product as literals.  The foreign key makes the insert hold the product *)
(* FOR KEY SHARE: other reviews do not mind, a deletion waits.             *)
(***************************************************************************)
EXTENDS Integers, FiniteSets

CONSTANTS
  Reviewers,  \* POST /products/{id}/reviews requests
  Deleters,   \* DELETE /products/{id} requests
  Readers,    \* GET /products/{id}/ratings-summary requests
  Stars,      \* ratings given
  Seeds       \* aggregates a product is created with

\* A rating is kept in tenths, as NUMERIC(2,1) does.
Aggregate == [rating : 10..50, count : Nat]

ASSUME StarsAssumption == Stars \subseteq 1..5
ASSUME SeedsAssumption == Seeds \subseteq Aggregate
ASSUME RequestsAssumption == IsFiniteSet(Reviewers)

VARIABLES
  listed,     \* the product row exists
  row,        \* its committed rating and reviews_count
  reviews,    \* the reviewers whose review is committed
  pc,         \* where each review request is
  stars,      \* what it rates
  loaded,     \* the aggregate on the row as it read it
  computed,   \* the aggregate it selected
  dpc,        \* where each deletion is
  spc,        \* where each summary is
  summary,    \* what it has read
  undisturbed \* ghost: reviews since whose first read no other was committed

reviewVars == <<pc, stars, loaded, computed, undisturbed>>
vars == <<listed, row, reviews, reviewVars, dpc, spc, summary>>

Unread == [rating |-> 50, count |-> 0]
NoSummary == [total |-> 0, counted |-> 0, seeded |-> FALSE]

Init ==
  /\ listed = TRUE
  /\ row \in Seeds
  /\ reviews = {}
  /\ pc = [r \in Reviewers |-> "idle"]
  /\ stars = [r \in Reviewers |-> 5]
  /\ loaded = [r \in Reviewers |-> Unread]
  /\ computed = [r \in Reviewers |-> Unread]
  /\ dpc = [d \in Deleters |-> "idle"]
  /\ spc = [s \in Readers |-> "idle"]
  /\ summary = [s \in Readers |-> NoSummary]
  /\ undisturbed = {}

\* Transactions that hold the product row FOR KEY SHARE.
Sharing == {"inserted", "aggregated", "written"}

-----------------------------------------------------------------------------
(* create_product_review                                                   *)

\* db.get(Product) and the 404.
LoadProduct(r, n) ==
  /\ pc[r] = "idle"
  /\ IF listed
     THEN /\ pc' = [pc EXCEPT ![r] = "loaded"]
          /\ stars' = [stars EXCEPT ![r] = n]
          /\ loaded' = [loaded EXCEPT ![r] = row]
          /\ undisturbed' = undisturbed \cup {r}
     ELSE /\ pc' = [pc EXCEPT ![r] = "failed"]
          /\ UNCHANGED <<stars, loaded, undisturbed>>
  /\ UNCHANGED <<listed, row, reviews, computed, dpc, spc, summary>>

\* db.flush(): refused by the foreign key when the product has gone meanwhile.
InsertReview(r) ==
  /\ pc[r] = "loaded"
  /\ pc' = [pc EXCEPT ![r] = IF listed THEN "inserted" ELSE "failed"]
  /\ UNCHANGED <<listed, row, reviews, stars, loaded, computed, undisturbed,
                 dpc, spc, summary>>

\* Slip: the aggregate is selected before the review is flushed.
CommittedOnly(r) == IF reviews = {} THEN {r} ELSE reviews

\* The reviews the transaction sees: what is committed, and its own.
Visible(r) == reviews \cup {r}

HowMany(S, n) == Cardinality({r \in S : stars[r] = n})

\* The sum of the ratings, from how many there are of each.
TotalStars(S) ==
  HowMany(S, 1) + 2 * HowMany(S, 2) + 3 * HowMany(S, 3) + 4 * HowMany(S, 4) + 5 * HowMany(S, 5)

\* Slip: sum(rating).
SumOfStars(S) == 10 * TotalStars(S)

\* round(avg(rating), 1), in tenths.
RoundedAverage(S) == (20 * TotalStars(S) + Cardinality(S)) \div (2 * Cardinality(S))

\* Slip: the new rating averages the row's and the review's.
RunningAverage(r) == (loaded[r].rating + 10 * stars[r]) \div 2

Rated(r) == RoundedAverage(Visible(r))

\* Slip: the count that was read, and one more.
OneMore(r) == loaded[r].count + 1

\* count(reviews.id)
Counted(r) == Cardinality(Visible(r))

SelectAggregate(r) ==
  /\ pc[r] = "inserted"
  /\ pc' = [pc EXCEPT ![r] = "aggregated"]
  /\ computed' = [computed EXCEPT ![r] =
       [rating |-> Rated(r), count |-> Counted(r)]]
  /\ UNCHANGED <<listed, row, reviews, stars, loaded, undisturbed,
                 dpc, spc, summary>>

\* Slip: the foreign key's lock keeps other reviews from writing the row.
AloneOnRow(r) == \A q \in Reviewers \ {r} : pc[q] \notin Sharing

\* An UPDATE of the row waits for the UPDATE of another transaction only.
RowFree(r) == \A q \in Reviewers \ {r} : pc[q] # "written"

\* The UPDATE of the product, when a column differs from what was loaded.
WriteAggregate(r) ==
  /\ pc[r] = "aggregated"
  /\ computed[r] # loaded[r] => RowFree(r)
  /\ pc' = [pc EXCEPT ![r] = "written"]
  /\ UNCHANGED <<listed, row, reviews, stars, loaded, computed, undisturbed,
                 dpc, spc, summary>>

\* A column is written only when it differs from what was loaded.
Merged(r) ==
  [rating |-> IF computed[r].rating = loaded[r].rating THEN row.rating
                                                       ELSE computed[r].rating,
   count  |-> IF computed[r].count = loaded[r].count THEN row.count
                                                     ELSE computed[r].count]

\* The request is done with what it read and computed.
Forget(r) ==
  /\ loaded' = [loaded EXCEPT ![r] = Unread]
  /\ computed' = [computed EXCEPT ![r] = Unread]

\* COMMIT.  What follows, the refresh of the review and the answer, may fail and
\* changes nothing.
Commit(r) ==
  /\ pc[r] = "written"
  /\ pc' = [pc EXCEPT ![r] = "done"]
  /\ Forget(r)
  /\ row' = Merged(r)
  /\ reviews' = reviews \cup {r}
  /\ undisturbed' = {}
  /\ UNCHANGED <<listed, stars, dpc, spc, summary>>

\* A database error or the death of the process: the transaction rolls back.
Crash(r) ==
  /\ pc[r] \in Sharing \cup {"loaded"}
  /\ pc' = [pc EXCEPT ![r] = "failed"]
  /\ stars' = [stars EXCEPT ![r] = 5]
  /\ Forget(r)
  /\ undisturbed' = undisturbed \ {r}
  /\ UNCHANGED <<listed, row, reviews, dpc, spc, summary>>

-----------------------------------------------------------------------------
(* delete_product                                                          *)

StartDelete(d) ==
  /\ dpc[d] = "idle"
  /\ dpc' = [dpc EXCEPT ![d] = IF listed THEN "loaded" ELSE "refused"]
  /\ UNCHANGED <<listed, row, reviews, reviewVars, spc, summary>>

\* Slip: the row is deleted under the inserts that refer to it.
UnderInserts == TRUE

\* DELETE waits for every transaction that holds the row FOR KEY SHARE.
NoInsertInFlight == \A r \in Reviewers : pc[r] \notin Sharing

\* The reviews go with the product, those committed since it was loaded by the
\* foreign key's CASCADE; an order keeps both; a second deletion finds nothing.
Delete(d, ordered) ==
  /\ dpc[d] = "loaded"
  /\ listed => NoInsertInFlight
  /\ dpc' = [dpc EXCEPT ![d] = IF listed /\ ordered THEN "refused" ELSE "done"]
  /\ listed' = (listed /\ ordered)
  /\ row' = IF listed' THEN row ELSE Unread
  /\ reviews' = IF ordered THEN reviews ELSE {}
  /\ UNCHANGED <<reviewVars, spc, summary>>

-----------------------------------------------------------------------------
(* get_product_ratings_summary: two statements, each with its own snapshot *)

ReadRow(s) ==
  /\ spc[s] = "idle"
  /\ IF listed
     THEN /\ spc' = [spc EXCEPT ![s] = "read"]
          /\ summary' = [summary EXCEPT ![s] =
               [total |-> row.count, counted |-> 0, seeded |-> reviews = {}]]
     ELSE /\ spc' = [spc EXCEPT ![s] = "failed"]
          /\ UNCHANGED summary
  /\ UNCHANGED <<listed, row, reviews, reviewVars, dpc>>

\* The histogram, and the total when the row says 0.
ReadHistogram(s) ==
  /\ spc[s] = "read"
  /\ spc' = [spc EXCEPT ![s] = "answered"]
  /\ summary' = [summary EXCEPT
       ![s].counted = Cardinality(reviews),
       ![s].total = IF @ = 0 THEN Cardinality(reviews) ELSE @]
  /\ UNCHANGED <<listed, row, reviews, reviewVars, dpc>>

-----------------------------------------------------------------------------
ReviewProgress(r) ==
  \/ InsertReview(r) \/ SelectAggregate(r) \/ WriteAggregate(r) \/ Commit(r)

\* Every request has been served.
Quiescent ==
  /\ \A r \in Reviewers : pc[r] \in {"done", "failed"}
  /\ \A d \in Deleters : dpc[d] # "loaded"
  /\ \A s \in Readers : spc[s] # "read"
  /\ UNCHANGED vars

Next ==
  \/ \E r \in Reviewers : (\E n \in Stars : LoadProduct(r, n)) \/ ReviewProgress(r) \/ Crash(r)
  \/ \E d \in Deleters : StartDelete(d) \/ \E ordered \in BOOLEAN : Delete(d, ordered)
  \/ \E s \in Readers : ReadRow(s) \/ ReadHistogram(s)
  \/ Quiescent

Spec == Init /\ [][Next]_vars

\* Requests that were begun go on: the event loop runs them, and PostgreSQL
\* grants a freed lock.
FairSpec ==
  /\ Spec
  /\ \A r \in Reviewers : WF_vars(ReviewProgress(r))
  /\ \A d \in Deleters : WF_vars(\E ordered \in BOOLEAN : Delete(d, ordered))
-----------------------------------------------------------------------------
(* Properties.                                                             *)

TypeOK ==
  /\ listed \in BOOLEAN
  /\ row \in Aggregate
  /\ reviews \subseteq Reviewers
  /\ pc \in [Reviewers -> {"idle", "loaded", "done", "failed"} \cup Sharing]
  /\ stars \in [Reviewers -> 1..5]
  /\ loaded \in [Reviewers -> Aggregate]
  /\ computed \in [Reviewers -> Aggregate]
  /\ dpc \in [Deleters -> {"idle", "loaded", "refused", "done"}]
  /\ spc \in [Readers -> {"idle", "read", "answered", "failed"}]
  /\ summary \in [Readers -> [total : Nat, counted : Nat, seeded : BOOLEAN]]
  /\ undisturbed \subseteq Reviewers

\* Concurrent reviews may leave reviews_count behind, but from the first review
\* on it never claims a review that is not there: not by the literal of a
\* request that selected before others committed or rolled back, nor by a column
\* the ORM left out.
CountNotOverstated ==
  listed /\ reviews # {} => row.count <= Cardinality(reviews)

\* The rating shown is the average of some of the committed reviews: the seed is
\* replaced by the first review, and rating and count, though they may come from
\* different requests, both come from selects over reviews that are committed.
RatingOfSomeReviews ==
  listed /\ reviews # {} =>
    \E S \in SUBSET reviews : S # {} /\ row.rating = RoundedAverage(S)

\* The aggregate repairs itself: a review during which no other was committed
\* leaves the exact average and count, however wrong the row had become.
UndisturbedIsExact ==
  [][\A r \in Reviewers : Commit(r) /\ r \in undisturbed =>
       row' = [rating |-> RoundedAverage(reviews'), count |-> Cardinality(reviews')]]_vars

\* The deletion of a product leaves no review behind, and no review in progress
\* that could still be committed to it.
NoOrphans ==
  ~listed => reviews = {} /\ \A r \in Reviewers : pc[r] \notin Sharing

\* The summary's total, read first, never exceeds the histogram counted after
\* it, so no percentage is too small, unless the count was the seller's or the
\* product was deleted in between.
SummaryCovered ==
  \A s \in Readers : spc[s] = "answered" /\ listed /\ ~summary[s].seeded =>
    summary[s].total <= summary[s].counted

\* Reviews that began and deletions that wait for them come to an end.
RequestsEnd ==
  /\ \A r \in Reviewers : pc[r] = "loaded" ~> pc[r] \in {"done", "failed"}
  /\ \A d \in Deleters : dpc[d] = "loaded" ~> dpc[d] \in {"refused", "done"}
=============================================================================
