---------------------------- MODULE ReviewsProofs ----------------------------
(***************************************************************************)
(* Theorems about Reviews, for any reviews, deletions, summaries and       *)
(* seeds: first the counts, then the averages, which rest on them.         *)
(***************************************************************************)
EXTENDS Reviews, FiniteSetTheorems, TLAPS

ReviewStates == {"idle", "loaded", "done", "failed"} \cup Sharing

\* The types of what counting needs: ratings are left open.
Shapes ==
  /\ listed \in BOOLEAN
  /\ row.count \in Nat
  /\ reviews \subseteq Reviewers
  /\ pc \in [Reviewers -> ReviewStates]
  /\ DOMAIN loaded = Reviewers
  /\ DOMAIN computed = Reviewers
  /\ \A r \in Reviewers : loaded[r].count \in Nat /\ computed[r].count \in Nat
  /\ spc \in [Readers -> {"idle", "read", "answered", "failed"}]
  /\ summary \in [Readers -> [total : Nat, counted : Nat, seeded : BOOLEAN]]

\* Until the first review is committed everybody has read the seed.
SeedLoaded ==
  listed /\ reviews = {} =>
    \A r \in Reviewers : pc[r] \in Sharing \cup {"loaded"} => loaded[r].count = row.count

\* A count that was selected does not exceed what a commit leaves.
CountsOK ==
  \A r \in Reviewers : pc[r] \in {"aggregated", "written"} =>
    computed[r].count <= Cardinality(reviews \cup {r})

\* Nor does a total that was read exceed the reviews that are still to be counted.
SummariesOK ==
  \A s \in Readers : spc[s] = "read" /\ listed /\ ~summary[s].seeded =>
    summary[s].total <= Cardinality(reviews)

IInv ==
  /\ Shapes
  /\ SeedLoaded
  /\ CountsOK
  /\ SummariesOK
  /\ NoOrphans
  /\ CountNotOverstated
  /\ SummaryCovered

-----------------------------------------------------------------------------
(* Sets of reviews.                                                        *)

\* Sets of reviews are finite, and grow as reviews are added.
LEMMA Counts ==
  ASSUME NEW S \in SUBSET Reviewers, NEW r \in Reviewers
  PROVE  /\ Cardinality(S) \in Nat
         /\ Cardinality(S \cup {r}) \in Nat
         /\ Cardinality(S) <= Cardinality(S \cup {r})
         /\ Cardinality(S \cup {r}) >= 1
         /\ \A q \in Reviewers :
              Cardinality(S \cup {q}) <= Cardinality((S \cup {r}) \cup {q})
<1>1. \A T \in SUBSET Reviewers : IsFiniteSet(T) /\ Cardinality(T) \in Nat
  BY RequestsAssumption, FS_Subset, FS_CardinalityType
<1>2. S \cup {r} \in SUBSET Reviewers
  OBVIOUS
<1>3. Cardinality(S) <= Cardinality(S \cup {r})
  BY <1>1, <1>2, FS_Subset
<1>4. Cardinality(S \cup {r}) # 0
  BY <1>1, <1>2, FS_EmptySet
<1>5. ASSUME NEW q \in Reviewers
      PROVE  Cardinality(S \cup {q}) <= Cardinality((S \cup {r}) \cup {q})
  <2>1. (S \cup {r}) \cup {q} \in SUBSET Reviewers
        /\ S \cup {q} \in SUBSET ((S \cup {r}) \cup {q})
    OBVIOUS
  <2>2. IsFiniteSet((S \cup {r}) \cup {q})
    BY <1>1, <2>1
  <2> QED
    BY <2>1, <2>2, FS_Subset
<1> QED
  BY <1>1, <1>2, <1>3, <1>4, <1>5

-----------------------------------------------------------------------------
(* Steps.                                                                  *)

\* A new product has no review and nobody has read it.
LEMMA InitOK == Init => IInv
<1> SUFFICES ASSUME Init PROVE IInv
  OBVIOUS
<1>1. Shapes
  <2>1. row.count \in Nat
    BY SeedsAssumption DEF Init, Aggregate
  <2> QED
    BY <2>1 DEF Init, Shapes, ReviewStates, Unread, NoSummary
<1>2. SeedLoaded /\ CountsOK /\ SummariesOK /\ NoOrphans /\ CountNotOverstated
      /\ SummaryCovered
  BY DEF Init, SeedLoaded, Sharing, CountsOK, SummariesOK, NoOrphans,
     CountNotOverstated, SummaryCovered
<1> QED
  BY <1>1, <1>2 DEF IInv

\* The product is read, and the review inserted.
LEMMA EnterStep ==
  ASSUME IInv, NEW r \in Reviewers,
         (\E n \in Stars : LoadProduct(r, n)) \/ InsertReview(r)
  PROVE  IInv'
<1> USE DEF IInv
<1>1. UNCHANGED <<listed, row, reviews, computed, spc, summary>>
  BY DEF LoadProduct, InsertReview
<1>2. PICK to \in {"loaded", "inserted", "failed"} :
        /\ pc' = [pc EXCEPT ![r] = to]
        /\ to = "inserted" => listed /\ pc[r] = "loaded"
  BY DEF LoadProduct, InsertReview
<1>3. /\ DOMAIN loaded' = Reviewers
      /\ \A q \in Reviewers : loaded'[q].count \in Nat
      /\ \A q \in Reviewers \ {r} : loaded'[q] = loaded[q]
      /\ to = "loaded" => loaded'[r] = row
      /\ to = "inserted" => loaded'[r] = loaded[r]
  BY <1>2 DEF LoadProduct, InsertReview, Shapes
<1>4. Shapes'
  BY <1>1, <1>2, <1>3 DEF Shapes, ReviewStates, Sharing
<1>5. SeedLoaded'
  BY <1>1, <1>2, <1>3 DEF SeedLoaded, Shapes, Sharing
<1>6. CountsOK' /\ NoOrphans'
  BY <1>1, <1>2 DEF CountsOK, NoOrphans, Shapes, Sharing
<1>7. SummariesOK' /\ CountNotOverstated' /\ SummaryCovered'
  BY <1>1 DEF SummariesOK, CountNotOverstated, SummaryCovered
<1> QED
  BY <1>4, <1>5, <1>6, <1>7

\* The aggregate is selected: what is committed and the review itself.
LEMMA SelectStep ==
  ASSUME IInv, NEW r \in Reviewers, SelectAggregate(r)
  PROVE  IInv'
<1> USE DEF IInv
<1>1. /\ UNCHANGED <<listed, row, reviews, loaded, spc, summary>>
      /\ pc[r] = "inserted" /\ pc' = [pc EXCEPT ![r] = "aggregated"]
  BY DEF SelectAggregate
<1>2. /\ DOMAIN computed' = Reviewers
      /\ computed'[r].count = Cardinality(reviews \cup {r})
      /\ \A q \in Reviewers \ {r} : computed'[q] = computed[q]
  BY DEF SelectAggregate, Counted, Visible, Shapes
<1>3. Cardinality(reviews \cup {r}) \in Nat
  BY Counts DEF Shapes
<1>4. Shapes'
  BY <1>1, <1>2, <1>3 DEF Shapes, ReviewStates, Sharing
<1>5. SeedLoaded' /\ NoOrphans'
  BY <1>1 DEF SeedLoaded, NoOrphans, Shapes, Sharing
<1>6. CountsOK'
  <2> SUFFICES ASSUME NEW q \in Reviewers, pc'[q] \in {"aggregated", "written"}
               PROVE  computed'[q].count <= Cardinality(reviews \cup {q})
    BY <1>1 DEF CountsOK
  <2>1. CASE q = r
    BY <1>2, <1>3, <2>1
  <2>2. CASE q # r
    BY <1>1, <1>2, <2>2 DEF CountsOK, Shapes
  <2> QED
    BY <2>1, <2>2
<1>7. SummariesOK' /\ CountNotOverstated' /\ SummaryCovered'
  BY <1>1 DEF SummariesOK, CountNotOverstated, SummaryCovered
<1> QED
  BY <1>4, <1>5, <1>6, <1>7

\* The UPDATE, or the end of a request that fails: nothing is committed.
LEMMA WriteStep ==
  ASSUME IInv, NEW r \in Reviewers, WriteAggregate(r) \/ Crash(r)
  PROVE  IInv'
<1> USE DEF IInv
<1>1. UNCHANGED <<listed, row, reviews, spc, summary>>
  BY DEF WriteAggregate, Crash
<1>2. PICK to \in {"written", "failed"} :
        /\ pc' = [pc EXCEPT ![r] = to]
        /\ to = "written" => /\ pc[r] = "aggregated"
                             /\ UNCHANGED <<loaded, computed>>
  BY DEF WriteAggregate, Crash
<1>3. /\ DOMAIN loaded' = Reviewers /\ DOMAIN computed' = Reviewers
      /\ \A q \in Reviewers : loaded'[q].count \in Nat /\ computed'[q].count \in Nat
      /\ \A q \in Reviewers \ {r} : loaded'[q] = loaded[q] /\ computed'[q] = computed[q]
  BY DEF WriteAggregate, Crash, Forget, Unread, Shapes
<1>4. Shapes'
  BY <1>1, <1>2, <1>3 DEF Shapes, ReviewStates, Sharing
<1>5. SeedLoaded' /\ CountsOK' /\ NoOrphans'
  BY <1>1, <1>2, <1>3 DEF SeedLoaded, CountsOK, NoOrphans, Shapes, Sharing
<1>6. SummariesOK' /\ CountNotOverstated' /\ SummaryCovered'
  BY <1>1 DEF SummariesOK, CountNotOverstated, SummaryCovered
<1> QED
  BY <1>4, <1>5, <1>6

\* The commit: the count written is one that was selected, or was there already.
LEMMA CommitStep ==
  ASSUME IInv, NEW r \in Reviewers, Commit(r)
  PROVE  IInv'
<1> USE DEF IInv
<1>1. /\ UNCHANGED <<listed, spc, summary>>
      /\ pc[r] = "written" /\ pc' = [pc EXCEPT ![r] = "done"]
      /\ reviews' = reviews \cup {r}
      /\ row'.count = IF computed[r].count = loaded[r].count THEN row.count
                                                           ELSE computed[r].count
      /\ DOMAIN loaded' = Reviewers /\ DOMAIN computed' = Reviewers
      /\ \A q \in Reviewers : loaded'[q].count \in Nat /\ computed'[q].count \in Nat
      /\ \A q \in Reviewers \ {r} : loaded'[q] = loaded[q] /\ computed'[q] = computed[q]
  BY DEF Commit, Forget, Merged, Unread, Shapes
<1>2. listed
  BY <1>1 DEF NoOrphans, Sharing
<1>3. /\ Cardinality(reviews) \in Nat /\ Cardinality(reviews') \in Nat
      /\ Cardinality(reviews) <= Cardinality(reviews')
      /\ \A q \in Reviewers :
           /\ Cardinality(reviews \cup {q}) <= Cardinality(reviews' \cup {q})
           /\ Cardinality(reviews \cup {q}) \in Nat
           /\ Cardinality(reviews' \cup {q}) \in Nat
  BY <1>1, Counts DEF Shapes
<1>4. Shapes'
  BY <1>1 DEF Shapes, ReviewStates
<1>5. row'.count <= Cardinality(reviews')
  <2>1. computed[r].count <= Cardinality(reviews')
    BY <1>1 DEF CountsOK
  <2>2. row.count <= Cardinality(reviews') \/ row.count = loaded[r].count
    <3>1. CASE reviews = {}
      BY <1>1, <1>2, <3>1 DEF SeedLoaded, Sharing
    <3>2. CASE reviews # {}
      BY <1>2, <1>3, <3>2 DEF CountNotOverstated, Shapes
    <3> QED
      BY <3>1, <3>2
  <2> QED
    BY <1>1, <2>1, <2>2
<1>6. SeedLoaded' /\ CountNotOverstated' /\ NoOrphans'
  BY <1>1, <1>2, <1>5 DEF SeedLoaded, CountNotOverstated, NoOrphans
<1>7. CountsOK'
  <2> SUFFICES ASSUME NEW q \in Reviewers, pc'[q] \in {"aggregated", "written"}
               PROVE  computed'[q].count <= Cardinality(reviews' \cup {q})
    BY DEF CountsOK
  <2>1. q # r /\ pc'[q] = pc[q] /\ computed'[q] = computed[q]
    BY <1>1 DEF Shapes
  <2>2. computed[q].count <= Cardinality(reviews \cup {q}) /\ computed[q].count \in Nat
    BY <2>1 DEF CountsOK, Shapes
  <2>3. /\ Cardinality(reviews \cup {q}) <= Cardinality(reviews' \cup {q})
        /\ Cardinality(reviews \cup {q}) \in Nat
        /\ Cardinality(reviews' \cup {q}) \in Nat
    BY <1>3
  <2> HIDE DEF IInv
  <2> QED
    BY <2>1, <2>2, <2>3
<1>8. SummariesOK'
  <2> SUFFICES ASSUME NEW s \in Readers, spc[s] = "read", ~summary[s].seeded
               PROVE  summary[s].total <= Cardinality(reviews')
    BY <1>1 DEF SummariesOK
  <2>1. summary[s].total <= Cardinality(reviews) /\ summary[s].total \in Nat
    BY <1>2 DEF SummariesOK, Shapes
  <2> QED
    BY <1>3, <2>1
<1>9. SummaryCovered'
  BY <1>1 DEF SummaryCovered
<1> QED
  BY <1>4, <1>6, <1>7, <1>8, <1>9

\* A deletion: when it succeeds no review is in progress.
LEMMA DeleteStep ==
  ASSUME IInv, NEW d \in Deleters,
         StartDelete(d) \/ \E ordered \in BOOLEAN : Delete(d, ordered)
  PROVE  IInv'
<1> USE DEF IInv
<1>1. UNCHANGED <<pc, loaded, computed, spc, summary>>
  BY DEF StartDelete, Delete, reviewVars
<1>2. CASE UNCHANGED <<listed, row, reviews>>
  BY <1>1, <1>2 DEF Shapes, SeedLoaded, CountsOK, SummariesOK, NoOrphans,
     CountNotOverstated, SummaryCovered
<1>3. CASE /\ listed' = FALSE /\ row' = Unread /\ reviews' = {}
           /\ \A r \in Reviewers : pc[r] \notin Sharing
  <2>1. Shapes'
    BY <1>1, <1>3 DEF Shapes, Unread
  <2>2. CountsOK'
    BY <1>1, <1>3 DEF CountsOK, Sharing
  <2>3. SeedLoaded' /\ SummariesOK' /\ NoOrphans' /\ CountNotOverstated' /\ SummaryCovered'
    BY <1>1, <1>3 DEF SeedLoaded, SummariesOK, NoOrphans, CountNotOverstated,
       SummaryCovered
  <2> QED
    BY <2>1, <2>2, <2>3
<1>4. CASE \E ordered \in BOOLEAN : Delete(d, ordered)
  <2>1. PICK ordered \in BOOLEAN : Delete(d, ordered)
    BY <1>4
  <2>2. CASE listed /\ ordered
    BY <1>2, <2>1, <2>2 DEF Delete
  <2>3. CASE ~(listed /\ ordered)
    <3>1. listed' = FALSE /\ row' = Unread
      BY <2>1, <2>3 DEF Delete
    <3>2. reviews' = {}
      BY <2>1, <2>3 DEF Delete, NoOrphans
    <3>3. \A r \in Reviewers : pc[r] \notin Sharing
      BY <2>1 DEF Delete, NoInsertInFlight, NoOrphans
    <3> QED
      BY <1>3, <3>1, <3>2, <3>3
  <2> QED
    BY <2>2, <2>3
<1>5. CASE StartDelete(d)
  BY <1>2, <1>5 DEF StartDelete
<1> QED
  BY <1>4, <1>5

\* A summary is read in two statements.
LEMMA SummaryStep ==
  ASSUME IInv, NEW s \in Readers, ReadRow(s) \/ ReadHistogram(s)
  PROVE  IInv'
<1> USE DEF IInv
<1>1. UNCHANGED <<listed, row, reviews, pc, loaded, computed>>
  BY DEF ReadRow, ReadHistogram, reviewVars
<1>2. Cardinality(reviews) \in Nat
  BY RequestsAssumption, FS_Subset, FS_CardinalityType DEF Shapes
<1>3. SeedLoaded' /\ CountsOK' /\ NoOrphans' /\ CountNotOverstated'
  BY <1>1 DEF SeedLoaded, CountsOK, NoOrphans, CountNotOverstated
<1>4. CASE ReadRow(s)
  <2>1. CASE listed
    <3> DEFINE new == [total |-> row.count, counted |-> 0, seeded |-> reviews = {}]
    <3>1. spc' = [spc EXCEPT ![s] = "read"] /\ summary' = [summary EXCEPT ![s] = new]
      BY <1>4, <2>1 DEF ReadRow
    <3>2. /\ new \in [total : Nat, counted : Nat, seeded : BOOLEAN]
          /\ ~new.seeded => new.total <= Cardinality(reviews)
      BY <2>1 DEF Shapes, CountNotOverstated
    <3> HIDE DEF new
    <3> QED
      BY <1>1, <1>3, <3>1, <3>2 DEF Shapes, SummariesOK, SummaryCovered
  <2>2. CASE ~listed
    BY <1>1, <1>3, <1>4, <2>2 DEF ReadRow, Shapes, SummariesOK, SummaryCovered
  <2> QED
    BY <2>1, <2>2
<1>5. CASE ReadHistogram(s)
  <2> DEFINE total == IF summary[s].total = 0 THEN Cardinality(reviews)
                                              ELSE summary[s].total
             new == [summary[s] EXCEPT !.counted = Cardinality(reviews), !.total = total]
  <2>1. summary[s] \in [total : Nat, counted : Nat, seeded : BOOLEAN]
    BY DEF Shapes
  <2>2. /\ new \in [total : Nat, counted : Nat, seeded : BOOLEAN]
        /\ new.counted = Cardinality(reviews)
        /\ new.seeded = summary[s].seeded
        /\ new.total = total
    BY <1>2, <2>1
  <2>3. summary' = [summary EXCEPT ![s] = new]
    BY <1>5, <2>1 DEF ReadHistogram, Shapes
  <2> HIDE DEF new
  <2>4. /\ spc[s] = "read" /\ spc' = [spc EXCEPT ![s] = "answered"]
        /\ summary' \in [Readers -> [total : Nat, counted : Nat, seeded : BOOLEAN]]
        /\ summary'[s].counted = Cardinality(reviews)
        /\ summary'[s].seeded = summary[s].seeded
        /\ summary'[s].total = total
        /\ \A q \in Readers \ {s} : summary'[q] = summary[q]
    BY <1>5, <2>2, <2>3 DEF ReadHistogram, Shapes
  <2>5. Shapes'
    BY <1>1, <2>4 DEF Shapes
  <2>6. SummariesOK'
    BY <1>1, <2>4 DEF SummariesOK, Shapes
  <2>7. SummaryCovered'
    <3>1. listed /\ ~summary[s].seeded => summary'[s].total <= summary'[s].counted
      BY <1>2, <2>4 DEF SummariesOK
    <3> QED
      BY <1>1, <2>4, <3>1 DEF SummaryCovered, Shapes
  <2> QED
    BY <1>3, <2>5, <2>6, <2>7
<1> QED
  BY <1>4, <1>5

\* Every step preserves the inductive invariant.
LEMMA Inductive == IInv /\ [Next]_vars => IInv'
<1> SUFFICES ASSUME IInv, [Next]_vars PROVE IInv'
  OBVIOUS
<1>1. CASE UNCHANGED vars
  BY <1>1 DEF vars, reviewVars, IInv, Shapes, SeedLoaded, CountsOK, SummariesOK,
     NoOrphans, CountNotOverstated, SummaryCovered
<1>2. CASE \E r \in Reviewers :
             (\E n \in Stars : LoadProduct(r, n)) \/ ReviewProgress(r) \/ Crash(r)
  BY <1>2, EnterStep, SelectStep, WriteStep, CommitStep DEF ReviewProgress
<1>3. CASE \E d \in Deleters : StartDelete(d) \/ \E ordered \in BOOLEAN : Delete(d, ordered)
  BY <1>3, DeleteStep
<1>4. CASE \E s \in Readers : ReadRow(s) \/ ReadHistogram(s)
  BY <1>4, SummaryStep
<1> QED
  BY <1>1, <1>2, <1>3, <1>4 DEF Next, Quiescent

\* The inductive invariant holds throughout.
THEOREM Invariant == Spec => []IInv
<1> QED
  BY InitOK, Inductive, PTL DEF Spec

-----------------------------------------------------------------------------
(* What follows.                                                           *)

\* reviews_count never claims a review that is not there, with any number of
\* reviews computing and writing it at once.
THEOREM CountSound == Spec => []CountNotOverstated
<1>1. IInv => CountNotOverstated
  BY DEF IInv
<1> QED
  BY <1>1, Invariant, PTL

\* A deleted product leaves no review behind, and none that could still come.
THEOREM NoneOrphaned == Spec => []NoOrphans
<1>1. IInv => NoOrphans
  BY DEF IInv
<1> QED
  BY <1>1, Invariant, PTL

\* The total a summary shows is covered by the histogram read after it.
THEOREM SummariesCovered == Spec => []SummaryCovered
<1>1. IInv => SummaryCovered
  BY DEF IInv
<1> QED
  BY <1>1, Invariant, PTL

-----------------------------------------------------------------------------
(* Averages.                                                               *)

\* There is one rating per review, between 1 and 5.
LEMMA StarsBounds ==
  ASSUME NEW S \in SUBSET Reviewers, stars \in [Reviewers -> 1..5]
  PROVE  /\ Cardinality(S) \in Nat /\ TotalStars(S) \in Nat
         /\ Cardinality(S) <= TotalStars(S) /\ TotalStars(S) <= 5 * Cardinality(S)
<1> DEFINE A(n) == {r \in S : stars[r] = n}
           U(n) == {r \in S : stars[r] <= n}
<1>1. \A T \in SUBSET S : IsFiniteSet(T) /\ Cardinality(T) \in Nat
  BY RequestsAssumption, FS_Subset, FS_CardinalityType
<1>2. \A n \in 0..5 : A(n) \in SUBSET S /\ U(n) \in SUBSET S
  OBVIOUS
<1>3. ASSUME NEW n \in 1..5
      PROVE  Cardinality(U(n)) = Cardinality(U(n - 1)) + Cardinality(A(n))
  <2>1. U(n) = U(n - 1) \cup A(n) /\ U(n - 1) \cap A(n) = {}
    OBVIOUS
  <2>2. IsFiniteSet(U(n - 1)) /\ IsFiniteSet(A(n))
    BY <1>1
  <2>3. Cardinality(U(n - 1)) \in Nat /\ Cardinality(A(n)) \in Nat /\ Cardinality({}) = 0
    BY <1>1, FS_EmptySet
  <2> HIDE DEF U, A
  <2> QED
    BY <2>1, <2>2, <2>3, FS_Union
<1>4. U(0) = {} /\ U(5) = S /\ Cardinality({}) = 0
  BY FS_EmptySet
<1>5. \A n \in 0..5 : Cardinality(A(n)) \in Nat
  BY <1>1, <1>2
<1>6. \A n : HowMany(S, n) = Cardinality(A(n))
  BY DEF HowMany
<1> HIDE DEF U, A
<1>7. Cardinality(S) = HowMany(S, 1) + HowMany(S, 2) + HowMany(S, 3)
                       + HowMany(S, 4) + HowMany(S, 5)
  <2>1. Cardinality(U(1)) = Cardinality(A(1))
    BY <1>3, <1>4, <1>5
  <2>2. Cardinality(U(2)) = Cardinality(U(1)) + Cardinality(A(2))
    BY <1>3
  <2>3. Cardinality(U(3)) = Cardinality(U(2)) + Cardinality(A(3))
    BY <1>3
  <2>4. Cardinality(U(4)) = Cardinality(U(3)) + Cardinality(A(4))
    BY <1>3
  <2>5. Cardinality(U(5)) = Cardinality(U(4)) + Cardinality(A(5))
    BY <1>3
  <2> QED
    BY <2>1, <2>2, <2>3, <2>4, <2>5, <1>4, <1>6
<1>8. /\ HowMany(S, 1) \in Nat /\ HowMany(S, 2) \in Nat /\ HowMany(S, 3) \in Nat
      /\ HowMany(S, 4) \in Nat /\ HowMany(S, 5) \in Nat
  BY <1>5, <1>6
<1> QED
  BY <1>7, <1>8 DEF TotalStars

\* Rounding to tenths stays within 1 and 5 stars.
LEMMA Rounding ==
  ASSUME NEW c \in Nat \ {0}, NEW t \in Nat, c <= t, t <= 5 * c
  PROVE  (20 * t + c) \div (2 * c) \in 10..50
<1> DEFINE x == 20 * t + c
           y == 2 * c
           q == x \div y
<1>1. x \in Nat /\ y \in Nat \ {0} /\ x >= 10 * y /\ x < 51 * y
  OBVIOUS
<1> HIDE DEF x, y
<1>2. q \in Int /\ y * q <= x /\ x < y * (q + 1)
  BY <1>1
<1> HIDE DEF q
<1>3. q >= 10
  BY <1>1, <1>2
<1>4. q <= 50
  BY <1>1, <1>2
<1> QED
  BY <1>2, <1>3, <1>4 DEF q, x, y

\* The average of any reviews is a rating.
LEMMA Averages ==
  ASSUME NEW S \in SUBSET Reviewers, S # {}, stars \in [Reviewers -> 1..5]
  PROVE  RoundedAverage(S) \in 10..50
<1>1. /\ Cardinality(S) \in Nat /\ TotalStars(S) \in Nat
      /\ Cardinality(S) <= TotalStars(S) /\ TotalStars(S) <= 5 * Cardinality(S)
  BY StarsBounds
<1>2. Cardinality(S) # 0
  BY RequestsAssumption, FS_Subset, FS_EmptySet
<1> QED
  BY <1>1, <1>2, Rounding DEF RoundedAverage

\* The average of reviews whose stars stay is the same.
LEMMA SameStars ==
  ASSUME NEW S, \A r \in S : stars'[r] = stars[r]
  PROVE  RoundedAverage(S)' = RoundedAverage(S)
<1>1. \A n : {r \in S : stars'[r] = n} = {r \in S : stars[r] = n}
  OBVIOUS
<1>2. \A n : HowMany(S, n)' = HowMany(S, n)
  BY <1>1 DEF HowMany
<1> QED
  BY <1>2 DEF RoundedAverage, TotalStars

-----------------------------------------------------------------------------
(* Ratings.                                                                *)

\* A committed review is done with, and keeps its stars.
CommittedDone == \A r \in reviews : pc[r] = "done"

\* Until the first review is committed everybody has read the seed, as it is.
SeedRead ==
  listed /\ reviews = {} =>
    \A r \in Reviewers : pc[r] \in Sharing \cup {"loaded"} => loaded[r] = row

\* A rating that was selected averages reviews that a commit leaves committed.
RatingsOK ==
  \A r \in Reviewers : pc[r] \in {"aggregated", "written"} =>
    \E S \in SUBSET (reviews \cup {r}) :
      S # {} /\ computed[r].rating = RoundedAverage(S)

\* With no other commit since it was read, the row is what was loaded, and what
\* was selected is exact.
UndisturbedOK ==
  \A r \in undisturbed :
    /\ listed /\ pc[r] \in Sharing \cup {"loaded"} => loaded[r] = row
    /\ pc[r] \in {"aggregated", "written"} =>
         computed[r] = [rating |-> RoundedAverage(reviews \cup {r}),
                        count |-> Cardinality(reviews \cup {r})]

RInv ==
  /\ TypeOK
  /\ CommittedDone
  /\ SeedRead
  /\ RatingsOK
  /\ RatingOfSomeReviews
  /\ UndisturbedOK

LEMMA InitRatings == Init => RInv
<1> SUFFICES ASSUME Init PROVE RInv
  OBVIOUS
<1>1. Unread \in Aggregate
  BY DEF Unread, Aggregate
<1>2. row \in Aggregate
  BY SeedsAssumption DEF Init
<1>3. TypeOK
  BY <1>1, <1>2 DEF Init, TypeOK, Sharing, NoSummary
<1> QED
  BY <1>3 DEF Init, RInv, CommittedDone, SeedRead, RatingsOK, RatingOfSomeReviews,
     UndisturbedOK, Sharing

\* A step of one review request that commits nothing: what it has selected is
\* right, and it changes the stars of no committed review.
LEMMA QuietStep ==
  ASSUME IInv, RInv, TypeOK', NEW r \in Reviewers,
         UNCHANGED <<listed, row, reviews>>,
         r \notin reviews,
         \A q \in Reviewers \ {r} : /\ pc'[q] = pc[q] /\ stars'[q] = stars[q]
                                    /\ loaded'[q] = loaded[q] /\ computed'[q] = computed[q]
                                    /\ q \in undisturbed' => q \in undisturbed,
         listed /\ pc'[r] \in Sharing \cup {"loaded"} =>
           loaded'[r] = row \/ /\ pc[r] \in Sharing \cup {"loaded"}
                               /\ loaded'[r] = loaded[r]
                               /\ r \in undisturbed' => r \in undisturbed,
         pc'[r] \in {"aggregated", "written"} =>
           /\ \E S \in SUBSET (reviews \cup {r}) :
                S # {} /\ computed'[r].rating = RoundedAverage(S)'
           /\ r \in undisturbed' =>
                computed'[r] = [rating |-> RoundedAverage(reviews \cup {r})',
                                count |-> Cardinality(reviews \cup {r})]
  PROVE  RInv'
<1> USE DEF RInv
<1>1. reviews \subseteq Reviewers /\ undisturbed' \subseteq Reviewers
  BY DEF TypeOK
<1>2. \A q \in Reviewers \ {r} : \A S \in SUBSET (reviews \cup {q}) :
        RoundedAverage(S)' = RoundedAverage(S)
  <2> SUFFICES ASSUME NEW q \in Reviewers \ {r}, NEW S \in SUBSET (reviews \cup {q})
               PROVE  RoundedAverage(S)' = RoundedAverage(S)
    OBVIOUS
  <2>1. \A p \in S : stars'[p] = stars[p]
    BY <1>1
  <2> QED
    BY <2>1, SameStars
<1>3. \A S \in SUBSET reviews : RoundedAverage(S)' = RoundedAverage(S)
  <2> SUFFICES ASSUME NEW S \in SUBSET reviews
               PROVE  RoundedAverage(S)' = RoundedAverage(S)
    OBVIOUS
  <2>1. \A p \in S : stars'[p] = stars[p]
    BY <1>1
  <2> QED
    BY <2>1, SameStars
<1>4. CommittedDone'
  BY <1>1 DEF CommittedDone
<1>5. SeedRead'
  BY DEF SeedRead
<1>6. RatingOfSomeReviews'
  <2> SUFFICES ASSUME listed, reviews # {}
               PROVE  \E S \in SUBSET reviews : S # {} /\ row.rating = RoundedAverage(S)'
    BY DEF RatingOfSomeReviews
  <2>1. PICK S \in SUBSET reviews : S # {} /\ row.rating = RoundedAverage(S)
    BY DEF RatingOfSomeReviews
  <2> QED
    BY <1>3, <2>1
<1>7. RatingsOK'
  <2> SUFFICES ASSUME NEW q \in Reviewers, pc'[q] \in {"aggregated", "written"}
               PROVE  \E S \in SUBSET (reviews \cup {q}) :
                        S # {} /\ computed'[q].rating = RoundedAverage(S)'
    BY DEF RatingsOK
  <2>1. CASE q = r
    BY <2>1
  <2>2. CASE q # r
    <3>1. PICK S \in SUBSET (reviews \cup {q}) :
            S # {} /\ computed[q].rating = RoundedAverage(S)
      BY <2>2 DEF RatingsOK
    <3> QED
      BY <1>2, <2>2, <3>1
  <2> QED
    BY <2>1, <2>2
<1>8. UndisturbedOK'
  <2> SUFFICES ASSUME NEW q \in undisturbed'
               PROVE  /\ listed /\ pc'[q] \in Sharing \cup {"loaded"} => loaded'[q] = row
                      /\ pc'[q] \in {"aggregated", "written"} =>
                           computed'[q] = [rating |-> RoundedAverage(reviews \cup {q})',
                                           count |-> Cardinality(reviews \cup {q})]
    BY DEF UndisturbedOK
  <2>1. CASE q = r
    BY <2>1 DEF UndisturbedOK
  <2>2. CASE q # r
    <3>1. RoundedAverage(reviews \cup {q})' = RoundedAverage(reviews \cup {q})
      <4>1. \A p \in reviews \cup {q} : stars'[p] = stars[p]
        BY <1>1, <2>2
      <4> QED
        BY SameStars, <4>1
    <3> QED
      BY <1>1, <2>2, <3>1 DEF UndisturbedOK
  <2> QED
    BY <2>1, <2>2
<1> QED
  BY <1>4, <1>5, <1>6, <1>7, <1>8

\* The product is read, the review inserted, the row updated, or the request fails.
LEMMA QuietRatings ==
  ASSUME IInv, RInv, NEW r \in Reviewers,
         (\E n \in Stars : LoadProduct(r, n)) \/ InsertReview(r) \/ WriteAggregate(r) \/ Crash(r)
  PROVE  RInv'
<1> USE DEF RInv
<1>1. /\ UNCHANGED <<listed, row, reviews, dpc, spc, summary>>
      /\ r \notin reviews
  BY DEF LoadProduct, InsertReview, WriteAggregate, Crash, CommittedDone, Sharing
<1>2. Unread \in Aggregate
  BY DEF Unread, Aggregate
<1>3. PICK to \in {"loaded", "inserted", "written", "failed"} :
        /\ pc' = [pc EXCEPT ![r] = to]
        /\ to = "loaded" => loaded' = [loaded EXCEPT ![r] = row]
        /\ to \in {"inserted", "written"} =>
             /\ pc[r] = IF to = "inserted" THEN "loaded" ELSE "aggregated"
             /\ UNCHANGED <<stars, loaded, computed, undisturbed>>
  BY DEF LoadProduct, InsertReview, WriteAggregate, Crash
<1>4. /\ stars' \in [Reviewers -> 1..5] /\ loaded' \in [Reviewers -> Aggregate]
      /\ computed' \in [Reviewers -> Aggregate] /\ undisturbed' \subseteq Reviewers
      /\ \A q \in Reviewers \ {r} : /\ stars'[q] = stars[q]
                                    /\ loaded'[q] = loaded[q] /\ computed'[q] = computed[q]
                                    /\ q \in undisturbed' => q \in undisturbed
  BY <1>2, StarsAssumption
     DEF LoadProduct, InsertReview, WriteAggregate, Crash, Forget, TypeOK
<1>5. TypeOK'
  BY <1>1, <1>3, <1>4 DEF TypeOK, Sharing
<1>6. /\ pc'[r] = to
      /\ \A q \in Reviewers \ {r} : pc'[q] = pc[q]
  BY <1>3 DEF TypeOK
<1>7. listed /\ to \in Sharing \cup {"loaded"} =>
        loaded'[r] = row \/ /\ pc[r] \in Sharing \cup {"loaded"}
                            /\ loaded'[r] = loaded[r]
                            /\ r \in undisturbed' => r \in undisturbed
  BY <1>3 DEF TypeOK, Sharing
<1>8. to \in {"aggregated", "written"} =>
        /\ \E S \in SUBSET (reviews \cup {r}) :
             S # {} /\ computed'[r].rating = RoundedAverage(S)'
        /\ r \in undisturbed' =>
             computed'[r] = [rating |-> RoundedAverage(reviews \cup {r})',
                             count |-> Cardinality(reviews \cup {r})]
  <2> SUFFICES ASSUME to = "written"
               PROVE  /\ \E S \in SUBSET (reviews \cup {r}) :
                           S # {} /\ computed[r].rating = RoundedAverage(S)'
                      /\ r \in undisturbed =>
                           computed[r] = [rating |-> RoundedAverage(reviews \cup {r})',
                                          count |-> Cardinality(reviews \cup {r})]
    BY <1>3
  <2>1. \A S : RoundedAverage(S)' = RoundedAverage(S)
    BY <1>3, SameStars
  <2>2. pc[r] = "aggregated"
    BY <1>3
  <2>3. PICK S \in SUBSET (reviews \cup {r}) : S # {} /\ computed[r].rating = RoundedAverage(S)
    BY <2>2 DEF RatingsOK
  <2>4. RoundedAverage(reviews \cup {r})' = RoundedAverage(reviews \cup {r})
    BY <1>1, <1>3, SameStars
  <2>5. r \in undisturbed =>
          computed[r] = [rating |-> RoundedAverage(reviews \cup {r}),
                         count |-> Cardinality(reviews \cup {r})]
    BY <2>2 DEF UndisturbedOK
  <2> QED
    BY <2>1, <2>3, <2>4, <2>5
<1> QED
  BY <1>1, <1>4, <1>5, <1>6, <1>7, <1>8, QuietStep

\* Average and count are selected over the reviews that are visible.
LEMMA SelectRatings ==
  ASSUME IInv, RInv, NEW r \in Reviewers, SelectAggregate(r)
  PROVE  RInv'
<1> USE DEF RInv
<1> DEFINE S == reviews \cup {r}
<1>1. /\ UNCHANGED <<listed, row, reviews, dpc, spc, summary, stars, loaded, undisturbed>>
      /\ pc[r] = "inserted" /\ r \notin reviews
      /\ pc' = [pc EXCEPT ![r] = "aggregated"]
      /\ computed' = [computed EXCEPT ![r] =
                        [rating |-> RoundedAverage(S), count |-> Cardinality(S)]]
  BY DEF SelectAggregate, CommittedDone, Rated, Counted, Visible
<1>2. S \in SUBSET Reviewers /\ S # {} /\ Cardinality(S) \in Nat
  BY Counts DEF TypeOK
<1>3. RoundedAverage(S) \in 10..50
  BY <1>2, Averages DEF TypeOK
<1>4. /\ computed'[r] = [rating |-> RoundedAverage(S), count |-> Cardinality(S)]
      /\ computed'[r].rating = RoundedAverage(S)
      /\ \A q \in Reviewers \ {r} : computed'[q] = computed[q] /\ pc'[q] = pc[q]
      /\ pc'[r] = "aggregated"
  BY <1>1 DEF TypeOK
<1>5. computed' \in [Reviewers -> Aggregate]
  <2> HIDE DEF S
  <2> QED
    BY <1>1, <1>2, <1>3 DEF TypeOK, Aggregate
<1>6. TypeOK'
  BY <1>1, <1>5 DEF TypeOK, Sharing
<1>7. \A T : RoundedAverage(T)' = RoundedAverage(T)
  BY <1>1, SameStars
<1>8. /\ \E T \in SUBSET (reviews \cup {r}) :
           T # {} /\ computed'[r].rating = RoundedAverage(T)'
      /\ computed'[r] = [rating |-> RoundedAverage(reviews \cup {r})',
                         count |-> Cardinality(reviews \cup {r})]
  BY <1>1, <1>4, <1>7
<1> HIDE DEF S
<1> QED
  BY <1>1, <1>4, <1>6, <1>8, QuietStep DEF Sharing

\* The commit: the rating written was selected, or the row had it from a commit.
LEMMA CommitRatings ==
  ASSUME IInv, RInv, NEW r \in Reviewers, Commit(r)
  PROVE  /\ RInv'
         /\ r \in undisturbed =>
              row' = [rating |-> RoundedAverage(reviews'), count |-> Cardinality(reviews')]
<1> USE DEF RInv
<1>1. /\ UNCHANGED <<listed, stars, dpc, spc, summary>>
      /\ pc[r] = "written" /\ pc' = [pc EXCEPT ![r] = "done"]
      /\ reviews' = reviews \cup {r} /\ undisturbed' = {} /\ row' = Merged(r)
  BY DEF Commit
<1>2. listed
  BY <1>1 DEF IInv, NoOrphans, Sharing
<1>3. /\ row \in Aggregate /\ computed[r] \in Aggregate /\ loaded[r] \in Aggregate
  BY DEF TypeOK
<1>4. /\ row'.rating = IF computed[r].rating = loaded[r].rating THEN row.rating
                                                                ELSE computed[r].rating
      /\ row'.count = IF computed[r].count = loaded[r].count THEN row.count
                                                             ELSE computed[r].count
      /\ row' \in Aggregate
  BY <1>1, <1>3 DEF Merged, Aggregate
<1>5. /\ \A q \in Reviewers \ {r} : pc'[q] = pc[q] /\ computed'[q] = computed[q]
      /\ loaded' \in [Reviewers -> Aggregate] /\ computed' \in [Reviewers -> Aggregate]
  BY <1>1 DEF Commit, Forget, Unread, Aggregate, TypeOK
<1>6. TypeOK'
  BY <1>1, <1>4, <1>5 DEF TypeOK
<1>7. CommittedDone' /\ SeedRead' /\ UndisturbedOK'
  BY <1>1 DEF CommittedDone, SeedRead, UndisturbedOK, TypeOK
<1>8. \A S : RoundedAverage(S)' = RoundedAverage(S)
  BY <1>1, SameStars
<1>9. RatingsOK'
  <2> SUFFICES ASSUME NEW q \in Reviewers, pc'[q] \in {"aggregated", "written"}
               PROVE  \E S \in SUBSET (reviews' \cup {q}) :
                        S # {} /\ computed'[q].rating = RoundedAverage(S)'
    BY DEF RatingsOK
  <2>1. q # r
    BY <1>1 DEF TypeOK
  <2>2. PICK S \in SUBSET (reviews \cup {q}) :
          S # {} /\ computed[q].rating = RoundedAverage(S)
    BY <1>5, <2>1 DEF RatingsOK
  <2> QED
    BY <1>1, <1>5, <1>8, <2>1, <2>2
<1>10. \E S \in SUBSET reviews' : S # {} /\ row'.rating = RoundedAverage(S)
  <2>1. \E S \in SUBSET reviews' : S # {} /\ computed[r].rating = RoundedAverage(S)
    BY <1>1 DEF RatingsOK
  <2>2. CASE reviews = {}
    <3>1. loaded[r] = row
      BY <1>1, <1>2, <2>2 DEF SeedRead, Sharing
    <3> QED
      BY <1>4, <2>1, <3>1
  <2>3. CASE reviews # {}
    <3>1. \E S \in SUBSET reviews' : S # {} /\ row.rating = RoundedAverage(S)
      BY <1>1, <1>2, <2>3 DEF RatingOfSomeReviews
    <3> QED
      BY <1>4, <2>1, <3>1
  <2> QED
    BY <2>2, <2>3
<1>11. RatingOfSomeReviews'
  BY <1>8, <1>10 DEF RatingOfSomeReviews
<1>12. r \in undisturbed =>
         row' = [rating |-> RoundedAverage(reviews'), count |-> Cardinality(reviews')]
  <2> SUFFICES ASSUME r \in undisturbed
               PROVE  row' = [rating |-> RoundedAverage(reviews'),
                              count |-> Cardinality(reviews')]
    OBVIOUS
  <2>1. /\ loaded[r] = row
        /\ computed[r] = [rating |-> RoundedAverage(reviews'), count |-> Cardinality(reviews')]
    BY <1>1, <1>2 DEF UndisturbedOK, Sharing
  <2>2. row'.rating = computed[r].rating /\ row'.count = computed[r].count
    BY <1>4, <2>1
  <2> QED
    BY <1>3, <1>4, <2>1, <2>2 DEF Aggregate
<1> QED
  BY <1>6, <1>7, <1>9, <1>11, <1>12

\* What leaves the reviews alone.
LEMMA OtherRatings ==
  ASSUME RInv, TypeOK', UNCHANGED <<listed, row, reviews, reviewVars>>
  PROVE  RInv'
<1>1. /\ listed' = listed /\ row' = row /\ reviews' = reviews /\ pc' = pc /\ stars' = stars
      /\ loaded' = loaded /\ computed' = computed /\ undisturbed' = undisturbed
  BY DEF reviewVars
<1>2. \A S : RoundedAverage(S)' = RoundedAverage(S)
  BY <1>1, SameStars
<1>3. CommittedDone' /\ SeedRead'
  BY <1>1 DEF RInv, CommittedDone, SeedRead
<1>4. RatingsOK'
  BY <1>1, <1>2 DEF RInv, RatingsOK
<1>5. RatingOfSomeReviews' /\ UndisturbedOK'
  BY <1>1, <1>2 DEF RInv, RatingOfSomeReviews, UndisturbedOK
<1> QED
  BY <1>3, <1>4, <1>5 DEF RInv

\* A deletion leaves no review and meets none in progress.
LEMMA DeleteRatings ==
  ASSUME IInv, RInv, NEW d \in Deleters,
         StartDelete(d) \/ \E ordered \in BOOLEAN : Delete(d, ordered)
  PROVE  RInv'
<1>1. dpc' \in [Deleters -> {"idle", "loaded", "refused", "done"}]
      /\ UNCHANGED <<reviewVars, spc, summary>>
  BY DEF StartDelete, Delete, RInv, TypeOK
<1>2. CASE UNCHANGED <<listed, row, reviews>>
  <2>1. TypeOK'
    BY <1>1, <1>2 DEF RInv, TypeOK, reviewVars
  <2> QED
    BY <1>1, <1>2, <2>1, OtherRatings
<1>3. CASE /\ listed' = FALSE /\ row' = Unread /\ reviews' = {}
           /\ \A r \in Reviewers : pc[r] \notin Sharing
  <2>1. TypeOK'
    <3>1. row' \in Aggregate
      BY <1>3 DEF Unread, Aggregate
    <3>2. pc' = pc /\ stars' = stars /\ loaded' = loaded /\ computed' = computed
          /\ undisturbed' = undisturbed /\ spc' = spc /\ summary' = summary
      BY <1>1 DEF reviewVars
    <3>3. TypeOK
      BY DEF RInv
    <3> QED
      BY <1>1, <1>3, <3>1, <3>2, <3>3 DEF TypeOK
  <2>2. RatingsOK' /\ UndisturbedOK'
    BY <1>1, <1>3 DEF RInv, TypeOK, RatingsOK, UndisturbedOK, reviewVars, Sharing
  <2> QED
    BY <1>3, <2>1, <2>2 DEF RInv, CommittedDone, SeedRead, RatingOfSomeReviews
<1>4. CASE \E ordered \in BOOLEAN : Delete(d, ordered)
  <2>1. PICK ordered \in BOOLEAN : Delete(d, ordered)
    BY <1>4
  <2>2. CASE listed /\ ordered
    BY <1>2, <2>1, <2>2 DEF Delete
  <2>3. CASE ~(listed /\ ordered)
    <3>1. listed' = FALSE /\ row' = Unread
      BY <2>1, <2>3 DEF Delete
    <3>2. reviews' = {}
      BY <2>1, <2>3 DEF Delete, IInv, NoOrphans
    <3>3. \A r \in Reviewers : pc[r] \notin Sharing
      BY <2>1 DEF Delete, NoInsertInFlight, IInv, NoOrphans
    <3> QED
      BY <1>3, <3>1, <3>2, <3>3
  <2> QED
    BY <2>2, <2>3
<1>5. CASE StartDelete(d)
  BY <1>2, <1>5 DEF StartDelete
<1> QED
  BY <1>4, <1>5

LEMMA SummaryRatings ==
  ASSUME IInv, RInv, IInv', NEW s \in Readers, ReadRow(s) \/ ReadHistogram(s)
  PROVE  RInv'
<1>1. UNCHANGED <<listed, row, reviews, reviewVars, dpc>>
  BY DEF ReadRow, ReadHistogram
<1>2. /\ spc' \in [Readers -> {"idle", "read", "answered", "failed"}]
      /\ summary' \in [Readers -> [total : Nat, counted : Nat, seeded : BOOLEAN]]
  BY DEF IInv, Shapes
<1>3. TypeOK'
  BY <1>1, <1>2 DEF RInv, TypeOK, reviewVars
<1> QED
  BY <1>1, <1>3, OtherRatings

LEMMA RatingsInductive == IInv /\ RInv /\ [Next]_vars => RInv'
<1> SUFFICES ASSUME IInv, RInv, [Next]_vars PROVE RInv'
  OBVIOUS
<1>1. CASE UNCHANGED vars
  <2>1. TypeOK'
    BY <1>1 DEF vars, reviewVars, RInv, TypeOK
  <2> QED
    BY <1>1, <2>1, OtherRatings DEF vars
<1>2. ASSUME NEW r \in Reviewers,
             (\E n \in Stars : LoadProduct(r, n)) \/ ReviewProgress(r) \/ Crash(r)
      PROVE  RInv'
  BY <1>2, QuietRatings, SelectRatings, CommitRatings DEF ReviewProgress
<1>3. ASSUME NEW d \in Deleters,
             StartDelete(d) \/ \E ordered \in BOOLEAN : Delete(d, ordered)
      PROVE  RInv'
  BY <1>3, DeleteRatings
<1>4. ASSUME NEW s \in Readers, ReadRow(s) \/ ReadHistogram(s) PROVE RInv'
  BY <1>4, Inductive, SummaryRatings
<1> QED
  BY <1>1, <1>2, <1>3, <1>4 DEF Next, Quiescent

\* Ratings are averages of reviews throughout.
THEOREM RatingsInvariant == Spec => [](IInv /\ RInv)
<1> QED
  BY InitOK, Inductive, InitRatings, RatingsInductive, PTL DEF Spec

\* Type correctness; above all, a product's rating is between 1.0 and 5.0 however
\* many reviews are averaged, as each review's is by its check constraint.
THEOREM TypeCorrect == Spec => []TypeOK
<1>1. RInv => TypeOK
  BY DEF RInv
<1> QED
  BY <1>1, RatingsInvariant, PTL

\* The rating shown averages some of the committed reviews, whichever requests
\* its column and the count's come from.
THEOREM RatingSound == Spec => []RatingOfSomeReviews
<1>1. RInv => RatingOfSomeReviews
  BY DEF RInv
<1> QED
  BY <1>1, RatingsInvariant, PTL

\* A review that no other disturbs makes the aggregate exact again.
THEOREM Repaired == Spec => UndisturbedIsExact
<1>1. IInv /\ RInv /\ [Next]_vars =>
        [\A r \in Reviewers : Commit(r) /\ r \in undisturbed =>
           row' = [rating |-> RoundedAverage(reviews'),
                   count |-> Cardinality(reviews')]]_vars
  BY CommitRatings
<1> QED
  BY <1>1, RatingsInvariant, PTL DEF Spec, UndisturbedIsExact
=============================================================================
