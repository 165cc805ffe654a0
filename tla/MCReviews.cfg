\* Three reviews, a summary and a deletion overlap.
CONSTANTS
  r1 = r1
  r2 = r2
  r3 = r3
  d1 = d1
  s1 = s1
  Reviewers = {r1, r2, r3}
  Deleters = {d1}
  Readers = {s1}
  Stars = {2, 5}
  Seeds <- MCSeeds
SPECIFICATION FairSpec
INVARIANTS
  TypeOK
  CountNotOverstated
  RatingOfSomeReviews
  NoOrphans
  SummaryCovered
PROPERTIES
  UndisturbedIsExact
  RequestsEnd
