\* The catalogue and a product's reviews: three rows that share dates and prices.
CONSTANTS
  Missing = Missing
  Empty = Empty
  Names = {"list_products", "list_product_reviews"}
  Rows = {1, 2, 3}
  Histories <- MCHistories
  Prices = {1, 2}
  Limits = {1, 2}
  Blank = {Empty}
SPECIFICATION Spec
INVARIANTS
  TypeOK
  SteadySeenOnce
  MoreIsExact
PROPERTIES
  RoundTrip
