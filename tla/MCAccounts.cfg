\* Two requests for accounts and two workers over two addresses, one order, two
\* changes of role.
CONSTANTS
  Requests = {r1, r2}
  Workers = {w1, w2}
  Changes = {c1, c2}
  Orders = {o1}
  Names = {operator, ada}
  Operator = operator
  Nobody = Nobody
SPECIFICATION FairSpec
INVARIANTS
  TypeOK
  OneAccountEach
  OperatorIsBootstrapped
  OrdersBelong
  UnlinkedHasReason
PROPERTIES
  LastAdminNeedsOverlap
  CreationsEnd
