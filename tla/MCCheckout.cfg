\* Two checkouts and one seller edit over two products.
CONSTANTS
  p1 = p1
  p2 = p2
  alice = alice
  c1 = c1
  c2 = c2
  e1 = e1
  e2 = e2
  Guest = Guest
  NoTx = NoTx
  Products = {p1, p2}
  Buyers = {alice}
  Checkouts = {c1, c2}
  Edits = {e1}
  MayManage <- MCManage
  Requests <- MCRequests
  Quantities = {1}
  Counts = {0, 2}
  PoolSize = 3
SPECIFICATION FairSpec
INVARIANTS
  TypeOK
  RowVersions
  Balanced
  OrderedProductKept
PROPERTIES
  AddressSavedWithOrder
  ImplementsLedger
  CheckoutsEnd
