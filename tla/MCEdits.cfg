\* Two seller edits race each other and one checkout, over two connections.
CONSTANTS
  p1 = p1
  p2 = p2
  alice = alice
  c1 = c1
  c2 = c2
  e1 = e1
  e2 = e2
  Guest = Guest
  NoTx = NoTx
  Products = {p1, p2}
  Buyers = {alice}
  Checkouts = {c1}
  Edits = {e1, e2}
  MayManage <- MCManage
  Requests <- MCRequests
  Quantities = {1}
  Counts = {0, 2}
  PoolSize = 2
SPECIFICATION FairSpec
PROPERTIES
  NobodyStarves
