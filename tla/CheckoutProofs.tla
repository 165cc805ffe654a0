---------------------------- MODULE CheckoutProofs ----------------------------
(***************************************************************************)
(* Checkout's invariants, for any set of checkouts, edits and payloads and *)
(* any catalogue: reservations and uncommitted row versions agree,  *)
(* stock and orders balance, ordered products stay; and every step is a    *)
(* step of the ledger of StockLedger.                                      *)
(***************************************************************************)
EXTENDS Checkout, FiniteSetTheorems, TLAPS

\* No product is in two lines.
Distinct(lines) ==
  \A i, j \in DOMAIN lines : lines[i].product = lines[j].product => i = j

\* What a checkout that passed FetchProducts works on, and how far it got.
CartsKnown ==
  \A c \in Checkouts :
    /\ pc[c] = "idle" => reserved[c] = 0
    /\ pc[c] \in InTx => /\ request[c] \in Requests
                         /\ Distinct(items(c))
                         /\ reserved[c] <= Len(items(c))
    /\ pc[c] \in {"paying", "committing"} => reserved[c] = Len(items(c))

IInv == TypeOK /\ CartsKnown /\ RowVersions /\ Balanced /\ OrderedProductKept

-----------------------------------------------------------------------------
(* Lemmas about carts.                                                     *)

\* The lines of a payload are products with positive quantities.
LEMMA RequestType ==
  ASSUME NEW r \in Requests
  PROVE  /\ r.items \in Seq(Line)
         /\ Len(r.items) \in Nat
         /\ DOMAIN r.items = 1..Len(r.items)
         /\ \A i \in DOMAIN r.items :
              /\ r.items[i].product \in Products
              /\ r.items[i].quantity \in Nat
              /\ r.items[i].quantity > 0
<1>1. r \in Payload
  BY PayloadAssumption
<1>2. r.items \in Seq(Line)
  BY <1>1 DEF Payload
<1>3. Len(r.items) \in Nat /\ DOMAIN r.items = 1..Len(r.items)
  BY <1>2
<1>4. \A i \in DOMAIN r.items : r.items[i] \in Line
  BY <1>2, <1>3
<1> QED
  BY <1>2, <1>3, <1>4 DEF Line

\* The check of len(by_id) against len(payload.items) also refuses repeated ids.
LEMMA KnownCartIsDistinct ==
  ASSUME NEW lines \in Seq(Line), AllKnown(lines)
  PROVE  Distinct(lines)
<1> DEFINE S == 1..Len(lines)
           T == {lines[i].product : i \in S}
           K == {p \in Products : catalog[p] = "listed" /\ InCart(lines, p)}
           f == [i \in S |-> lines[i].product]
<1>1. /\ DOMAIN lines = S
      /\ Len(lines) \in Nat
  OBVIOUS
<1>2. IsFiniteSet(S) /\ Cardinality(S) = Len(lines)
  BY <1>1, FS_Interval
<1>3. f \in Surjection(S, T)
  BY DEF Surjection
<1>4. IsFiniteSet(T) /\ Cardinality(T) <= Cardinality(S)
  BY <1>2, <1>3, FS_Surjection
<1>5. K \subseteq T
  BY <1>1 DEF InCart
<1>6. Cardinality(K) <= Cardinality(T)
  BY <1>4, <1>5, FS_Subset
<1>7. Cardinality(K) = Len(lines)
  BY DEF AllKnown
<1>8. Cardinality(T) \in Nat
  BY <1>4, FS_CardinalityType
<1>9. Cardinality(T) = Cardinality(S)
  BY <1>1, <1>2, <1>4, <1>6, <1>7, <1>8
<1>10. f \in Injection(S, T)
  BY <1>2, <1>3, <1>9, FS_SurjSameCardinalityImpliesInj
<1>11. \A i, j \in S : f[i] = f[j] => i = j
  BY <1>10 DEF Injection, IsInjective
<1> QED
  BY <1>1, <1>11 DEF Distinct

\* In a cart without repeats, a product has the quantity of its line.
LEMMA QuantityOfLine ==
  ASSUME NEW lines, Distinct(lines), NEW i \in DOMAIN lines
  PROVE  QuantityOf(lines, lines[i].product) = lines[i].quantity
BY DEF Distinct, QuantityOf, InCart

\* A product outside the cart has quantity zero.
LEMMA QuantityOfAbsent ==
  ASSUME NEW lines, NEW p, \A i \in DOMAIN lines : lines[i].product # p
  PROVE  QuantityOf(lines, p) = 0
BY DEF QuantityOf, InCart

-----------------------------------------------------------------------------
(* Lemmas about a checkout that is about to commit.                        *)

\* A reserved line is locked by its checkout.
LEMMA ReservedLine ==
  ASSUME IInv, NEW c \in Checkouts, pc[c] \in InTx, NEW i \in 1..reserved[c]
  PROVE  LET line == items(c)[i]
         IN /\ i \in DOMAIN items(c)
            /\ line.product \in Products
            /\ line.quantity \in Nat
            /\ line.quantity > 0
            /\ lock[line.product] = c
            /\ catalog[line.product] = "listed"
            /\ stock[line.product] = dirty[line.product] + line.quantity
<1>1. request[c] \in Requests /\ reserved[c] \in Nat /\ reserved[c] <= Len(items(c))
  BY DEF IInv, TypeOK, CartsKnown
<1>2. i \in DOMAIN items(c)
  BY <1>1, RequestType DEF items
<1> QED
  BY <1>1, <1>2, RequestType DEF IInv, RowVersions, items

\* A product is either locked by the committing checkout, and then its row
\* version differs from the row by the ordered quantity, or not in the cart.
LEMMA CommittedQuantity ==
  ASSUME IInv, NEW c \in Checkouts, pc[c] = "committing", NEW p \in Products
  PROVE  /\ QuantityOf(items(c), p) \in Nat
         /\ lock[p] = c => /\ InCart(items(c), p)
                           /\ catalog[p] = "listed"
                           /\ stock[p] = dirty[p] + QuantityOf(items(c), p)
         /\ lock[p] # c => /\ ~InCart(items(c), p)
                           /\ QuantityOf(items(c), p) = 0
<1>1. /\ pc[c] \in InTx
      /\ request[c] \in Requests
      /\ Distinct(items(c))
      /\ reserved[c] = Len(items(c))
  BY DEF IInv, CartsKnown, InTx
<1>2. DOMAIN items(c) = 1..reserved[c]
  BY <1>1, RequestType DEF items
<1>3. CASE lock[p] = c
  <2>1. PICK i \in 1..reserved[c] : items(c)[i].product = p
    BY <1>3, NoTxAssumption DEF IInv, RowVersions, items
  <2>2. QuantityOf(items(c), p) = items(c)[i].quantity
    BY <1>1, <1>2, <2>1, QuantityOfLine
  <2>3. InCart(items(c), p)
    BY <1>2, <2>1 DEF InCart
  <2> QED
    BY <1>1, <1>3, <2>1, <2>2, <2>3, ReservedLine
<1>4. CASE lock[p] # c
  <2>1. \A i \in DOMAIN items(c) : items(c)[i].product # p
    BY <1>1, <1>2, <1>4, ReservedLine
  <2> QED
    BY <1>4, <2>1, QuantityOfAbsent DEF InCart
<1> QED
  BY <1>3, <1>4

-----------------------------------------------------------------------------
(* Steps of a checkout.                                                    *)

\* A step that moves one checkout and leaves rows, locks and reservations alone.
LEMMA LocalStep ==
  ASSUME IInv, NEW c \in Checkouts,
         NEW to \in {"committed", "answered", "unanswered", "failed", "paying", "committing"},
         pc' = [pc EXCEPT ![c] = to],
         \/ pc[c] \notin InTx /\ to \notin InTx
         \/ pc[c] \in InTx /\ to \in InTx /\ reserved[c] = Len(items(c)),
         UNCHANGED <<rows, locks, request, sawAddress, reserved, evars, ghost>>
  PROVE  IInv'
<1> USE DEF IInv, rows, locks, evars, ghost
<1>1. TypeOK'
  BY DEF TypeOK, InTx, Ended
<1>2. pc \in [Checkouts -> {"idle", "committed"} \cup InTx \cup Ended]
  BY DEF TypeOK
<1>3. \A d \in Checkouts : pc'[d] \in InTx <=> pc[d] \in InTx
  BY <1>2 DEF InTx
<1>4. CartsKnown'
  BY <1>2, <1>3 DEF CartsKnown, items, InTx
<1>6. RowVersions'
  BY <1>3 DEF RowVersions, items, TypeOK
<1>7. Balanced' /\ OrderedProductKept'
  BY DEF Balanced, OrderedProductKept
<1> QED
  BY <1>1, <1>4, <1>6, <1>7

\* A rollback: the locks of c go, and no other checkout had locked those rows.
LEMMA AbortStep ==
  ASSUME IInv, NEW c \in Checkouts, pc[c] \in InTx,
         NEW outcome \in {"rejected", "failed"}, Abort(c, outcome)
  PROVE  IInv'
<1> USE DEF IInv, Abort, rows, evars, ghost
<1>1. TypeOK'
  BY DEF TypeOK, InTx, Ended
<1>2. pc \in [Checkouts -> {"idle", "committed"} \cup InTx \cup Ended]
  BY DEF TypeOK
<1>3. \A d \in Checkouts : pc'[d] \in InTx <=> (pc[d] \in InTx /\ d # c)
  BY <1>2 DEF InTx
<1>4. CartsKnown'
  BY <1>2, <1>3 DEF CartsKnown, items, InTx
<1>5. RowVersions'
  <2>1. ASSUME NEW d \in Checkouts, NEW i \in 1..reserved'[d], pc'[d] \in InTx
        PROVE  LET line == request'[d].items[i]
               IN /\ lock'[line.product] = d
                  /\ catalog'[line.product] = "listed"
                  /\ stock'[line.product] = dirty'[line.product] + line.quantity
    BY <1>3, <2>1, ReservedLine DEF items
  <2>2. ASSUME NEW p \in Products
        PROVE  \/ lock'[p] = NoTx /\ dirty'[p] = 0
               \/ \E d \in Checkouts : \E i \in 1..reserved'[d] :
                    /\ lock'[p] = d /\ pc'[d] \in InTx
                    /\ request'[d].items[i].product = p
    <3>1. CASE lock[p] = c
      BY <3>1 DEF TypeOK
    <3>2. CASE lock[p] # c
      <4>1. lock'[p] = lock[p] /\ dirty'[p] = dirty[p]
        BY <3>2
      <4>2. CASE lock[p] # NoTx
        <5>1. PICK d \in Checkouts : \E i \in 1..reserved[d] :
                lock[p] = d /\ pc[d] \in InTx /\ request[d].items[i].product = p
          BY <4>2 DEF RowVersions
        <5> QED
          BY <1>3, <3>2, <4>1, <5>1
      <4> QED
        BY <4>1, <4>2, NoTxAssumption DEF RowVersions
    <3> QED
      BY <3>1, <3>2
  <2> QED
    BY <2>1, <2>2 DEF RowVersions
<1>6. Balanced' /\ OrderedProductKept'
  BY DEF Balanced, OrderedProductKept
<1> QED
  BY <1>1, <1>4, <1>5, <1>6

\* A checkout that starts holds no reservation.
LEMMA FetchStep ==
  ASSUME IInv, NEW c \in Checkouts, NEW r \in Requests, FetchProducts(c, r)
  PROVE  IInv'
<1> USE DEF IInv, FetchProducts, rows, locks, evars, ghost
<1>1. TypeOK'
  BY DEF TypeOK, InTx, Ended
<1>2. pc \in [Checkouts -> {"idle", "committed"} \cup InTx \cup Ended]
      /\ request \in [Checkouts -> Requests \cup {NoRequest}]
  BY DEF TypeOK
<1>3. reserved[c] = 0 /\ Len(r.items) \in Nat
  BY RequestType DEF CartsKnown
<1>4. \A d \in Checkouts \ {c} : /\ pc'[d] = pc[d]
                                 /\ request'[d] = request[d]
                                 /\ items(d)' = items(d)
  BY <1>2 DEF items
<1>5. pc'[c] \in {"reserving", "rejected"} /\ request'[c] = r /\ items(c)' = r.items
  BY <1>2 DEF items
<1>6. pc'[c] = "reserving" => Distinct(r.items)
  BY <1>2, KnownCartIsDistinct, RequestType
<1>7. CartsKnown'
  BY <1>2, <1>3, <1>4, <1>5, <1>6 DEF CartsKnown, InTx
<1>8. RowVersions'
  <2>1. \A p \in Products : lock[p] # c
    BY <1>3, NoTxAssumption DEF RowVersions
  <2> QED
    BY <1>3, <1>4, <2>1, NoTxAssumption DEF RowVersions, TypeOK
<1>9. Balanced' /\ OrderedProductKept'
  BY DEF Balanced, OrderedProductKept
<1> QED
  BY <1>1, <1>7, <1>8, <1>9

\* The row being reserved was free, so no reservation of another line is touched.
LEMMA ReserveStep ==
  ASSUME IInv, NEW c \in Checkouts, ReserveItem(c)
  PROVE  IInv'
<1> USE DEF IInv, ReserveItem, RowFree, StockAfter, HasNextLine, rows, evars, ghost
<1> DEFINE n == reserved[c] + 1
           p == NextLine(c).product
           q == NextLine(c).quantity
<1>1. /\ pc[c] = "reserving" /\ pc[c] \in InTx
      /\ request[c] \in Requests
      /\ reserved[c] \in Nat
      /\ n \in DOMAIN items(c)
      /\ n <= Len(items(c))
      /\ NextLine(c) = items(c)[n]
  BY RequestType DEF CartsKnown, InTx, items, NextLine, TypeOK
<1>2. p \in Products /\ q \in Nat
  BY <1>1, RequestType DEF items
<1>3. stock[p] \in Nat /\ stock[p] >= q /\ catalog[p] = "listed"
  BY <1>2 DEF SufficientStock, TypeOK
<1>4. /\ lock[p] = NoTx
      /\ lock' = [lock EXCEPT ![p] = c]
      /\ dirty' = [dirty EXCEPT ![p] = stock[p] - q]
      /\ reserved' = [reserved EXCEPT ![c] = n]
  BY DEF TypeOK
<1> HIDE DEF p, q, n, ReserveItem
<1>0. UNCHANGED <<catalog, stock, sold, addressed, pc, request, sawAddress, epc, job,
                  loaded, received, overwritten>>
  BY DEF ReserveItem
<1>5. TypeOK'
  BY <1>1, <1>2, <1>3, <1>4, <1>0 DEF TypeOK, n
<1>6. CartsKnown'
  BY <1>1, <1>4, <1>0 DEF CartsKnown, items, InTx, TypeOK, n
<1>7. RowVersions'
  <2>1. ASSUME NEW d \in Checkouts, NEW i \in 1..reserved'[d], pc'[d] \in InTx
        PROVE  LET line == request'[d].items[i]
               IN /\ lock'[line.product] = d
                  /\ catalog'[line.product] = "listed"
                  /\ stock'[line.product] = dirty'[line.product] + line.quantity
    <3>1. CASE d = c /\ i = n
      <4>1. items(d)[i].product = p /\ items(d)[i].quantity = q
        BY <1>1, <3>1 DEF p, q, items
      <4>2. lock'[p] = c /\ dirty'[p] = stock[p] - q
        BY <1>2, <1>4 DEF TypeOK
      <4> QED
        BY <1>2, <1>3, <1>0, <3>1, <4>1, <4>2 DEF items
    <3>2. CASE ~(d = c /\ i = n)
      <4>1. i \in 1..reserved[d] /\ pc[d] \in InTx
        BY <1>1, <1>4, <1>0, <2>1, <3>2 DEF TypeOK, n
      <4>2. items(d)[i].product # p
        BY <1>4, <4>1, ReservedLine, NoTxAssumption DEF items
      <4> QED
        BY <1>4, <1>0, <4>1, <4>2, ReservedLine DEF TypeOK, items
    <3> QED
      BY <3>1, <3>2
  <2>2. ASSUME NEW x \in Products
        PROVE  \/ lock'[x] = NoTx /\ dirty'[x] = 0
               \/ \E d \in Checkouts : \E i \in 1..reserved'[d] :
                    /\ lock'[x] = d /\ pc'[d] \in InTx
                    /\ request'[d].items[i].product = x
    <3>1. CASE x = p
      <4>1. lock'[x] = c /\ n \in 1..reserved'[c] /\ request'[c].items[n].product = x
        BY <1>1, <1>2, <1>4, <1>0, <3>1 DEF TypeOK, n, p, items
      <4> QED
        BY <1>1, <1>0, <4>1
    <3>2. CASE x # p
      <4>1. lock'[x] = lock[x] /\ dirty'[x] = dirty[x]
        BY <1>4, <3>2 DEF TypeOK
      <4>2. CASE lock[x] # NoTx
        <5>1. PICK d \in Checkouts : \E i \in 1..reserved[d] :
                lock[x] = d /\ pc[d] \in InTx /\ request[d].items[i].product = x
          BY <4>2 DEF RowVersions
        <5>2. 1..reserved[d] \subseteq 1..reserved'[d]
          BY <1>1, <1>4, <5>1 DEF TypeOK, n
        <5> QED
          BY <1>0, <4>1, <5>1, <5>2
      <4> QED
        BY <4>1, <4>2, NoTxAssumption DEF RowVersions
    <3> QED
      BY <3>1, <3>2
  <2> QED
    BY <2>1, <2>2 DEF RowVersions
<1>8. Balanced' /\ OrderedProductKept'
  BY <1>0 DEF Balanced, OrderedProductKept
<1> QED
  BY <1>5, <1>6, <1>7, <1>8

\* The row versions of c become the rows, and c's locks go.
LEMMA CommitStep ==
  ASSUME IInv, NEW c \in Checkouts, Commit(c)
  PROVE  IInv'
<1> USE DEF IInv, Commit, evars, ghost
<1>1. \A p \in Products :
        /\ QuantityOf(items(c), p) \in Nat
        /\ lock[p] = c => /\ catalog[p] = "listed"
                          /\ stock[p] = dirty[p] + QuantityOf(items(c), p)
        /\ lock[p] # c => QuantityOf(items(c), p) = 0
  BY CommittedQuantity
<1>2. \A p \in Products : sold'[p] = sold[p] + QuantityOf(items(c), p)
  OBVIOUS
<1>3. TypeOK'
  <2>1. sold' \in [Products -> Nat]
    BY <1>1 DEF TypeOK
  <2>2. stock' \in [Products -> Nat] /\ dirty' \in [Products -> Nat]
    BY DEF TypeOK
  <2>3. addressed' \subseteq Buyers
    <3>1. request[c] \in Requests
      BY DEF CartsKnown, InTx
    <3>2. request[c] \in Payload
      BY <3>1, PayloadAssumption
    <3> QED
      BY <3>2 DEF TypeOK, SavesAddress, Payload
  <2> QED
    BY <2>1, <2>2, <2>3 DEF TypeOK
<1>4. pc \in [Checkouts -> {"idle", "committed"} \cup InTx \cup Ended]
  BY DEF TypeOK
<1>5. \A d \in Checkouts : pc'[d] \in InTx <=> (pc[d] \in InTx /\ d # c)
  BY <1>4 DEF InTx
<1>6. CartsKnown'
  BY <1>4, <1>5 DEF CartsKnown, items, InTx
<1>7. RowVersions'
  <2>1. ASSUME NEW d \in Checkouts, NEW i \in 1..reserved'[d], pc'[d] \in InTx
        PROVE  LET line == request'[d].items[i]
               IN /\ lock'[line.product] = d
                  /\ catalog'[line.product] = "listed"
                  /\ stock'[line.product] = dirty'[line.product] + line.quantity
    BY <1>5, <2>1, ReservedLine DEF items
  <2>2. ASSUME NEW p \in Products
        PROVE  \/ lock'[p] = NoTx /\ dirty'[p] = 0
               \/ \E d \in Checkouts : \E i \in 1..reserved'[d] :
                    /\ lock'[p] = d /\ pc'[d] \in InTx
                    /\ request'[d].items[i].product = p
    <3>1. CASE lock[p] = c
      BY <3>1 DEF TypeOK
    <3>2. CASE lock[p] # c
      <4>1. lock'[p] = lock[p] /\ dirty'[p] = dirty[p]
        BY <3>2
      <4>2. CASE lock[p] # NoTx
        <5>1. PICK d \in Checkouts : \E i \in 1..reserved[d] :
                lock[p] = d /\ pc[d] \in InTx /\ request[d].items[i].product = p
          BY <4>2 DEF RowVersions
        <5> QED
          BY <1>5, <3>2, <4>1, <5>1
      <4> QED
        BY <4>1, <4>2, NoTxAssumption DEF RowVersions
    <3> QED
      BY <3>1, <3>2
  <2> QED
    BY <2>1, <2>2 DEF RowVersions
<1>8. Balanced'
  <2>1. ASSUME NEW p \in Products \ overwritten
        PROVE  stock'[p] + sold'[p] = received[p]
    <3>1. stock'[p] + QuantityOf(items(c), p) = stock[p]
      BY <1>1 DEF TypeOK
    <3> QED
      BY <1>1, <1>2, <3>1 DEF Balanced, TypeOK
  <2> QED
    BY <2>1 DEF Balanced
<1>9. OrderedProductKept'
  BY <1>1, <1>2 DEF OrderedProductKept, TypeOK
<1> QED
  BY <1>3, <1>6, <1>7, <1>8, <1>9

\* Every step of a checkout keeps the invariant.
LEMMA CheckoutStepInv ==
  ASSUME IInv, NEW c \in Checkouts, CheckoutStep(c)
  PROVE  IInv'
<1>1. CASE \E r \in Requests : FetchProducts(c, r)
  BY <1>1, FetchStep
<1>2. CASE ReserveItem(c)
  BY <1>2, ReserveStep
<1>3. CASE Commit(c)
  BY <1>3, CommitStep
<1>4. CASE PoolTimeout(c)
  BY <1>4, LocalStep DEF PoolTimeout, InTx
<1>5. CASE CreateOrder(c)
  BY <1>5, LocalStep DEF CreateOrder, InTx
<1>6. CASE InitializePayment(c)
  <2>1. reserved[c] = Len(items(c))
    BY <1>6 DEF IInv, CartsKnown, InitializePayment
  <2> QED
    BY <1>6, <2>1, LocalStep DEF InitializePayment, InTx
<1>7. CASE Respond(c) \/ LoseResponse(c)
  BY <1>7, LocalStep DEF Respond, LoseResponse, InTx
<1>8. CASE RefuseItem(c) \/ RejectIncomplete(c)
  BY <1>8, AbortStep DEF RefuseItem, RejectIncomplete, HasNextLine, InTx
<1>9. CASE PaymentFails(c) \/ Crash(c)
  BY <1>9, AbortStep DEF PaymentFails, Crash, InTx
<1>10. CASE DeadlockAbort(c)
  <2>1. pc[c] \in InTx
    BY <1>10 DEF DeadlockAbort, Deadlocked, Waiting, HasNextLine, InTx
  <2> QED
    BY <1>10, <2>1, AbortStep DEF DeadlockAbort
<1> QED
  BY <1>1, <1>2, <1>3, <1>4, <1>5, <1>6, <1>7, <1>8, <1>9, <1>10 DEF CheckoutStep

-----------------------------------------------------------------------------
(* Steps of a seller edit.                                                 *)

\* A step that changes the count, or the listing, of a row nobody has locked.
LEMMA RowStep ==
  ASSUME IInv, NEW p \in Products,
         lock[p] = NoTx,
         NEW kept \in {"unlisted", "listed", "deleted"}, NEW count \in Nat,
         catalog' = [catalog EXCEPT ![p] = kept],
         stock' = [stock EXCEPT ![p] = count],
         UNCHANGED <<locks, cvars>>
  PROVE  CartsKnown' /\ RowVersions'
<1> USE DEF IInv, locks, cvars
<1>1. CartsKnown'
  BY DEF CartsKnown, items
<1>2. ASSUME NEW d \in Checkouts, NEW i \in 1..reserved[d], pc[d] \in InTx
      PROVE  LET line == request[d].items[i]
             IN /\ lock[line.product] = d
                /\ catalog'[line.product] = "listed"
                /\ stock'[line.product] = dirty[line.product] + line.quantity
  <2>1. items(d)[i].product # p
    BY <1>2, ReservedLine, NoTxAssumption
  <2> QED
    BY <1>2, <2>1, ReservedLine DEF items, TypeOK
<1>3. RowVersions'
  BY <1>2 DEF RowVersions
<1> QED
  BY <1>1, <1>3

\* Nobody has reserved a row that is free.
LEMMA FreeRow ==
  ASSUME IInv, NEW p \in Products, catalog[p] # "listed"
  PROVE  lock[p] = NoTx /\ sold[p] = 0
<1>1. sold[p] = 0
  BY DEF IInv, OrderedProductKept, TypeOK
<1>2. lock[p] = NoTx
  BY DEF IInv, RowVersions
<1> QED
  BY <1>1, <1>2

\* Every step of a seller edit keeps the invariant.
LEMMA EditStepInv ==
  ASSUME IInv, NEW e \in Edits, EditStep(e)
  PROVE  IInv'
<1> USE DEF IInv, Finish, RowFree, Referenced
<1>1. epc \in [Edits -> {"idle", "loaded", "done", "refused", "failed"}]
      /\ job \in [Edits -> Job \cup {NoJob}] /\ loaded \in [Edits -> Nat]
  BY DEF TypeOK
<1>2. ASSUME UNCHANGED <<rows, locks, cvars, ghost>>, TypeOK'
      PROVE  IInv'
  BY <1>2 DEF rows, locks, cvars, ghost, CartsKnown, RowVersions, Balanced,
              OrderedProductKept, items
<1>3. CASE \E j \in NewJob : LoadProduct(e, j)
  <2>1. PICK j \in NewJob : LoadProduct(e, j)
    BY <1>3
  <2>2. j \in Job
    <3> DEFINE Amounts == Quantities \cup Counts \cup {0}
    <3>1. \A n \in Amounts : n \in Nat
      BY QuantitiesAssumption
    <3>2. j \in [kind : {"restock", "patch", "delete"}, product : Products,
                 quantity : Amounts]
      BY DEF NewJob
    <3> HIDE DEF Amounts
    <3> QED
      BY <3>1, <3>2 DEF Job
  <2>3. TypeOK'
    BY <2>1, <2>2 DEF LoadProduct, TypeOK, rows, locks, cvars, ghost, Job
  <2> QED
    BY <1>2, <2>1, <2>3 DEF LoadProduct
<1>4. CASE SaveNothing(e) \/ SaveStale(e) \/ EditFails(e)
  <2>1. TypeOK'
    BY <1>4 DEF SaveNothing, SaveStale, EditFails, TypeOK, rows, locks, cvars, ghost
  <2> QED
    BY <1>2, <1>4, <2>1 DEF SaveNothing, SaveStale, EditFails
<1>5. CASE \E p \in Products, n \in Counts : CreateProduct(e, p, n)
  <2>1. PICK p \in Products, n \in Counts : CreateProduct(e, p, n)
    BY <1>5
  <2>2. n \in Nat /\ n \in Int
    BY QuantitiesAssumption
  <2>3. lock[p] = NoTx /\ sold[p] = 0
    BY <2>1, FreeRow DEF CreateProduct
  <2>4. TypeOK'
    BY <2>1, <2>2 DEF CreateProduct, TypeOK, locks, cvars
  <2>5. CartsKnown' /\ RowVersions'
    BY <2>1, <2>2, <2>3, RowStep DEF CreateProduct
  <2>6. Balanced' /\ OrderedProductKept'
    BY <2>1, <2>2, <2>3 DEF CreateProduct, Balanced, OrderedProductKept, TypeOK
  <2> QED
    BY <2>4, <2>5, <2>6
<1>6. CASE SaveCount(e)
  <2> DEFINE p == job[e].product
  <2>1. /\ job[e] \in Job
        /\ p \in Products
        /\ NewCount(e) \in Nat
        /\ loaded[e] \in Nat
    BY <1>1, <1>6 DEF SaveCount, Changes, Job, NoJob, NewCount
  <2>2. /\ catalog[p] = "listed"
        /\ lock[p] = NoTx
        /\ catalog' = [catalog EXCEPT ![p] = "listed"]
        /\ stock' = [stock EXCEPT ![p] = NewCount(e)]
        /\ received' = [received EXCEPT ![p] = (received[p] + NewCount(e)) - loaded[e]]
        /\ overwritten' = IF stock[p] = loaded[e] THEN overwritten
                                                  ELSE overwritten \cup {p}
        /\ epc' = [epc EXCEPT ![e] = "done"]
        /\ UNCHANGED <<sold, addressed, locks, cvars, job, loaded>>
    BY <1>6, <2>1 DEF SaveCount, TypeOK
  <2> HIDE DEF p
  <2>3. TypeOK'
    BY <2>1, <2>2 DEF TypeOK, locks, cvars
  <2>4. CartsKnown' /\ RowVersions'
    BY <2>1, <2>2, RowStep
  <2>5. Balanced'
    <3>1. ASSUME NEW x \in Products \ overwritten'
          PROVE  stock'[x] + sold'[x] = received'[x]
      BY <2>1, <2>2 DEF Balanced, TypeOK
    <3> QED
      BY <3>1 DEF Balanced
  <2>6. OrderedProductKept'
    BY <2>2 DEF OrderedProductKept, TypeOK
  <2> QED
    BY <2>3, <2>4, <2>5, <2>6
<1>7. CASE DeleteProduct(e)
  <2> DEFINE p == job[e].product
  <2>1. p \in Products
    BY <1>1, <1>7 DEF DeleteProduct, Job, NoJob
  <2>2. CASE sold[p] > 0
    <3>1. UNCHANGED <<rows, locks, cvars, ghost>>
      BY <1>7, <2>2 DEF DeleteProduct
    <3>2. TypeOK'
      BY <1>7, <2>2 DEF DeleteProduct, TypeOK, rows, locks, cvars, ghost
    <3> QED
      BY <1>2, <3>1, <3>2
  <2>3. CASE ~(sold[p] > 0)
    <3>1. /\ sold[p] = 0
          /\ lock[p] = NoTx
          /\ catalog' = [catalog EXCEPT ![p] = "deleted"]
          /\ stock' = [stock EXCEPT ![p] = 0]
          /\ received' = [received EXCEPT ![p] = 0]
          /\ overwritten' = overwritten \ {p}
          /\ epc' = [epc EXCEPT ![e] = "done"]
          /\ UNCHANGED <<sold, addressed, locks, cvars, job, loaded>>
      BY <1>7, <2>1, <2>3 DEF DeleteProduct, TypeOK
    <3> HIDE DEF p
    <3>2. TypeOK'
      BY <2>1, <3>1 DEF TypeOK, locks, cvars
    <3>3. CartsKnown' /\ RowVersions'
      <4>1. 0 \in Nat /\ "deleted" \in {"unlisted", "listed", "deleted"}
        OBVIOUS
      <4> HIDE DEF IInv
      <4>2. IInv
        BY DEF IInv
      <4> QED
        BY <2>1, <3>1, <4>1, <4>2, RowStep
    <3>4. Balanced' /\ OrderedProductKept'
      BY <2>1, <3>1 DEF Balanced, OrderedProductKept, TypeOK
    <3> QED
      BY <3>2, <3>3, <3>4
  <2> QED
    BY <2>2, <2>3
<1> QED
  BY <1>3, <1>4, <1>5, <1>6, <1>7 DEF EditStep

-----------------------------------------------------------------------------
(* The theorems.                                                           *)

\* The invariant holds when the program starts.
LEMMA InitInv == Init => IInv
<1> SUFFICES ASSUME Init PROVE IInv
  OBVIOUS
<1>1. stock \in [Products -> Nat]
  <2>1. PICK s \in [Products -> Counts] :
          stock = [p \in Products |-> IF catalog[p] = "listed" THEN s[p] ELSE 0]
    BY DEF Init
  <2>2. \A p \in Products : s[p] \in Nat
    BY QuantitiesAssumption
  <2> QED
    BY <2>1, <2>2
<1>2. TypeOK
  BY <1>1 DEF Init, TypeOK
<1>3. CartsKnown /\ RowVersions
  BY DEF Init, CartsKnown, RowVersions, InTx
<1>4. Balanced /\ OrderedProductKept
  BY <1>1 DEF Init, Balanced, OrderedProductKept
<1> QED
  BY <1>2, <1>3, <1>4 DEF IInv

\* Stated once: the conjunction of the invariants is inductive.
THEOREM Inductive == Spec => []IInv
<1>1. Init => IInv
  BY InitInv
<1>2. IInv /\ [Next]_vars => IInv'
  <2> SUFFICES ASSUME IInv, [Next]_vars PROVE IInv'
    OBVIOUS
  <2>1. CASE UNCHANGED vars
    BY <2>1 DEF vars, rows, locks, cvars, evars, ghost, IInv, TypeOK, CartsKnown,
                RowVersions, Balanced, OrderedProductKept, items
  <2>2. CASE \E c \in Checkouts : CheckoutStep(c)
    BY <2>2, CheckoutStepInv
  <2>3. CASE \E e \in Edits : EditStep(e)
    BY <2>3, EditStepInv
  <2> QED
    BY <2>1, <2>2, <2>3 DEF Next, Quiescent
<1> QED
  BY <1>1, <1>2, PTL DEF Spec

\* No count and no uncommitted row version is ever negative: the guarded UPDATE
\* never meets the CHECK constraint.
THEOREM TypeCorrect == Spec => []TypeOK
BY Inductive, PTL DEF IInv

\* A reservation and an uncommitted row version are the same thing, and no row
\* lock outlives its transaction.
THEOREM ReservationsAreRowVersions == Spec => []RowVersions
BY Inductive, PTL DEF IInv

\* Nothing is oversold: stock left and units ordered add up to what came in.
THEOREM StockBalances == Spec => []Balanced
BY Inductive, PTL DEF IInv

\* A product with orders is never deleted.
THEOREM OrderedProductsStay == Spec => []OrderedProductKept
BY Inductive, PTL DEF IInv

-----------------------------------------------------------------------------
(* The refinement.                                                         *)

\* A commit is a whole sale of the ledger.
LEMMA CommitSells ==
  ASSUME IInv, NEW c \in Checkouts, Commit(c)
  PROVE  request[c] \in Requests /\ Ledger!Sell(request[c].items)
<1>1. pc[c] = "committing" /\ request[c] \in Requests
  BY DEF Commit, IInv, CartsKnown, InTx
<1>2. \A p \in Products :
        /\ QuantityOf(items(c), p) \in Nat
        /\ lock[p] = c => /\ catalog[p] = "listed"
                          /\ stock[p] = dirty[p] + QuantityOf(items(c), p)
        /\ lock[p] # c => ~InCart(items(c), p) /\ QuantityOf(items(c), p) = 0
  BY <1>1, CommittedQuantity
<1>3. \A p \in Products : InCart(items(c), p) =>
        catalog[p] = "listed" /\ stock[p] >= QuantityOf(items(c), p)
  BY <1>2 DEF IInv, TypeOK
<1>4. \A p \in Products : stock'[p] = stock[p] - QuantityOf(items(c), p)
  BY <1>2 DEF Commit, IInv, TypeOK
<1>5. stock' = [p \in Products |-> stock[p] - QuantityOf(items(c), p)]
  BY <1>4 DEF Commit
<1>6. \A p \in Products : /\ Ledger!InCart(items(c), p) = InCart(items(c), p)
                         /\ Ledger!QuantityOf(items(c), p) = QuantityOf(items(c), p)
  BY DEF Ledger!InCart, InCart, Ledger!QuantityOf, QuantityOf
<1>7. sold' = [p \in Products |-> sold[p] + QuantityOf(items(c), p)] /\ UNCHANGED catalog
  BY DEF Commit
<1> QED
  BY <1>1, <1>3, <1>5, <1>6, <1>7 DEF Ledger!Sell, items

\* A seller edit adjusts, lists or delists a product of the ledger, or nothing.
LEMMA EditAdjusts ==
  ASSUME IInv, NEW e \in Edits, EditStep(e)
  PROVE  [Ledger!Next]_(Ledger!ledgerVars)
<1> USE DEF Ledger!ledgerVars, rows, Referenced
<1>1. IInv'
  BY EditStepInv
<1>2. CASE \E j \in NewJob : LoadProduct(e, j)
  BY <1>2 DEF LoadProduct
<1>3. CASE SaveNothing(e) \/ SaveStale(e) \/ EditFails(e)
  BY <1>3 DEF SaveNothing, SaveStale, EditFails
<1>4. CASE \E p \in Products, n \in Counts : CreateProduct(e, p, n)
  <2>1. PICK p \in Products, n \in Counts : CreateProduct(e, p, n)
    BY <1>4
  <2>2. stock'[p] = n /\ stock'[p] \in Nat
    BY <1>1, <2>1 DEF CreateProduct, IInv, TypeOK
  <2>3. Ledger!List(p)
    BY <2>1, <2>2 DEF CreateProduct, Ledger!List
  <2> QED
    BY <2>3 DEF Ledger!Next
<1>5. CASE SaveCount(e)
  <2>1. PICK p \in Products : p = job[e].product
    BY <1>5 DEF SaveCount, Changes, IInv, TypeOK, Job, NoJob
  <2>2. stock'[p] = NewCount(e) /\ stock'[p] \in Nat
    BY <1>1, <1>5, <2>1 DEF SaveCount, IInv, TypeOK
  <2>3. Ledger!Adjust(p)
    BY <1>5, <2>1, <2>2 DEF SaveCount, Ledger!Adjust
  <2> QED
    BY <2>3 DEF Ledger!Next
<1>6. CASE DeleteProduct(e)
  <2>1. PICK p \in Products : p = job[e].product
    BY <1>6 DEF DeleteProduct, IInv, TypeOK, Job, NoJob
  <2>2. CASE sold[p] > 0
    BY <1>6, <2>1, <2>2 DEF DeleteProduct
  <2>3. CASE ~(sold[p] > 0)
    <3>1. sold[p] = 0
      BY <2>3 DEF IInv, TypeOK
    <3>2. Ledger!Delist(p)
      BY <1>6, <2>1, <2>3, <3>1 DEF DeleteProduct, Ledger!Delist
    <3> QED
      BY <3>2 DEF Ledger!Next
  <2> QED
    BY <2>2, <2>3
<1> QED
  BY <1>2, <1>3, <1>4, <1>5, <1>6 DEF EditStep

\* A step of a checkout is a sale of the ledger, or nothing.
LEMMA CheckoutSells ==
  ASSUME IInv, NEW c \in Checkouts, CheckoutStep(c)
  PROVE  [Ledger!Next]_(Ledger!ledgerVars)
<1>1. CASE Commit(c)
  BY <1>1, CommitSells DEF Ledger!Next
<1>2. CASE ~Commit(c)
  BY <1>2 DEF CheckoutStep, FetchProducts, PoolTimeout, ReserveItem, RefuseItem,
     RejectIncomplete, CreateOrder, InitializePayment, PaymentFails, Respond,
     LoseResponse, Crash, DeadlockAbort, Abort, rows, Ledger!ledgerVars
<1> QED
  BY <1>1, <1>2

\* Reserving line by line, aborting anywhere and editing rows unlocked still
\* looks, at the committed rows, like whole sales and single adjustments.
THEOREM Implements == Spec => ImplementsLedger
<1>1. Init => Ledger!Init
  BY InitInv DEF IInv, TypeOK, Init, Ledger!Init
<1>2. IInv /\ [Next]_vars => [Ledger!Next]_(Ledger!ledgerVars)
  <2> SUFFICES ASSUME IInv, [Next]_vars PROVE [Ledger!Next]_(Ledger!ledgerVars)
    OBVIOUS
  <2>1. CASE UNCHANGED vars
    BY <2>1 DEF vars, rows, Ledger!ledgerVars
  <2>2. CASE \E c \in Checkouts : CheckoutStep(c)
    BY <2>2, CheckoutSells
  <2>3. CASE \E e \in Edits : EditStep(e)
    BY <2>3, EditAdjusts
  <2> QED
    BY <2>1, <2>2, <2>3 DEF Next, Quiescent
<1> QED
  BY <1>1, <1>2, Inductive, PTL DEF Spec, ImplementsLedger, Ledger!Spec

\* The step that saves a default address is a commit, and that commit sells.
THEOREM AddressComesWithOrder == Spec => AddressSavedWithOrder
<1>1. IInv /\ [Next]_vars => [addressed' # addressed => sold' # sold]_vars
  <2> SUFFICES ASSUME IInv, Next, addressed' # addressed PROVE sold' # sold
    OBVIOUS
  <2>1. PICK c \in Checkouts : Commit(c)
    BY DEF Next, Quiescent, vars, rows, CheckoutStep, FetchProducts, PoolTimeout,
       ReserveItem, RefuseItem, RejectIncomplete, CreateOrder, InitializePayment,
       PaymentFails, Respond, LoseResponse, Crash, DeadlockAbort, Abort, EditStep,
       LoadProduct, CreateProduct, SaveCount, SaveNothing, SaveStale,
       DeleteProduct, EditFails
  <2>2. /\ request[c] \in Requests
        /\ pc[c] \in InTx
        /\ reserved[c] = Len(items(c))
        /\ Distinct(items(c))
    BY <2>1 DEF Commit, IInv, CartsKnown, InTx
  <2>3. 1 \in 1..reserved[c]
    BY <2>2, RequestType, PayloadAssumption DEF items
  <2> DEFINE p == items(c)[1].product
  <2>4. p \in Products /\ items(c)[1].quantity > 0 /\ items(c)[1].quantity \in Nat
    BY <2>2, <2>3, ReservedLine
  <2>5. QuantityOf(items(c), p) = items(c)[1].quantity
    BY <2>2, <2>3, QuantityOfLine, RequestType DEF items
  <2>6. sold'[p] = sold[p] + QuantityOf(items(c), p)
    BY <2>1, <2>4 DEF Commit
  <2> QED
    BY <2>4, <2>5, <2>6 DEF IInv, TypeOK
<1> QED
  BY <1>1, Inductive, PTL DEF Spec, AddressSavedWithOrder
=============================================================================
