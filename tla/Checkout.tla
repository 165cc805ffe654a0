------------------------------- MODULE Checkout -------------------------------
(***************************************************************************)
(* One-shot checkout (app/services/checkout.py) running beside the seller  *)
(* endpoints that edit the same product rows (app/api/v1/sellers.py,       *)
(* app/api/v1/products.py), over PostgreSQL at READ COMMITTED.             *)
(*                                                                         *)
(* A request is one transaction on one pooled connection.  An UPDATE takes *)
(* the row lock and keeps it, with the uncommitted row version, until      *)
(* commit or rollback; a reader sees committed rows only.  A checkout      *)
(* keeps its locks across the awaited call to the payment gateway.  A      *)
(* seller edit reads the row unlocked, then writes the value it computed   *)
(* from what it read.                                                      *)
(***************************************************************************)
EXTENDS Cart, Integers

CONSTANTS Checkouts,   \* POST /orders requests
          Edits,       \* seller requests that write a product row
          MayManage,   \* <<e, p>>: the seller of e owns p or is a super admin
          Quantities,  \* units a restock adds (RestockRequest.quantity > 0)
          Counts,      \* counts a product is created with or patched to
          PoolSize,    \* pool_size + max_overflow connections
          NoTx         \* no transaction holds the row

ASSUME PoolAssumption == PoolSize \in Nat \ {0}
ASSUME QuantitiesAssumption == Quantities \subseteq Nat \ {0} /\ Counts \subseteq Nat
ASSUME ManageAssumption == MayManage \subseteq Edits \X Products
ASSUME NoTxAssumption == NoTx \notin Checkouts

VARIABLES
  catalog,    \* committed rows: is the product in the products table?
  stock,      \* committed products.inventory_count
  sold,       \* committed units in order_items
  addressed,  \* committed: buyers with a default delivery address
  lock,       \* transaction holding the product's row lock
  dirty,      \* inventory_count in the locked row's uncommitted version
  pc,         \* where each checkout is
  request,    \* its payload
  sawAddress, \* what it loaded: had the buyer a default address?
  reserved,   \* number of lines it has reserved
  epc,        \* where each seller edit is
  job,        \* what the edit does
  loaded,     \* the inventory_count its unlocked SELECT read
  received,   \* ghost: units sellers meant to have put in, net of corrections
  overwritten \* ghost: rows on which an edit wrote over a count it had not read

rows  == <<catalog, stock, sold, addressed>>
locks == <<lock, dirty>>
cvars == <<pc, request, sawAddress, reserved>>
evars == <<epc, job, loaded>>
ghost == <<received, overwritten>>
vars  == <<rows, locks, cvars, evars, ghost>>

InTx  == {"reserving", "paying", "committing"}
Ended == {"answered", "unanswered", "rejected", "failed"}

Job == [kind : {"restock", "patch", "delete"}, product : Products, quantity : Nat]
NoJob == [kind |-> "none"]
NoRequest == [items |-> << >>, buyer |-> Guest, email |-> FALSE,
              delivery |-> FALSE, useSaved |-> FALSE]

Init ==
  /\ catalog \in [Products -> {"unlisted", "listed"}]
  /\ \E s \in [Products -> Counts] :
        stock = [p \in Products |-> IF catalog[p] = "listed" THEN s[p] ELSE 0]
  /\ sold = [p \in Products |-> 0]
  /\ addressed \in SUBSET Buyers
  /\ lock = [p \in Products |-> NoTx]
  /\ dirty = [p \in Products |-> 0]
  /\ pc = [c \in Checkouts |-> "idle"]
  /\ request = [c \in Checkouts |-> NoRequest]
  /\ sawAddress = [c \in Checkouts |-> FALSE]
  /\ reserved = [c \in Checkouts |-> 0]
  /\ epc = [e \in Edits |-> "idle"]
  /\ job = [e \in Edits |-> NoJob]
  /\ loaded = [e \in Edits |-> 0]
  /\ received = stock
  /\ overwritten = {}

-----------------------------------------------------------------------------
(* Shared helpers.                                                         *)

\* A transaction occupies a connection from its first query to its end.
FreeConnection ==
  Cardinality({c \in Checkouts : pc[c] \in InTx}
              \cup {e \in Edits : epc[e] = "loaded"}) < PoolSize

items(c) == request[c].items
NextLine(c) == items(c)[reserved[c] + 1]
HasNextLine(c) == pc[c] = "reserving" /\ reserved[c] < Len(items(c))

\* len(by_id) = len(payload.items): the ids found are as many as the lines.
AllKnown(lines) ==
  Cardinality({p \in Products : catalog[p] = "listed" /\ InCart(lines, p)}) = Len(lines)

\* Slip: statements do not wait for the row's lock.
AnyRow(p) == TRUE

\* A write to a row waits until no transaction holds its lock.
RowFree(p) == lock[p] = NoTx

\* Slip: one unit per line, whatever its quantity.
OneUnitTaken(p, quantity) == stock[p] - 1

\* inventory_count - quantity, in the row version of the transaction.
StockAfter(p, quantity) == stock[p] - quantity

\* Slip: WHERE without the stock condition.
UnguardedStock(p, quantity) == catalog[p] = "listed"

\* The WHERE clause of the guarded UPDATE, on the committed row.
SufficientStock(p, quantity) == catalog[p] = "listed" /\ stock[p] >= quantity

\* Slip: every statement is committed on its own, and stays.
AbortAfterAutocommit(c, outcome) ==
  /\ pc' = [pc EXCEPT ![c] = outcome]
  /\ stock' = [p \in Products |-> IF lock[p] = c THEN dirty[p] ELSE stock[p]]
  /\ addressed' = IF pc[c] # "reserving" /\ SavesAddress(request[c])
                  THEN addressed \cup {request[c].buyer} ELSE addressed
  /\ lock' = [p \in Products |-> IF lock[p] = c THEN NoTx ELSE lock[p]]
  /\ dirty' = [p \in Products |-> IF lock[p] = c THEN 0 ELSE dirty[p]]
  /\ UNCHANGED <<catalog, sold, request, sawAddress, reserved, evars, ghost>>

\* Slip: the session of a failed request is not rolled back.
AbortWithoutRollback(c, outcome) ==
  /\ pc' = [pc EXCEPT ![c] = outcome]
  /\ UNCHANGED <<rows, locks, request, sawAddress, reserved, evars, ghost>>

\* The transaction ends without a commit: its locks go, with its row versions.
Abort(c, outcome) ==
  /\ pc' = [pc EXCEPT ![c] = outcome]
  /\ lock' = [p \in Products |-> IF lock[p] = c THEN NoTx ELSE lock[p]]
  /\ dirty' = [p \in Products |-> IF lock[p] = c THEN 0 ELSE dirty[p]]
  /\ UNCHANGED <<rows, request, sawAddress, reserved, evars, ghost>>

-----------------------------------------------------------------------------
(* CheckoutService.run                                                     *)

\* _fetch_products and the check of the ids.  A refused request gives its
\* connection back; nothing is locked yet.
FetchProducts(c, r) ==
  /\ pc[c] = "idle"
  /\ FreeConnection
  /\ request' = [request EXCEPT ![c] = r]
  /\ sawAddress' = [sawAddress EXCEPT ![c] = r.buyer \in addressed]
  /\ pc' = [pc EXCEPT ![c] = IF AllKnown(r.items) THEN "reserving" ELSE "rejected"]
  /\ UNCHANGED <<rows, locks, reserved, evars, ghost>>

\* No connection came free within DB_POOL_TIMEOUT.
PoolTimeout(c) ==
  /\ pc[c] = "idle"
  /\ ~FreeConnection
  /\ pc' = [pc EXCEPT ![c] = "failed"]
  /\ UNCHANGED <<rows, locks, request, sawAddress, reserved, evars, ghost>>

\* One turn of _reserve_inventory: the UPDATE waits for the row lock, then
\* finds its WHERE clause true of the committed row.
ReserveItem(c) ==
  /\ HasNextLine(c)
  /\ LET p == NextLine(c).product
         q == NextLine(c).quantity
     IN /\ RowFree(p)
        /\ SufficientStock(p, q)
        /\ lock' = [lock EXCEPT ![p] = c]
        /\ dirty' = [dirty EXCEPT ![p] = StockAfter(p, q)]
  /\ reserved' = [reserved EXCEPT ![c] = @ + 1]
  /\ UNCHANGED <<rows, pc, request, sawAddress, evars, ghost>>

\* rowcount # 1: the committed row does not qualify, whoever holds its lock.
RefuseItem(c) ==
  /\ HasNextLine(c)
  /\ ~SufficientStock(NextLine(c).product, NextLine(c).quantity)
  /\ Abort(c, "rejected")

\* order_email or the delivery address is missing: noticed with the stock
\* already reserved.
LacksDetails(c) ==
  LET r == request[c]
  IN IF r.buyer = Guest THEN ~r.email \/ ~r.delivery
                        ELSE ~SavesAddress(r) /\ ~sawAddress[c]

RejectIncomplete(c) ==
  /\ pc[c] = "reserving" /\ reserved[c] = Len(items(c))
  /\ LacksDetails(c)
  /\ Abort(c, "rejected")

\* Another transaction has flushed its update of the same users row.
AddressLocked(c) ==
  /\ SavesAddress(request[c])
  /\ \E d \in Checkouts \ {c} :
       /\ pc[d] \in {"paying", "committing"}
       /\ SavesAddress(request[d])
       /\ request[d].buyer = request[c].buyer

\* The order, its lines and the default address are flushed, uncommitted.
CreateOrder(c) ==
  /\ pc[c] = "reserving" /\ reserved[c] = Len(items(c))
  /\ ~LacksDetails(c)
  /\ ~AddressLocked(c)
  /\ pc' = [pc EXCEPT ![c] = "paying"]
  /\ UNCHANGED <<rows, locks, request, sawAddress, reserved, evars, ghost>>

\* payment_gateway.initialize_payment answers ...
InitializePayment(c) ==
  /\ pc[c] = "paying"
  /\ pc' = [pc EXCEPT ![c] = "committing"]
  /\ UNCHANGED <<rows, locks, request, sawAddress, reserved, evars, ghost>>

\* ... or refuses, or does not answer within the HTTP timeout.
PaymentFails(c) ==
  /\ pc[c] = "paying"
  /\ Abort(c, "failed")

\* db.commit(): the row versions of this transaction become the rows.
Commit(c) ==
  /\ pc[c] = "committing"
  /\ pc' = [pc EXCEPT ![c] = "committed"]
  /\ stock' = [p \in Products |-> IF lock[p] = c THEN dirty[p] ELSE stock[p]]
  /\ sold' = [p \in Products |-> sold[p] + QuantityOf(items(c), p)]
  /\ addressed' = IF SavesAddress(request[c])
                  THEN addressed \cup {request[c].buyer} ELSE addressed
  /\ lock' = [p \in Products |-> IF lock[p] = c THEN NoTx ELSE lock[p]]
  /\ dirty' = [p \in Products |-> IF lock[p] = c THEN 0 ELSE dirty[p]]
  /\ UNCHANGED <<catalog, request, sawAddress, reserved, evars, ghost>>

\* db.refresh(order) needs a connection again before the client is answered.
Respond(c) ==
  /\ pc[c] = "committed"
  /\ FreeConnection
  /\ pc' = [pc EXCEPT ![c] = "answered"]
  /\ UNCHANGED <<rows, locks, request, sawAddress, reserved, evars, ghost>>

\* The order stands, and the client never gets the payment URL.
LoseResponse(c) ==
  /\ pc[c] = "committed"
  /\ pc' = [pc EXCEPT ![c] = "unanswered"]
  /\ UNCHANGED <<rows, locks, request, sawAddress, reserved, evars, ghost>>

\* A database error, a dropped connection or the death of the process.
Crash(c) ==
  /\ pc[c] \in InTx
  /\ Abort(c, "failed")

-----------------------------------------------------------------------------
(* PostgreSQL's deadlock detector.                                         *)

Waiting(c) ==
  /\ HasNextLine(c)
  /\ SufficientStock(NextLine(c).product, NextLine(c).quantity)
  /\ ~RowFree(NextLine(c).product)

Blocker(c) == lock[NextLine(c).product]

\* c is on a cycle of transactions, each waiting for the next.
Deadlocked(c) ==
  \E S \in SUBSET Checkouts :
    /\ c \in S
    /\ \A d \in S : Waiting(d)
    /\ {Blocker(d) : d \in S} = S

DeadlockAbort(c) ==
  /\ Deadlocked(c)
  /\ Abort(c, "failed")

-----------------------------------------------------------------------------
(* Seller edits of a product row.                                          *)

Finish(e, outcome) == epc' = [epc EXCEPT ![e] = outcome]

\* db.get(Product), the 404 and the 403, of restock, update and delete.
LoadProduct(e, j) ==
  /\ epc[e] = "idle"
  /\ FreeConnection
  /\ IF catalog[j.product] = "listed" /\ <<e, j.product>> \in MayManage
     THEN /\ Finish(e, "loaded")
          /\ job' = [job EXCEPT ![e] = j]
          /\ loaded' = [loaded EXCEPT ![e] = stock[j.product]]
     ELSE /\ Finish(e, "refused")
          /\ UNCHANGED <<job, loaded>>
  /\ UNCHANGED <<rows, locks, cvars, ghost>>

\* The count the handler computed from the row it read.
NewCount(e) ==
  IF job[e].kind = "restock" THEN loaded[e] + job[e].quantity ELSE job[e].quantity

\* The ORM flushes the column only when it differs from what was loaded.
Changes(e) == job[e].kind \in {"restock", "patch"} /\ NewCount(e) # loaded[e]

\* UPDATE products SET inventory_count = <literal> WHERE id = ...; COMMIT.
SaveCount(e) ==
  LET p == job[e].product
  IN /\ epc[e] = "loaded"
     /\ Changes(e)
     /\ catalog[p] = "listed"
     /\ RowFree(p)
     /\ stock' = [stock EXCEPT ![p] = NewCount(e)]
     /\ received' = [received EXCEPT ![p] = (@ + NewCount(e)) - loaded[e]]
     /\ overwritten' = IF stock[p] = loaded[e] THEN overwritten
                                               ELSE overwritten \cup {p}
     /\ Finish(e, "done")
     /\ UNCHANGED <<catalog, sold, addressed, locks, cvars, job, loaded>>

\* A PATCH that repeats the loaded count issues no UPDATE at all.
SaveNothing(e) ==
  /\ epc[e] = "loaded"
  /\ job[e].kind = "patch"
  /\ ~Changes(e)
  /\ Finish(e, "done")
  /\ UNCHANGED <<rows, locks, cvars, job, loaded, ghost>>

\* The row was deleted meanwhile: no row matches the UPDATE, and the ORM
\* raises; a second DELETE only warns.
SaveStale(e) ==
  /\ epc[e] = "loaded"
  /\ catalog[job[e].product] = "deleted"
  /\ Changes(e) \/ job[e].kind = "delete"
  /\ Finish(e, IF job[e].kind = "delete" THEN "done" ELSE "failed")
  /\ UNCHANGED <<rows, locks, cvars, job, loaded, ghost>>

\* Slip: ON DELETE CASCADE.
NeverReferenced(p) == FALSE

\* order_items.product_id RESTRICTs the deletion.
Referenced(p) == sold[p] > 0

\* DELETE waits for the row lock; order_items that reference the row make it fail.
DeleteProduct(e) ==
  LET p == job[e].product
  IN /\ epc[e] = "loaded"
     /\ job[e].kind = "delete"
     /\ catalog[p] = "listed"
     /\ RowFree(p)
     /\ IF Referenced(p)
        THEN Finish(e, "failed") /\ UNCHANGED <<rows, ghost>>
        ELSE /\ Finish(e, "done")
             /\ catalog' = [catalog EXCEPT ![p] = "deleted"]
             /\ stock' = [stock EXCEPT ![p] = 0]
             /\ received' = [received EXCEPT ![p] = 0]
             /\ overwritten' = overwritten \ {p}
             /\ UNCHANGED <<sold, addressed>>
     /\ UNCHANGED <<locks, cvars, job, loaded>>

\* POST /products: one INSERT, owned by the seller who sent it.
CreateProduct(e, p, n) ==
  /\ epc[e] = "idle"
  /\ FreeConnection
  /\ <<e, p>> \in MayManage
  /\ catalog[p] = "unlisted"
  /\ catalog' = [catalog EXCEPT ![p] = "listed"]
  /\ stock' = [stock EXCEPT ![p] = n]
  /\ received' = [received EXCEPT ![p] = n]
  /\ Finish(e, "done")
  /\ UNCHANGED <<sold, addressed, locks, cvars, job, loaded, overwritten>>

\* No connection for the edit, or its transaction is lost before its commit.
EditFails(e) ==
  /\ epc[e] = "loaded" \/ (epc[e] = "idle" /\ ~FreeConnection)
  /\ Finish(e, "failed")
  /\ UNCHANGED <<rows, locks, cvars, job, loaded, ghost>>

-----------------------------------------------------------------------------
CheckoutStep(c) ==
  \/ \E r \in Requests : FetchProducts(c, r)
  \/ PoolTimeout(c)
  \/ ReserveItem(c)
  \/ RefuseItem(c)
  \/ RejectIncomplete(c)
  \/ CreateOrder(c)
  \/ InitializePayment(c)
  \/ PaymentFails(c)
  \/ Commit(c)
  \/ Respond(c)
  \/ LoseResponse(c)
  \/ Crash(c)
  \/ DeadlockAbort(c)

NewJob ==
  {j \in [kind : {"restock", "patch", "delete"}, product : Products,
          quantity : Quantities \cup Counts \cup {0}] :
     /\ j.kind = "restock" => j.quantity \in Quantities
     /\ j.kind = "patch"   => j.quantity \in Counts
     /\ j.kind = "delete"  => j.quantity = 0}

EditStep(e) ==
  \/ \E j \in NewJob : LoadProduct(e, j)
  \/ \E p \in Products, n \in Counts : CreateProduct(e, p, n)
  \/ SaveCount(e)
  \/ SaveNothing(e)
  \/ SaveStale(e)
  \/ DeleteProduct(e)
  \/ EditFails(e)

\* Every request of the instance has been served.
Quiescent ==
  /\ \A c \in Checkouts : pc[c] \in Ended
  /\ \A e \in Edits : epc[e] # "loaded"
  /\ UNCHANGED vars

Next ==
  \/ \E c \in Checkouts : CheckoutStep(c)
  \/ \E e \in Edits : EditStep(e)
  \/ Quiescent

Spec == Init /\ [][Next]_vars

\* The event loop runs every request that can go on, the gateway call has a
\* timeout, the pool has one, and PostgreSQL looks for deadlocks.  Nothing
\* obliges a client to send a request.
Progress(c) ==
  \/ ReserveItem(c) \/ RefuseItem(c) \/ RejectIncomplete(c) \/ CreateOrder(c)
  \/ InitializePayment(c) \/ PaymentFails(c) \/ Commit(c)
  \/ Respond(c) \/ LoseResponse(c) \/ DeadlockAbort(c)

EditProgress(e) == SaveCount(e) \/ SaveNothing(e) \/ SaveStale(e) \/ DeleteProduct(e)

Fairness ==
  /\ \A c \in Checkouts : WF_vars(Progress(c))
  /\ \A e \in Edits : WF_vars(EditProgress(e))

FairSpec == Spec /\ Fairness
-----------------------------------------------------------------------------
(* Properties.                                                             *)

TypeOK ==
  /\ catalog \in [Products -> {"unlisted", "listed", "deleted"}]
  /\ stock \in [Products -> Nat]
  /\ sold \in [Products -> Nat]
  /\ addressed \subseteq Buyers
  /\ lock \in [Products -> Checkouts \cup {NoTx}]
  /\ dirty \in [Products -> Nat]
  /\ pc \in [Checkouts -> {"idle", "committed"} \cup InTx \cup Ended]
  /\ request \in [Checkouts -> Requests \cup {NoRequest}]
  /\ sawAddress \in [Checkouts -> BOOLEAN]
  /\ reserved \in [Checkouts -> Nat]
  /\ epc \in [Edits -> {"idle", "loaded", "done", "refused", "failed"}]
  /\ job \in [Edits -> Job \cup {NoJob}]
  /\ loaded \in [Edits -> Nat]
  /\ received \in [Products -> Int]
  /\ overwritten \subseteq Products

\* Reservations and row versions say the same thing.  Every line a running
\* checkout has reserved is a locked row whose uncommitted count is the
\* committed count less that line's quantity; every locked row is such a line,
\* so no lock outlives its transaction.  _reserve_inventory relies on it for
\* "atomically reserve" (checkout.py:49), over lines it reserves one at a time.
RowVersions ==
  /\ \A c \in Checkouts : \A i \in 1..reserved[c] :
       pc[c] \in InTx =>
         LET line == request[c].items[i]
         IN /\ lock[line.product] = c
            /\ catalog[line.product] = "listed"
            /\ stock[line.product] = dirty[line.product] + line.quantity
  /\ \A p \in Products :
       \/ lock[p] = NoTx /\ dirty[p] = 0
       \/ \E c \in Checkouts : \E i \in 1..reserved[c] :
            lock[p] = c /\ pc[c] \in InTx /\ request[c].items[i].product = p

\* Units are conserved: on a row no edit wrote over blindly, the stock left and
\* the units ordered add up to what sellers put in, whatever checkouts aborted,
\* crashed, were refused or deadlocked in between.  No overselling follows.
Balanced ==
  \A p \in Products \ overwritten : stock[p] + sold[p] = received[p]

\* A product somebody ordered is never gone from the catalogue: delete_product
\* counts on the RESTRICT foreign key and on waiting for the checkout's lock.
OrderedProductKept ==
  \A p \in Products : sold[p] > 0 => catalog[p] = "listed"

\* The buyer's default address, written in the middle of the checkout by
\* _save_default_delivery, is kept only together with an order.
AddressSavedWithOrder == [][addressed' # addressed => sold' # sold]_vars

\* The checkout and the edits implement the ledger of whole, instantaneous sales.
Ledger == INSTANCE StockLedger WITH catalog <- catalog, stock <- stock, sold <- sold
ImplementsLedger == Ledger!Spec

\* Every checkout that reached the database ends, though checkouts wait for
\* each other's rows in the order of their carts and may deadlock, and need a
\* second connection to answer.
CheckoutsEnd == \A c \in Checkouts : pc[c] \in InTx ~> pc[c] \in Ended

\* Every seller edit ends, though it may have to wait for the row of a checkout
\* that waits for the payment gateway.
EditsEnd == \A e \in Edits : epc[e] = "loaded" ~> epc[e] # "loaded"

\* With fewer connections than requests nobody is left waiting: a checkout that
\* has committed and needs a connection for its answer, nor an edit behind it.
NobodyStarves == CheckoutsEnd /\ EditsEnd

\* handoff.md says of "Restock Now" that it atomically increments the count: on
\* a product that sellers only restock, no unit is lost or made.
RestocksConserve ==
  \A p \in Products :
    (\A e \in Edits : job[e] # NoJob /\ job[e].product = p => job[e].kind = "restock")
      => stock[p] + sold[p] = received[p]
=============================================================================
