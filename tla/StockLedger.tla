----------------------------- MODULE StockLedger -----------------------------
(***************************************************************************)
(* What the store promises about stock, with no transactions, no row locks *)
(* and no requests: an order is sold at once and whole, out of stock that  *)
(* is there; sellers change the count of a product on sale; a product that *)
(* was ever ordered stays in the catalogue.                                *)
(***************************************************************************)
EXTENDS Cart

VARIABLES catalog, stock, sold

ledgerVars == <<catalog, stock, sold>>

Init ==
  /\ catalog \in [Products -> {"unlisted", "listed"}]
  /\ stock \in [Products -> Nat]
  /\ sold = [p \in Products |-> 0]

Sell(items) ==
  /\ \A p \in Products : InCart(items, p) =>
        catalog[p] = "listed" /\ stock[p] >= QuantityOf(items, p)
  /\ stock' = [p \in Products |-> stock[p] - QuantityOf(items, p)]
  /\ sold' = [p \in Products |-> sold[p] + QuantityOf(items, p)]
  /\ UNCHANGED catalog

Adjust(p) ==
  /\ catalog[p] = "listed"
  /\ stock'[p] \in Nat
  /\ stock' = [stock EXCEPT ![p] = stock'[p]]
  /\ UNCHANGED <<catalog, sold>>

List(p) ==
  /\ catalog[p] = "unlisted"
  /\ catalog' = [catalog EXCEPT ![p] = "listed"]
  /\ stock'[p] \in Nat
  /\ stock' = [stock EXCEPT ![p] = stock'[p]]
  /\ UNCHANGED sold

Delist(p) ==
  /\ catalog[p] = "listed"
  /\ sold[p] = 0
  /\ catalog' = [catalog EXCEPT ![p] = "deleted"]
  /\ stock' = [stock EXCEPT ![p] = 0]
  /\ UNCHANGED sold

Next ==
  \/ \E r \in Requests : Sell(r.items)
  \/ \E p \in Products : Adjust(p) \/ List(p) \/ Delist(p)

Spec == Init /\ [][Next]_ledgerVars
=============================================================================
