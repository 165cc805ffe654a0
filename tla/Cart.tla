-------------------------------- MODULE Cart --------------------------------
(***************************************************************************)
(* The payload of POST /api/v1/orders (app/schemas/order.py): the lines of *)
(* a cart and the delivery details that come with them.  Shared by the     *)
(* detailed checkout and by the ledger it implements.                      *)
(***************************************************************************)
EXTENDS Naturals, Sequences, FiniteSets

CONSTANTS Products,   \* product ids a client may send
          Buyers,     \* ids of logged-in users
          Guest,      \* the request carries no token
          Requests    \* the payloads clients send

Line == [product : Products, quantity : Nat \ {0}]

Payload == [items    : Seq(Line),
            buyer    : Buyers \cup {Guest},
            email    : BOOLEAN,    \* guest_email is present
            delivery : BOOLEAN,    \* a delivery block is present
            useSaved : BOOLEAN]    \* use_saved_address

\* Request validation: at least one line, every quantity positive, but nothing
\* stops a product from appearing in two lines.
ASSUME PayloadAssumption ==
  /\ Requests \subseteq Payload
  /\ \A r \in Requests : r.items # << >>
  /\ Guest \notin Buyers

InCart(items, p) == \E i \in DOMAIN items : items[i].product = p

\* Units of p the cart asks for, when no product is repeated.
QuantityOf(items, p) ==
  IF InCart(items, p)
  THEN items[CHOOSE i \in DOMAIN items : items[i].product = p].quantity
  ELSE 0

\* _resolve_delivery stores the given address as the buyer's default.
SavesAddress(r) == r.buyer # Guest /\ r.delivery /\ ~r.useSaved
=============================================================================
