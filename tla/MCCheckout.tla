------------------------------ MODULE MCCheckout ------------------------------
(***************************************************************************)
(* Instances of Checkout for TLC: two products, carts that take them in    *)
(* opposite orders, a guest and a logged-in buyer.                         *)
(***************************************************************************)
EXTENDS Checkout

CONSTANTS p1, p2, alice, c1, c2, e1, e2

Of(p, q) == [product |-> p, quantity |-> q]

GuestCart(lines) == [items |-> lines, buyer |-> Guest, email |-> TRUE,
                     delivery |-> TRUE, useSaved |-> FALSE]

\* Two lines in each order, one of them large; a payload that lacks an e-mail;
\* a buyer who gives an address, in two carts that share no row, and one who relies
\* on the saved one; a product repeated in a cart.
MCRequests ==
  { GuestCart(<<Of(p1, 1), Of(p2, 1)>>),
    GuestCart(<<Of(p2, 1), Of(p1, 2)>>),
    [GuestCart(<<Of(p1, 1)>>) EXCEPT !.email = FALSE],
    [GuestCart(<<Of(p2, 1)>>) EXCEPT !.buyer = alice],
    [GuestCart(<<Of(p1, 1)>>) EXCEPT !.buyer = alice],
    [GuestCart(<<Of(p1, 1)>>) EXCEPT !.buyer = alice, !.delivery = FALSE],
    GuestCart(<<Of(p1, 1), Of(p1, 1)>>) }

\* e1's seller owns both products, e2's only the first.
MCManage == {<<e1, p1>>, <<e1, p2>>, <<e2, p1>>} \cap (Edits \X Products)
=============================================================================
