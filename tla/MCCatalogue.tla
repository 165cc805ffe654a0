------------------------------ MODULE MCCatalogue ------------------------------
(***************************************************************************)
(* Instances of Catalogue for TLC.                                         *)
(***************************************************************************)
EXTENDS Catalogue, TLC

CONSTANTS m1, m2, v1, w1, w2, shoes, socks

\* The visitor shares a process with the first seller request.
MCAt == m1 :> w1 @@ m2 :> w2 @@ v1 :> w1

\* A shelf, for a new product or for one that is there; and the images of the product
\* at first, sent back when they may have been replaced or added to since.
MCPayloads == {[category |-> socks], [image |-> Picture, gallery |-> {}]}
=============================================================================
