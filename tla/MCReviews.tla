------------------------------- MODULE MCReviews -------------------------------
(***************************************************************************)
(* Instances of Reviews for TLC.                                           *)
(***************************************************************************)
EXTENDS Reviews

CONSTANTS r1, r2, r3, d1, s1

\* The defaults of ProductCreate; and the aggregate that two reviews will select.
MCSeeds ==
  {[rating |-> 50, count |-> 0], [rating |-> 35, count |-> 2]}
=============================================================================
