----------------------------- MODULE MCPagination -----------------------------
(***************************************************************************)
(* Instances of Pagination for TLC: rows that share dates and prices, and  *)
(* more of them than fit a page.                                           *)
(***************************************************************************)
EXTENDS Pagination

\* Row 2 is the newest, rows 1 and 3 are of one time.  Prices take every pattern.
MCHistories == {<<1, 2, 1>>}
=============================================================================
