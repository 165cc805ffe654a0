--------------------------- MODULE MCOrderLifecycle ---------------------------
(***************************************************************************)
(* Instances of OrderLifecycle for TLC.  Requests are slots used again and *)
(* again, so the runs bound how many overlap, not how many there are.      *)
(***************************************************************************)
EXTENDS OrderLifecycle
CONSTANTS o1, o2, w1, b1, b2, s1
=============================================================================
