----------------------------- MODULE MCSearches -----------------------------
(***************************************************************************)
(* Every sorted list of up to six ticks over six indices for the upper     *)
(* bound, every list of up to four over four, valid or not, for the search *)
(* of the legacy list.                                                     *)
(***************************************************************************)
EXTENDS Searches

MCTickIndex == -2 .. 3
MCListIndex == {-2, 0, 2, 3}
MCNet == {-1, 1}
MCSpacing == {0, 1, 2}
=============================================================================
