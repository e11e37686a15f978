----------------------------- MODULE MCRollover -----------------------------
(***************************************************************************)
(* Start dates for the runs: the years around a leap year, a quarter whose *)
(* third Friday is in the middle of the run, and the end of the decade.    *)
(***************************************************************************)
EXTENDS Rollover

January2026  == [year |-> 2026, month |-> 1, day |-> 1]
February2028 == [year |-> 2028, month |-> 2, day |-> 26]
March2026    == [year |-> 2026, month |-> 3, day |-> 10]
December2029 == [year |-> 2029, month |-> 12, day |-> 1]
=============================================================================
