--------------------------- MODULE MCRiskManager ---------------------------
(***************************************************************************)
(* Two runners sharing one RiskManager.  The values lie around the limits  *)
(* of an account worth 100: a floating loss of 5 hits the 5% stop, a       *)
(* margin of 3 the 2% per-trade cap, and a drawdown limit of 9% is passed  *)
(* when an account that a close at 110 had raised is polled at 100.  The   *)
(* zeros of an account that was never fetched fail the margin check.       *)
(***************************************************************************)
EXTENDS RiskManager, TLC

FloatingLoss == {-5}
RunnerSymmetry == Permutations(Runners)
=============================================================================
