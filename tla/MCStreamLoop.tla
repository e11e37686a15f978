---------------------------- MODULE MCStreamLoop ----------------------------
(***************************************************************************)
(* The four loops with the delays of BackoffConfig.                        *)
(***************************************************************************)
EXTENDS StreamLoop
=============================================================================
