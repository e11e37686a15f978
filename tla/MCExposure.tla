----------------------------- MODULE MCExposure -----------------------------
(***************************************************************************)
(* One runner, two orders, answers late or lost, one break of the stream,  *)
(* one update refused by a full queue.                                     *)
(***************************************************************************)
EXTENDS Exposure
=============================================================================
