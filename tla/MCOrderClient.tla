--------------------------- MODULE MCOrderClient ---------------------------
(***************************************************************************)
(* Two runners, an order of three contracts (so that it is filled in       *)
(* parts), answers late or lost, a stream that breaks twice.  With         *)
(* MCOrderTwo.cfg, two orders at a time.                                   *)
(***************************************************************************)
EXTENDS OrderClient
=============================================================================
