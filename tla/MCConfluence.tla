---------------------------- MODULE MCConfluence ----------------------------
(***************************************************************************)
(* Two prices: a bar at one leaves a range that the other breaks.  Three   *)
(* daily bars through a ring of two, so that it wraps.  Stop loss and take *)
(* profit at zero ticks, so that one step of the price reaches either.     *)
(***************************************************************************)
EXTENDS ConfluenceStrategy
=============================================================================
