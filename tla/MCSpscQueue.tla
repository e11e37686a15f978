---------------------------- MODULE MCSpscQueue ----------------------------
(***************************************************************************)
(* One producer, one consumer, four slots: the ring wraps, fills and       *)
(* empties, with every interleaving of the accesses of push() and pop().   *)
(***************************************************************************)
EXTENDS SpscQueue
=============================================================================
