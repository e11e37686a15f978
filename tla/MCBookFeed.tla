----------------------------- MODULE MCBookFeed -----------------------------
(***************************************************************************)
(* Three prices and two levels, so that a level falls out of sight and     *)
(* comes back; one break with the book changing meanwhile.                 *)
(***************************************************************************)
EXTENDS BookFeed
=============================================================================
