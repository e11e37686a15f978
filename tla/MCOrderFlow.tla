----------------------------- MODULE MCOrderFlow ----------------------------
(***************************************************************************)
(* Two levels and two prices; a large order shown and withdrawn on either  *)
(* side, and one event that does both.                                     *)
(***************************************************************************)
EXTENDS OrderFlow

Event(k, p, b, a) == [level |-> k, price |-> p, bid |-> b, ask |-> a]

MCBookEvents == {
  Event(0, 1, <<0, 2>>, <<0, 0>>),     \* a large bid appears
  Event(0, 1, <<2, 0>>, <<0, 0>>),     \* and is withdrawn
  Event(1, 1, <<1, 1>>, <<2, 0>>),     \* a large ask is withdrawn
  Event(1, 2, <<2, 0>>, <<0, 2>>),     \* one goes, the other comes
  Event(2, 2, <<0, 1>>, <<0, 0>>)}     \* a level out of range
=============================================================================
