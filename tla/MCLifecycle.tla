---------------------------- MODULE MCLifecycle ----------------------------
(***************************************************************************)
(* Two instruments, with and without an order client: one runner trades    *)
(* while the other is constructed or destroyed.                            *)
(***************************************************************************)
EXTENDS Lifecycle
=============================================================================
