---------------------------- MODULE StreamThread ----------------------------
(***************************************************************************)
(* What a stream's thread promises to the rest of the process: it calls    *)
(* back for the items of the messages it takes, ends only when it was told *)
(* to stop and has no message in hand, and takes at most one more message  *)
(* after it was told.  How many items a message has is not promised.       *)
(***************************************************************************)
EXTENDS Integers

VARIABLES
  phase,   \* "working", "handling" (a message), "calling" (back) or "ended"
  told,    \* the stop flag is set
  late     \* messages taken since then

vars == <<phase, told, late>>

Init == phase = "working" /\ told = FALSE /\ late = 0

Tell == told' = TRUE /\ UNCHANGED <<phase, late>>

Take ==
  /\ phase = "working" /\ phase' = "handling"
  /\ told => late = 0
  /\ late' = (IF told THEN 1 ELSE 0)
  /\ UNCHANGED told

Call == phase = "handling" /\ phase' = "calling" /\ UNCHANGED <<told, late>>

Return == phase = "calling" /\ phase' = "handling" /\ UNCHANGED <<told, late>>

Release == phase = "handling" /\ phase' = "working" /\ UNCHANGED <<told, late>>

End == phase = "working" /\ told /\ phase' = "ended" /\ UNCHANGED <<told, late>>

Next == Tell \/ Take \/ Call \/ Return \/ Release \/ End

Spec == Init /\ [][Next]_vars
=============================================================================
