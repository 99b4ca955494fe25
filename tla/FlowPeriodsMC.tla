--------------------------- MODULE FlowPeriodsMC ---------------------------
(* FlowPeriods for TLC: every constant is a number. *)
EXTENDS FlowPeriods
=============================================================================
