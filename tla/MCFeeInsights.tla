---------------------------- MODULE MCFeeInsights ----------------------------
(***************************************************************************)
(* FeeInsights with windows of one, two and four ticks, buffers of three   *)
(* points and spikes that last a tick.                                     *)
(***************************************************************************)
EXTENDS FeeInsights

Samples == [short |-> 1, medium |-> 2, long |-> 2]
=============================================================================
