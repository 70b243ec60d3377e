--------------------------- MODULE MCHarnessRun ---------------------------
(***************************************************************************)
(* HarnessRun for TLC: three trials, so that with two workers one is queued *)
(* while others run and a third can be lost meanwhile; two interrupts, so  *)
(* that the second can strike the wait the first one caused.  Trials are   *)
(* interchangeable; the runs use no symmetry, as one checks liveness.      *)
(***************************************************************************)
EXTENDS HarnessRun
=============================================================================
