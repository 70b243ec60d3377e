-------------------------- MODULE MCPublicMachine --------------------------
(***************************************************************************)
(* PublicMachine for TLC.  The sizes are constants of the configurations:  *)
(* two inbox items make "the oldest" and "another one" differ, two attempts *)
(* are PAC1_TRIAL_RETRY's default, a budget of (2, 2) is the code's own     *)
(* default and (1, 1) the one its comment calls structurally wrong.         *)
(***************************************************************************)
EXTENDS PublicMachine
=============================================================================
