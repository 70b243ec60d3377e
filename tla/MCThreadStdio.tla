--------------------------- MODULE MCThreadStdio ---------------------------
(***************************************************************************)
(* ThreadStdio for TLC: two workers meet in the installation, two rounds   *)
(* reuse a thread ident, and the main thread prints meanwhile.             *)
(***************************************************************************)
EXTENDS ThreadStdio
=============================================================================
