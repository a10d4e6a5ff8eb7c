---------------------------- MODULE MCConsole ----------------------------
(* Values for TLC.                                                          *)
EXTENDS Console
=============================================================================
