-------------------------- MODULE MCCommandChannel --------------------------
(***************************************************************************)
(* Small instances of CommandChannel for TLC.                              *)
(***************************************************************************)
EXTENDS CommandChannel

CONSTANTS a, b, c
=============================================================================
