------------------------- MODULE MCOutputLifecycle -------------------------
(***************************************************************************)
(* Small instances of OutputLifecycle for TLC.                             *)
(***************************************************************************)
EXTENDS OutputLifecycle
=============================================================================
