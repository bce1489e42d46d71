---------------------------- MODULE MCMediaQueue ----------------------------
(***************************************************************************)
(* Small instances of MediaQueue for TLC.                                  *)
(***************************************************************************)
EXTENDS MediaQueue
=============================================================================
